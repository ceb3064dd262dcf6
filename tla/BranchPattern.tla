--------------------------- MODULE BranchPattern ----------------------------
(***************************************************************************)
(* The wildcard patterns that name sets of branches: a channel's branch     *)
(* surfing pattern and the branch rules of an API key.  MatchPattern        *)
(* anchors the first and the last segment and searches the inner ones       *)
(* greedily; it is checked against the definition of a match on every       *)
(* short pattern and name.                                                  *)
(***************************************************************************)
EXTENDS Naturals, Sequences, SequencesExt

CONSTANTS
    Letters,        \* characters of a name
    Star,           \* the wildcard
    MaxPattern,     \* bound on the length of a pattern
    MaxName         \* bound on the length of a name

ASSUME StarAssumption == Star \notin Letters

VARIABLES
    glob,           \* the pattern, as typed
    branchName            \* the name it is matched with

patternVars == <<glob, branchName>>

-----------------------------------------------------------------------------
PatternInit == glob = <<>> /\ branchName = <<>>

\* Every pattern and every name is built one character at a time.
PatternNext ==
    \/ /\ Len(glob) < MaxPattern
       /\ \E c \in Letters \cup {Star} : glob' = Append(glob, c)
       /\ UNCHANGED branchName
    \/ /\ Len(branchName) < MaxName
       /\ \E c \in Letters : branchName' = Append(branchName, c)
       /\ UNCHANGED glob

PatternSpec == PatternInit /\ [][PatternNext]_patternVars

-----------------------------------------------------------------------------
\* CollapseWildcards: no two stars in a row.
CollapseWildcards(p) ==
    FoldSeq(LAMBDA c, q : IF c = Star /\ q # <<>> /\ Head(q) = Star THEN q ELSE <<c>> \o q, <<>>, p)

\* strings.Split(pattern, "*").
Segments(p) ==
    FoldSeq(LAMBDA c, q : IF c = Star THEN <<<<>>>> \o q
                          ELSE <<<<c>> \o Head(q)>> \o Tail(q), <<<<>>>>, p)

HasPrefix(n, s) == Len(s) <= Len(n) /\ SubSeq(n, 1, Len(s)) = s
HasSuffix(n, s) == Len(s) <= Len(n) /\ SubSeq(n, Len(n) - Len(s) + 1, Len(n)) = s

NotFound == <<Star>>

\* What is left of rest after the leftmost occurrence of a segment.
AfterLeftmost(rest, segment) ==
    LET found == {i \in 0..Len(rest) : HasPrefix(SubSeq(rest, i + 1, Len(rest)), segment)}
        first == CHOOSE i \in found : \A j \in found : i <= j
    IN  IF rest = NotFound \/ found = {} THEN NotFound
        ELSE SubSeq(rest, first + Len(segment) + 1, Len(rest))

\* "ab*ba" does not match "aba".
AnchorsApart(prefix, suffix, n) == Len(prefix) + Len(suffix) <= Len(n)

\* MatchPattern.
MatchPattern(p, n) ==
    LET segments == Segments(p)
        prefix == Head(segments)
        suffix == Last(segments)
        inner == SubSeq(segments, 2, Len(segments) - 1)
        rest == SubSeq(n, Len(prefix) + 1, Len(n) - Len(suffix))
    IN  /\ p # <<>>
        /\ IF Star \notin ToSet(p) THEN p = n
           ELSE /\ HasPrefix(n, prefix) /\ HasSuffix(n, suffix)
                /\ AnchorsApart(prefix, suffix, n)
                /\ FoldLeft(AfterLeftmost, rest, inner) # NotFound

-----------------------------------------------------------------------------
\* A name matches a pattern exactly when each star can be given a run of characters,
\* possibly empty, that turns the pattern into the name; the empty pattern matches
\* nothing.  The greedy search of the inner segments loses no match, and collapsing
\* the stars, as every write of a pattern does, changes none.
MatchesByDefinition ==
    LET matches[i \in 0..Len(glob), j \in 0..Len(branchName)] ==
            IF i = 0 THEN j = 0
            ELSE IF glob[i] = Star THEN \E k \in 0..j : matches[i - 1, k]
                 ELSE j > 0 /\ glob[i] = branchName[j] /\ matches[i - 1, j - 1]
    IN  MatchPattern(CollapseWildcards(glob), branchName)
            <=> glob # <<>> /\ matches[Len(glob), Len(branchName)]
=============================================================================

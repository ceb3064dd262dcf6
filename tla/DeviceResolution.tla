-------------------------- MODULE DeviceResolution --------------------------
(***************************************************************************)
(* Which update a device is served.  The rule chain turns the channel's     *)
(* mapping, its progressive rollout and the branch the device asks for      *)
(* (branch surfing) into candidate branches; the first one that resolves is *)
(* served, unless the device crashed on what it would get by surfing.  The  *)
(* verdict travels back in a header that the device replays on every poll,  *)
(* because its own crash report expires.  The asset endpoint and the list   *)
(* of branches offered to a tester answer the same question on their own.   *)
(*                                                                          *)
(* One device, one runtime version, one platform.  A salted hash is the     *)
(* draw the device gets when the rollout starts: it is in the rollout when  *)
(* the draw is below the percentage, and a device without a client id has   *)
(* the highest draw.  A pattern is the set of branches it matches.          *)
(***************************************************************************)
EXTENDS Naturals, Sequences, SequencesExt, FiniteSets

CONSTANTS
    SurfBranches,   \* the branches of the app
    NotAsked,       \* the device asks for no branch
    Levels,         \* percentages, on a coarse scale
    Draws,          \* where a device falls on that scale
    MaxTokens,      \* maxSurfBlockTokens
    MaxPublished    \* bound on the updates published

ASSUME ResolutionAssumption ==
    NotAsked \notin SurfBranches /\ 0 \notin Levels /\ MaxTokens \in Nat \ {0}

VARIABLES
    mapping,        \* the channel's branch and its progressive rollout
    surfing,        \* the channel's branch surfing setting
    published,      \* the checked updates, in order: an update's id is its place
    envelopes,      \* each branch's latest update, its rollout and its control
    phone,          \* the device: what it asks for, runs, reports and replays
    refusals        \* the verdicts ever sent to it, the last time each was, in order

resolutionVars == <<mapping, surfing, published, envelopes, phone, refusals>>

-----------------------------------------------------------------------------
NoUpdate == 0       \* also the bundle embedded in the binary
NoSplit == [branch |-> NotAsked, percentage |-> 0, draw |-> 0]
NoEnvelope == [update |-> NoUpdate, percentage |-> 0, draw |-> 0, control |-> NoUpdate]

\* InBucket: Bucket(clientID, salt) < percentage / 100.
InBucket(r) == r.draw < r.percentage

ResolutionInit ==
    /\ mapping \in {[branch |-> b, split |-> NoSplit] : b \in SurfBranches}
    /\ surfing = [enabled |-> FALSE, pattern |-> {}]
    /\ published = <<>>
    /\ envelopes = [b \in SurfBranches |-> NoEnvelope]
    /\ phone = [asked |-> NotAsked, current |-> NoUpdate, failed |-> {}, tokens |-> <<>>]
    /\ refusals = <<>>

-----------------------------------------------------------------------------
(* The rule chain.                                                           *)

\* The chain serves the branch the device asked for.
HonoursSurf(asked) ==
    /\ asked # NotAsked
    /\ surfing.enabled
    /\ asked # mapping.branch
    /\ asked \in surfing.pattern

\* ResolveBranchCandidates over branchSurfRule, channelRolloutPercentRule and
\* defaultBranchRule: the first rule that matches; the mapped branch is a fallback.
Candidates(asked) ==
    IF HonoursSurf(asked) THEN <<asked, mapping.branch>>
    ELSE IF mapping.split # NoSplit /\ InBucket(mapping.split)
         THEN <<mapping.split.branch, mapping.branch>>
         ELSE <<mapping.branch>>

BranchHasUpdate(b) == envelopes[b].update # NoUpdate

\* GetLatestUpdateForClient: out of an update's rollout, its control, or nothing.
LatestUpdateForClient(b) ==
    LET e == envelopes[b] IN
    IF e.percentage = 0 \/ InBucket(e) THEN e.update ELSE e.control

\* collectSurfBlocks: what the device replays and what it reports as crashed.
SurfBlocks(d) == ToSet(d.tokens) \cup {<<published[u].branch, u>> : u \in d.failed}

\* resolveUpdateAcrossBranches: the first candidate with an update for the device,
\* past the one it asked for if it crashed on what that would give.
Decision(d) ==
    LET surf == HonoursSurf(d.asked)
        refused(b) == /\ surf /\ b = d.asked /\ LatestUpdateForClient(b) # NoUpdate
                      /\ <<b, LatestUpdateForClient(b)>> \in SurfBlocks(d)
        resolved == SelectSeq(Candidates(d.asked), BranchHasUpdate)
        servable == SelectSeq(resolved, LAMBDA b : ~refused(b))
        branch == IF servable = <<>> THEN mapping.branch ELSE Head(servable)
    IN  [branch |-> branch,
         update |-> IF servable = <<>> THEN NoUpdate ELSE LatestUpdateForClient(branch),
         surfed |-> surf /\ servable # <<>> /\ branch = d.asked,
         refused |-> {<<b, LatestUpdateForClient(b)>> : b \in {c \in ToSet(resolved) : refused(c)}}]

-----------------------------------------------------------------------------
(* The operator, and the tester.                                             *)

\* MarkUpdateAsChecked: the branch's latest, with its rollout and its control.
\* Nothing is published over an active rollout.
Publish(b, percentage, draw, faulty, rollback) ==
    LET u == Len(published) + 1 IN
    /\ u <= MaxPublished
    /\ envelopes[b].percentage = 0
    /\ rollback => percentage = 0 /\ ~faulty
    /\ published' = Append(published, [branch |-> b, faulty |-> faulty, rollback |-> rollback])
    /\ envelopes' = [envelopes EXCEPT ![b] =
                        [update |-> u, percentage |-> percentage,
                         draw |-> IF percentage = 0 THEN 0 ELSE draw,
                         control |-> IF percentage = 0 THEN NoUpdate ELSE envelopes[b].update]]
    /\ UNCHANGED <<mapping, surfing, phone, refusals>>

\* SetUpdateRolloutPercentage, or ClearUpdateRollout (percentage 0).
ProgressUpdate(b, percentage) ==
    /\ envelopes[b].percentage \notin {0, percentage}
    /\ envelopes' = [envelopes EXCEPT ![b] =
                        IF percentage = 0 THEN [NoEnvelope EXCEPT !.update = envelopes[b].update]
                        ELSE [envelopes[b] EXCEPT !.percentage = percentage]]
    /\ UNCHANGED <<mapping, surfing, published, phone, refusals>>

\* The channel is mapped elsewhere, starts a rollout with a new salt, widens or narrows
\* it, or ends it.
ChangeMapping(m) ==
    /\ m # mapping
    /\ \/ mapping.split = NoSplit /\ m.split = NoSplit
       \/ mapping.split = NoSplit /\ m.branch = mapping.branch /\ m.split.branch # m.branch
       \/ m.split # NoSplit /\ m = [mapping EXCEPT !.split.percentage = m.split.percentage]
       \/ /\ mapping.split # NoSplit /\ m.split = NoSplit
          /\ m.branch \in {mapping.branch, mapping.split.branch}
    /\ mapping' = m
    /\ UNCHANGED <<surfing, published, envelopes, phone, refusals>>

\* SetBranchSurfing.
SetBranchSurfing(s) ==
    /\ s # surfing
    /\ surfing' = s
    /\ UNCHANGED <<mapping, published, envelopes, phone, refusals>>

\* The tester picks a branch, or drops the override.
Ask(b) ==
    /\ phone.asked # b
    /\ phone' = [phone EXCEPT !.asked = b]
    /\ UNCHANGED <<mapping, surfing, published, envelopes, refusals>>

-----------------------------------------------------------------------------
(* The poll.                                                                 *)

\* Mutant: the verdicts the device already holds are dropped.
NewestVerdict(carried, token) == <<token>>

\* SetSurfBlocked: the new verdict first, then those the device carries, up to the cap.
SetSurfBlocked(carried, token) ==
    LET others == SelectSeq(carried, LAMBDA t : t # token)
    IN  SubSeq(<<token>> \o others, 1, IF Len(others) < MaxTokens THEN Len(others) + 1 ELSE MaxTokens)

\* HandleManifest, and what the device does with the answer: it keeps the verdicts,
\* stays if it runs the update already, goes back to its embedded bundle, or launches
\* the update, which may crash.
Poll ==
    LET d == Decision(phone)
        tokens == IF d.refused = {} THEN phone.tokens
                  ELSE SetSurfBlocked(phone.tokens, CHOOSE t \in d.refused : TRUE)
        crash == d.update # NoUpdate /\ published[d.update].faulty
        launched == IF d.update = NoUpdate THEN phone.current
                    ELSE IF published[d.update].rollback THEN NoUpdate ELSE d.update
    IN  /\ phone' = IF d.update = phone.current \/ ~crash
                    THEN [phone EXCEPT !.tokens = tokens, !.current = launched]
                    ELSE [phone EXCEPT !.tokens = tokens, !.failed = phone.failed \cup {d.update}]
        /\ refusals' = IF d.refused = {} THEN refusals
                       ELSE LET t == CHOOSE t \in d.refused : TRUE
                            IN  Append(SelectSeq(refusals, LAMBDA r : r # t), t)
        /\ UNCHANGED <<mapping, surfing, published, envelopes>>

\* The device's crash report lasts a couple of healthy launches.
ExpireReport(u) ==
    /\ u \in phone.failed
    /\ phone' = [phone EXCEPT !.failed = phone.failed \ {u}]
    /\ UNCHANGED <<mapping, surfing, published, envelopes, refusals>>

Splits == {NoSplit} \cup [branch : SurfBranches, percentage : Levels, draw : Draws]

ResolutionNext ==
    \/ \E b \in SurfBranches, p \in Levels \cup {0}, w \in Draws, faulty, rollback \in BOOLEAN :
            Publish(b, p, w, faulty, rollback)
    \/ \E b \in SurfBranches, p \in Levels \cup {0} : ProgressUpdate(b, p)
    \/ \E b \in SurfBranches, s \in Splits : ChangeMapping([branch |-> b, split |-> s])
    \/ \E on \in BOOLEAN, pattern \in SUBSET SurfBranches :
            SetBranchSurfing([enabled |-> on, pattern |-> pattern])
    \/ \E b \in SurfBranches \cup {NotAsked} : Ask(b)
    \/ Poll
    \/ \E u \in phone.failed : ExpireReport(u)

ResolutionSpec == ResolutionInit /\ [][ResolutionNext]_resolutionVars

-----------------------------------------------------------------------------
(* The other endpoints that answer for the same device.                      *)

\* ListSurfableBranches: every branch with an update, but the channel's own.
Offered == {b \in SurfBranches : /\ surfing.enabled /\ b \in surfing.pattern
                                 /\ b # mapping.branch /\ BranchHasUpdate(b)}

\* isAssetBranchAllowed.
AssetBranchAllowed(b) ==
    \/ b = mapping.branch
    \/ mapping.split # NoSplit /\ b = mapping.split.branch
    \/ surfing.enabled /\ b \in surfing.pattern

\* resolveAssetUpdate for an asset of a manifest: the branch and the update in its
\* URL, if the channel serves the branch; else what a manifest would now serve to a
\* device that asks for that branch.
AssetUpdate(b, u) ==
    IF AssetBranchAllowed(b) /\ u \in 1..Len(published) /\ published[u].branch = b THEN u
    ELSE Decision([phone EXCEPT !.asked = b, !.failed = {}, !.tokens = <<>>]).update

-----------------------------------------------------------------------------
\* Every variable has its type, and an envelope names updates of its own branch.
ResolutionTypeOK ==
    /\ mapping.branch \in SurfBranches /\ mapping.split \in Splits
    /\ \A b \in SurfBranches : \A u \in {envelopes[b].update, envelopes[b].control} \ {NoUpdate} :
            published[u].branch = b
    /\ phone.current \in 0..Len(published) /\ phone.failed \subseteq 1..Len(published)
    /\ Len(phone.tokens) <= MaxTokens

\* A device is not surfed onto an update it crashed on: neither while it reports the
\* crash, nor after, as long as the verdict is one of the last maxSurfBlockTokens
\* it was sent, whatever it asked for and was refused in between.
CrashedSurfRefused ==
    LET d == Decision(phone)
        kept == {refusals[i] : i \in {j \in DOMAIN refusals : j > Len(refusals) - MaxTokens}}
    IN  d.surfed => d.update \notin phone.failed /\ <<d.branch, d.update>> \notin kept

\* Every branch the picker offers is served when the device asks for it, unless it
\* crashed there; and no other branch is.
OfferedBranchesHonoured ==
    \A b \in SurfBranches :
        LET d == Decision([phone EXCEPT !.asked = b])
        IN  b \in Offered <=> d.surfed \/ d.refused # {}

\* The asset endpoint mirrors the manifest: whatever a device asks for, the assets of
\* the update it is given resolve to that update; and every branch the endpoint reads
\* is a candidate of some device of the channel.
AssetsMirrorManifest ==
    /\ \A b \in SurfBranches \cup {NotAsked} :
        LET d == Decision([phone EXCEPT !.asked = b])
        IN  d.update # NoUpdate => AssetUpdate(d.branch, d.update) = d.update
    /\ \A b \in SurfBranches : AssetBranchAllowed(b) =>
            \/ mapping.split # NoSplit /\ b = mapping.split.branch
            \/ \E asked \in SurfBranches \cup {NotAsked} : b \in ToSet(Candidates(asked))
=============================================================================

------------------------------ MODULE ApiKeys -------------------------------
(***************************************************************************)
(* The API keys of one app that the CLI publishes with, what each may do   *)
(* (ee/apikeyrestrictions), and CLI requests on their way through          *)
(* authentication and the decision of the router.  A pattern stands for    *)
(* the branches it matches (BranchPattern models the matching), an address *)
(* range for its addresses.                                                *)
(***************************************************************************)
EXTENDS Naturals, Sequences, FiniteSets, SequencesExt

CONSTANTS
    KeyIds,         \* ids of api_keys: serial numbers
    MaxRules,       \* maxBranchRules
    Submissions,    \* the lists of rules administrators submit: [pattern, actions]
    AllowLists      \* the lists of entries they submit as allowlists

VARIABLES
    apiKeys,        \* the rows of api_keys: id -> [revoked, allowedIps]
    branchRules,    \* api_key_branch_rules in id order: [key, pattern, actions]
    enterprise,     \* licensing.IsEnterprise
    asked,          \* history: what the last accepted submission of a key grants
    cli             \* a CLI request

keyVars == <<apiKeys, branchRules, enterprise, asked, cli>>

-----------------------------------------------------------------------------
(* Rules.                                                                    *)

BranchNames == {"main", "dev"}
AllActions == <<"read", "publish", "rollback">>
Actions == ToSet(AllActions)

\* branch.MatchPattern and branch.CollapseWildcards on these patterns.
MatchPattern(pattern) == IF pattern = "main" THEN {"main"} ELSE BranchNames
collapseWildcards(pattern) == IF pattern = "**" THEN "*" ELSE pattern

Implies(a, b) == a = b \/ (b = "read" /\ a \in {"publish", "rollback"})

Allows(rule, name, action) ==
    name \in MatchPattern(rule.pattern) /\ \E a \in ToSet(rule.actions) : Implies(a, action)

AllowsBranch(rules, name, action) ==
    rules = <<>> \/ (name # "" /\ \E i \in DOMAIN rules : Allows(rules[i], name, action))

\* Mutant: the actions stop at the first one granted.
firstAction(actions) == SubSeq(SelectSeq(AllActions, LAMBDA a : a \in ToSet(actions)), 1, 1)

\* normalizeActions: the actions granted, once each, in catalog order.
normalizeActions(actions) == SelectSeq(AllActions, LAMBDA a : a \in ToSet(actions))

\* NormalizeBranchRules refuses too many rules, an unknown action, a rule that
\* grants nothing, and two rules on one pattern.
Refused(rules) ==
    \/ Len(rules) > MaxRules
    \/ \E i \in DOMAIN rules : rules[i].actions = <<>> \/ ~(ToSet(rules[i].actions) \subseteq Actions)
    \/ \E i, j \in DOMAIN rules : i # j /\ collapseWildcards(rules[i].pattern)
                                            = collapseWildcards(rules[j].pattern)

NormalizeBranchRules(rules) ==
    [i \in DOMAIN rules |-> [pattern |-> collapseWildcards(rules[i].pattern),
                             actions |-> normalizeActions(rules[i].actions)]]

-----------------------------------------------------------------------------
(* Address ranges: a host in either of its two spellings, and a network.     *)

Addresses == {"h1", "h2"}
Range4(entry) == IF entry = "net" THEN Addresses ELSE {"h1"}

\* parseCidrs: blanks are skipped, an IPv4-mapped entry is stored as IPv4, and
\* the same range is stored once; an entry that does not parse fails the list.
BadCidrs(entries) == \E i \in DOMAIN entries : entries[i] = "bad"
parseCidrs(entries) == {Range4(entries[i]) : i \in {j \in DOMAIN entries : entries[j] # ""}}

\* An address that could not be resolved is "".
ipAllowed(ip, allowed) == ip # "" /\ \E range \in allowed : ip \in range

-----------------------------------------------------------------------------
(* The queries.                                                              *)

Live(k) == k \in DOMAIN apiKeys /\ ~apiKeys[k].revoked
RulesOf(k) == SelectSeq(branchRules, LAMBDA r : r.key = k)

\* ToActions drops what is not an action.
toActions(actions) == SelectSeq(actions, LAMBDA a : a \in Actions)

\* A row of the join: "" is the NULL pattern of a key without rules.
JoinRows(k) ==
    IF RulesOf(k) = <<>> THEN <<[id |-> k, pattern |-> "", actions |-> <<>>]>>
    ELSE [i \in DOMAIN RulesOf(k) |-> [id |-> k, pattern |-> RulesOf(k)[i].pattern,
                                       actions |-> RulesOf(k)[i].actions]]

Named(rows) ==
    LET named == SelectSeq(rows, LAMBDA r : r.pattern # "")
    IN  [i \in DOMAIN named |-> [pattern |-> named[i].pattern, actions |-> toActions(named[i].actions)]]

\* GetApiKeyAccess and GetAccess: no row means the key is gone.
GetAccess(k) ==
    IF ~Live(k) THEN {}
    ELSE {[id |-> k, allowedIps |-> apiKeys[k].allowedIps, rules |-> Named(JoinRows(k))]}

\* GetApiKeyAccessByAppID: the live keys of the app, ORDER BY k.id, r.id.
GetApiKeyAccessByAppID ==
    FlattenSeq([k \in 1..Cardinality(KeyIds) |-> IF Live(k) THEN JoinRows(k) ELSE <<>>])

\* foldAccessRows: a row of another key than the last one's opens an entry.
Opens(rows, i) == i = 1 \/ rows[i].id # rows[i - 1].id
foldAccessRows(rows) ==
    {LET close == CHOOSE j \in i..Len(rows) : /\ \A h \in (i + 1)..j : ~Opens(rows, h)
                                              /\ j = Len(rows) \/ Opens(rows, j + 1)
     IN  [id |-> rows[i].id, allowedIps |-> apiKeys[rows[i].id].allowedIps,
          rules |-> Named(SubSeq(rows, i, close))]
     : i \in {n \in DOMAIN rows : Opens(rows, n)}}

\* GetApiKeysMetadataByAppID: the keys the dashboard lists.
GetApiKeysMetadata == {k \in KeyIds : Live(k)}

-----------------------------------------------------------------------------
(* The routes.                                                               *)

KeyInit ==
    /\ apiKeys = [k \in {} |-> 0]
    /\ branchRules = <<>>
    /\ enterprise = TRUE
    /\ asked = [k \in KeyIds |-> BranchNames \X Actions]
    /\ cli = [pc |-> "idle", key |-> 0]

\* GenerateAPIKey: InsertApiKey with the next id, unrestricted.
GenerateAPIKey(k) ==
    /\ k = Cardinality(DOMAIN apiKeys) + 1
    /\ apiKeys' = [i \in 1..k |-> IF i = k THEN [revoked |-> FALSE, allowedIps |-> {}] ELSE apiKeys[i]]
    /\ UNCHANGED <<branchRules, enterprise, asked, cli>>

\* RevokeApiKeyByID matches a live key only.
RevokeApiKey(k) ==
    /\ Live(k)
    /\ apiKeys' = [apiKeys EXCEPT ![k].revoked = TRUE]
    /\ UNCHANGED <<branchRules, enterprise, asked, cli>>

\* SetAccess: licensed, well formed, and then one transaction whose first
\* statement locks the key's row: UpdateApiKeyAccess, DeleteApiKeyBranchRules,
\* and InsertApiKeyBranchRule for each rule.
SetAccess(k, rules, entries) ==
    LET inserted == [i \in DOMAIN rules |->
                        [key |-> k, pattern |-> NormalizeBranchRules(rules)[i].pattern,
                         actions |-> NormalizeBranchRules(rules)[i].actions]] IN
    /\ enterprise /\ ~BadCidrs(entries) /\ ~Refused(rules)
    /\ Live(k)
    /\ apiKeys' = [apiKeys EXCEPT ![k].allowedIps = parseCidrs(entries)]
    /\ branchRules' = SelectSeq(branchRules, LAMBDA r : r.key # k) \o inserted
    /\ asked' = [asked EXCEPT ![k] =
            IF rules = <<>> THEN BranchNames \X Actions
            ELSE {p \in BranchNames \X Actions : \E i \in DOMAIN rules : Allows(rules[i], p[1], p[2])}]
    /\ UNCHANGED <<enterprise, cli>>

KeyLicenceChanges == enterprise' = ~enterprise /\ UNCHANGED <<apiKeys, branchRules, asked, cli>>

\* AuthenticateCliCredential: ValidateAndTouchAuth finds a live key.
AuthenticateCliCredential(k) ==
    /\ cli.pc = "idle" /\ Live(k)
    /\ cli' = [pc |-> "authenticated", key |-> k]
    /\ UNCHANGED <<apiKeys, branchRules, enterprise, asked>>

\* ApiKeyAccessService.Authorize: unlicensed, nothing is read.
AuthorizeKey(k, name, action, ip) ==
    \/ ~enterprise
    \/ \E access \in GetAccess(k) : /\ access.allowedIps # {} => ipAllowed(ip, access.allowedIps)
                                    /\ AllowsBranch(access.rules, name, action)

\* authorizeCliRequest: the route has a branch, and the policy is asked.
authorizeCliRequest(name, action, ip) ==
    /\ cli.pc = "authenticated"
    /\ cli' = [pc |-> IF name # "" /\ AuthorizeKey(cli.key, name, action, ip) THEN "served" ELSE "refused",
               key |-> cli.key]
    /\ UNCHANGED <<apiKeys, branchRules, enterprise, asked>>

CliAnswered ==
    /\ cli.pc \in {"served", "refused"}
    /\ cli' = [pc |-> "idle", key |-> 0]
    /\ UNCHANGED <<apiKeys, branchRules, enterprise, asked>>

KeyNext ==
    \/ \E k \in KeyIds : GenerateAPIKey(k) \/ RevokeApiKey(k) \/ AuthenticateCliCredential(k)
    \/ \E k \in KeyIds, rules \in Submissions, entries \in AllowLists : SetAccess(k, rules, entries)
    \/ KeyLicenceChanges
    \/ \E name \in BranchNames \cup {""}, action \in Actions, ip \in Addresses \cup {""} :
            authorizeCliRequest(name, action, ip)
    \/ CliAnswered

KeySpec == KeyInit /\ [][KeyNext]_keyVars

-----------------------------------------------------------------------------
\* The dashboard shows, key by key, the access that the CLI routes enforce: the
\* fold of the joined rows of all keys and the read of one key agree, and a
\* revoked key is in neither.
ListShowsWhatIsEnforced ==
    LET shown == foldAccessRows(GetApiKeyAccessByAppID) IN
    /\ shown = UNION {GetAccess(k) : k \in KeyIds}
    /\ {access.id : access \in shown} = GetApiKeysMetadata

\* What the rules of a live key allow is what was last submitted for it: neither
\* the normal form nor the rows lose or add a branch or an action, and a key that
\* was given rules never falls back to the empty list, which allows everything.
RulesAllowWhatWasAsked ==
    \A k \in KeyIds : \A access \in GetAccess(k) :
        {p \in BranchNames \X Actions : AllowsBranch(access.rules, p[1], p[2])} = asked[k]

\* What holds of API keys.
KeysSound == ListShowsWhatIsEnforced /\ RulesAllowWhatWasAsked
=============================================================================

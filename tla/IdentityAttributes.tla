------------------------- MODULE IdentityAttributes -------------------------
(***************************************************************************)
(* The attributes devices report about themselves: the app's allowlist of  *)
(* keys, the metadata of each device, and the per-value device counts that *)
(* autocomplete reads.  A mutation is one READ COMMITTED transaction that  *)
(* reads the allowlist, locks the device row, merges, and settles the      *)
(* counts, taking the lock of one count row after the other.  Values are   *)
(* numbers for the order they sort in.  Before that, CoalesceRequests      *)
(* reduces the operations of one installation in a telemetry batch to      *)
(* fewer transactions: a request is an operation and its writes in the     *)
(* order they are placed, and the allowlist the store will apply is not    *)
(* known yet.                                                              *)
(***************************************************************************)
EXTENDS Integers, FiniteSets, FiniteSetsExt, Sequences, SequencesExt, Functions

CONSTANTS
    Clients,         \* devices
    Keys,            \* metadata keys, numbers
    Values,          \* rendered values, numbers
    Connections,     \* transactions open at the same time
    MaxSchemaKeys,   \* cap on the declared keys
    MaxRemovals,     \* bound on the removals of a key
    Names,           \* attribute names, numbers
    Scalars,         \* attribute values
    MaxBatch         \* bound on the requests of a batch

VARIABLES
    schema,     \* identity_schema: the declared keys
    metadata,   \* device_identity.metadata: key -> value for each device
    stats,      \* identity_value_stats: the count of each (key, value)
    rowLock,    \* who holds the row of each device
    statLock,   \* who holds each count row
    mutation,   \* the transaction of each connection
    removals,   \* how often each key left the allowlist
    batch       \* the requests of one installation received so far

identityVars == <<schema, metadata, stats, rowLock, statLock, mutation, removals>>

-----------------------------------------------------------------------------
Unheld == "nobody"
Unset == 0                  \* not among Values: the key is not in the map
Pairs == Keys \X Values
Changes == [Keys -> Values \cup {Unset}]
NoMutation == [pc |-> "idle", op |-> "set", client |-> Unheld,
               named |-> {}, values |-> [k \in Keys |-> Unset],
               merged |-> [k \in Keys |-> Unset], ops |-> <<>>]

IdentityInit ==
    /\ schema = {}
    /\ metadata = [c \in Clients |-> [k \in Keys |-> Unset]]
    /\ stats = [p \in Pairs |-> 0]
    /\ rowLock = [c \in Clients |-> Unheld]
    /\ statLock = [p \in Pairs |-> Unheld]
    /\ mutation = [m \in Connections |-> NoMutation]
    /\ removals = [k \in Keys |-> 0]

Holders(k, v) == {c \in Clients : metadata[c][k] = v}

-----------------------------------------------------------------------------
(* The allowlist.                                                          *)

\* UpsertSchemaKey, under the cap.
UpsertSchemaKey(k) ==
    /\ k \in schema \/ Cardinality(schema) < MaxSchemaKeys
    /\ schema' = schema \cup {k}
    /\ UNCHANGED <<metadata, stats, rowLock, statLock, mutation, removals>>

\* DeleteSchemaKey: the key and its counts go together, the values devices hold stay.
\* The delete waits for the count rows other transactions hold.
DeleteSchemaKey(k) ==
    /\ k \in schema /\ removals[k] < MaxRemovals
    /\ \A v \in Values : stats[<<k, v>>] > 0 => statLock[<<k, v>>] = Unheld
    /\ schema' = schema \ {k}
    /\ stats' = [p \in Pairs |-> IF p[1] = k THEN 0 ELSE stats[p]]
    /\ removals' = [removals EXCEPT ![k] = @ + 1]
    /\ UNCHANGED <<metadata, rowLock, statLock, mutation>>

-----------------------------------------------------------------------------
(* Mutations: mutate, one step per statement that can wait.                *)

\* Sanitize: only declared keys survive.
Sanitize(named) == named \cap schema

\* The transaction starts; a set reads the allowlist, an unset does not.
BeginMutation(m, c, op, named, values) ==
    /\ mutation[m].pc = "idle"
    /\ mutation' = [mutation EXCEPT ![m] =
           [NoMutation EXCEPT !.pc = "lock", !.op = op, !.client = c,
                              !.named = IF op = "unset" THEN named ELSE Sanitize(named),
                              !.values = [k \in Keys |-> IF op = "unset" \/ k \notin named
                                                          THEN Unset ELSE values[k]]]]
    /\ UNCHANGED <<schema, metadata, stats, rowLock, statLock, removals>>

\* The metadata after the merge.
Merged(x) ==
    LET previous == metadata[x.client] IN
    [k \in Keys |->
        CASE k \notin x.named -> previous[k]
          [] x.op = "unset" -> Unset
          [] x.op = "set_once" /\ previous[k] # Unset -> previous[k]
          [] OTHER -> x.values[k]]

\* The changes of the counts that keep them in step with it.
StatOps(x) ==
    LET before == metadata[x.client]
        after == Merged(x)
        moved == {k \in Keys : before[k] # after[k]}
    IN {[pair |-> <<k, before[k]>>, delta |-> -1] : k \in {i \in moved : before[i] # Unset}}
       \cup {[pair |-> <<k, after[k]>>, delta |-> 1] : k \in {i \in moved : after[i] # Unset}}

\* applyStatOps sorts by key and value.
Sorted(ops) ==
    SetToSortSeq(ops, LAMBDA o, p : \/ o.pair[1] < p.pair[1]
                                    \/ o.pair[1] = p.pair[1] /\ o.pair[2] < p.pair[2])

\* Mutant: the row is read without FOR UPDATE.
ReadDevice(m) ==
    LET x == mutation[m] IN
    /\ x.pc = "lock"
    /\ mutation' = [mutation EXCEPT ![m].pc = "stats", ![m].merged = Merged(x),
                                    ![m].ops = Sorted(StatOps(x))]
    /\ UNCHANGED <<schema, metadata, stats, rowLock, statLock, removals>>

\* EnsureDeviceIdentity and GetDeviceIdentityForUpdate; the merge follows.
LockDevice(m) ==
    LET x == mutation[m] IN
    /\ x.pc = "lock" /\ rowLock[x.client] = Unheld
    /\ rowLock' = [rowLock EXCEPT ![x.client] = m]
    /\ mutation' = [mutation EXCEPT ![m].pc = "stats", ![m].merged = Merged(x),
                                    ![m].ops = Sorted(StatOps(x))]
    /\ UNCHANGED <<schema, metadata, stats, statLock, removals>>

\* ApplyIdentityValueStats: a decrement of a row that does not exist is a no-op.
Applicable(ops) == SelectSeq(ops, LAMBDA o : o.delta > 0 \/ stats[o.pair] > 0)

\* The statement takes its snapshot.
StartStatement(m) ==
    /\ mutation[m].pc = "stats"
    /\ mutation' = [mutation EXCEPT ![m].pc = "apply", ![m].ops = Applicable(@)]
    /\ UNCHANGED <<schema, metadata, stats, rowLock, statLock, removals>>

\* The next count row the statement locks.
Wanted(m) == SelectInSeq(mutation[m].ops, LAMBDA o : statLock[o.pair] # m)

LockStat(m) ==
    LET i == Wanted(m) IN
    /\ mutation[m].pc = "apply" /\ i # 0
    /\ statLock[mutation[m].ops[i].pair] = Unheld
    /\ statLock' = [statLock EXCEPT ![mutation[m].ops[i].pair] = m]
    /\ UNCHANGED <<schema, metadata, stats, rowLock, mutation, removals>>

\* Mutant: the conflict arm replaces the count.
Replaced(count, delta) == Max({delta, 0})

\* GREATEST(device_count + delta, 0), and DeleteZeroIdentityValueStats.
Settled(count, delta) == Max({count + delta, 0})

Unlocked(m) ==
    /\ rowLock' = [c \in Clients |-> IF rowLock[c] = m THEN Unheld ELSE rowLock[c]]
    /\ statLock' = [p \in Pairs |-> IF statLock[p] = m THEN Unheld ELSE statLock[p]]
    /\ mutation' = [mutation EXCEPT ![m] = NoMutation]

\* Every count row is locked: the counts and the metadata change, and the locks go.
CommitMutation(m) ==
    LET x == mutation[m]
        delta(p) == SumSet({o.delta : o \in {o \in ToSet(x.ops) : o.pair = p}})
        touched == {o.pair : o \in ToSet(x.ops)}
    IN /\ x.pc = "apply" /\ Wanted(m) = 0
       /\ metadata' = [metadata EXCEPT ![x.client] = x.merged]
       /\ stats' = [p \in Pairs |-> IF p \in touched THEN Settled(stats[p], delta(p)) ELSE stats[p]]
       /\ Unlocked(m)
       /\ UNCHANGED <<schema, removals>>

\* A statement fails, or the deadlock detector ends the transaction.
RollBackMutation(m) ==
    /\ mutation[m].pc # "idle"
    /\ Unlocked(m)
    /\ UNCHANGED <<schema, metadata, stats, removals>>

IdentityNext ==
    \/ \E k \in Keys : UpsertSchemaKey(k) \/ DeleteSchemaKey(k)
    \/ \E m \in Connections :
          \/ \E c \in Clients, op \in {"set", "set_once", "unset"}, named \in SUBSET Keys \ {{}},
                values \in [Keys -> Values] : BeginMutation(m, c, op, named, values)
          \/ LockDevice(m) \/ StartStatement(m) \/ LockStat(m)
          \/ CommitMutation(m) \/ RollBackMutation(m)

-----------------------------------------------------------------------------
IdentityTypeOK ==
    /\ schema \subseteq Keys
    /\ metadata \in [Clients -> Changes]
    /\ stats \in [Pairs -> 0..Cardinality(Clients)]
    /\ rowLock \in [Clients -> Connections \cup {Unheld}]
    /\ statLock \in [Pairs -> Connections \cup {Unheld}]
    /\ \A m \in Connections : /\ mutation[m].merged \in Changes
                              /\ mutation[m].named \subseteq Keys
                              /\ \A o \in ToSet(mutation[m].ops) : o.pair \in Pairs
    /\ removals \in [Keys -> 0..MaxRemovals]

\* Autocomplete counts devices: as long as a key has not left the allowlist, the count
\* of a value is the number of devices that hold it, whatever sets, set-onces and unsets
\* of the same devices interleave; and no count ever exceeds that number (the merge and
\* its stat ops in one transaction, the FOR UPDATE of the device row, the floor at zero).
CountsMatchDevices ==
    \A k \in Keys, v \in Values :
        /\ stats[<<k, v>>] <= Cardinality(Holders(k, v))
        /\ removals[k] = 0 => stats[<<k, v>>] = Cardinality(Holders(k, v))

\* "two devices sharing a stat row cannot acquire its lock in opposite orders and
\* deadlock" (statOp): no two mutations wait for a row the other one holds.
NoStatDeadlock ==
    LET waitsFor(m, n) == /\ mutation[m].pc = "apply" /\ Wanted(m) # 0
                          /\ statLock[mutation[m].ops[Wanted(m)].pair] = n
    IN \A m, n \in Connections : m # n => ~(waitsFor(m, n) /\ waitsFor(n, m))

-----------------------------------------------------------------------------
(* CoalesceRequests.                                                       *)

batchVars == <<batch>>

Absent == "absent"

\* RequestFromRecord: a payload with something in it.
SetRequests ==
    {[op |-> op, writes |-> SetToSortSeq(ws, LAMBDA v, w : v.name < w.name)] :
        op \in {"set", "set_once"},
        ws \in {ws \in SUBSET [name : Names, value : Scalars] :
                  ws # {} /\ \A v, w \in ws : v.name = w.name => v = w}}

UnsetRequests ==
    {[op |-> "unset", writes |-> [i \in DOMAIN keys |-> [name |-> keys[i], value |-> Absent]]] :
        keys \in {<<n>> : n \in Names} \cup {<<n, k>> : n, k \in Names}}

\* A write the group holds already: same operation, same scalar.
HeldAlready(held, op, w) == held.op = op /\ op # "unset" /\ held.value = w.value

\* place: into the last group, or into a new one when the name is taken.
Place(groups, op, w) ==
    LET current == Last(groups)
        i == SelectInSeq(current, LAMBDA h : h.name = w.name)
        placed == [op |-> op, name |-> w.name, value |-> w.value]
    IN IF i = 0 THEN [groups EXCEPT ![Len(groups)] = Append(current, placed)]
       ELSE IF HeldAlready(current[i], op, w) THEN groups
       ELSE Append(groups, <<placed>>)

RequestGroups(requests) ==
    FoldLeft(LAMBDA gs, r : FoldLeft(LAMBDA acc, w : Place(acc, r.op, w), gs, r.writes),
             <<<<>>>>, requests)

\* The requests of a group: one per operation it holds.
Buckets(group) ==
    LET bucket(op) ==
            [op |-> op,
             writes |-> LET held == SelectSeq(group, LAMBDA h : h.op = op)
                        IN [i \in DOMAIN held |-> [name |-> held[i].name, value |-> held[i].value]]]
    IN SelectSeq(<<bucket("set"), bucket("set_once"), bucket("unset")>>,
                 LAMBDA b : b.writes # <<>>)

CoalesceRequests(requests) ==
    IF Len(requests) < 2 THEN requests
    ELSE FlattenSeq([i \in DOMAIN RequestGroups(requests) |-> Buckets(RequestGroups(requests)[i])])

\* What the store makes of one request, for an allowlist of (name, value) pairs.
ApplyRequest(meta, r, allowed) ==
    FoldLeft(LAMBDA m, w :
                CASE r.op = "unset" -> [m EXCEPT ![w.name] = Absent]
                  [] <<w.name, w.value>> \notin allowed -> m
                  [] r.op = "set_once" /\ m[w.name] # Absent -> m
                  [] OTHER -> [m EXCEPT ![w.name] = w.value],
             meta, r.writes)

ApplyAll(meta, requests, allowed) ==
    FoldLeft(LAMBDA m, r : ApplyRequest(m, r, allowed), meta, requests)

BatchInit == batch = <<>>

\* One more record of the installation in the batch.
ReceiveRequest ==
    /\ Len(batch) < MaxBatch
    /\ \E r \in SetRequests \cup UnsetRequests : batch' = Append(batch, r)

BatchNext == ReceiveRequest

-----------------------------------------------------------------------------
\* "the fewest store transactions that reach the same row": whatever the allowlist
\* accepts and whatever the device holds, the coalesced requests leave the metadata the
\* received ones would have left one by one.
CoalescingIsTransparent ==
    batch # <<>> => LET coalesced == CoalesceRequests(batch) IN
    \A allowed \in SUBSET (Names \X Scalars), meta \in [Names -> Scalars \cup {Absent}] :
        ApplyAll(meta, coalesced, allowed) = ApplyAll(meta, batch, allowed)
=============================================================================

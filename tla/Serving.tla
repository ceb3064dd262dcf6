------------------------------ MODULE Serving -------------------------------
(***************************************************************************)
(* What devices are served out of the read-through caches of the Expo       *)
(* protocol: the latest-update envelope of a (branch, runtime version,      *)
(* platform), and the entries of the same shape (channel mapping, branch    *)
(* surfing, surfable branches, app configuration).  A poll that misses      *)
(* reads the database and then writes the cache; a publish writes the       *)
(* database and then deletes the entry, in the one cache it can reach.      *)
(* Several caches are the local caches of several replicas; one cache is a  *)
(* single replica's, or a shared one.  Time is a tick.                      *)
(***************************************************************************)
EXTENDS Naturals

CONSTANTS
    Caches,         \* the caches entries are kept in
    Polls,          \* polls in flight
    TTL,            \* lifetime of an entry, in ticks
    MaxDelay,       \* a poll answers within so many ticks of its database read
    MaxWrites       \* bound on the writes

ASSUME TTLAssumption == TTL \in Nat \ {0}
ASSUME MaxDelayAssumption == MaxDelay \in Nat
ASSUME MaxWritesAssumption == MaxWrites \in Nat

VARIABLES
    db,             \* the envelope in the database: how many writes made it
    stale,          \* ticks since each envelope was superseded, up to a cap
    cache,          \* the entry of each cache: an envelope and its age
    owed,           \* deletes the writers have not done yet
    poll            \* the polls in flight

vars == <<db, stale, cache, owed, poll>>

-----------------------------------------------------------------------------
Envelopes == 0..MaxWrites           \* 0: no update is checked yet
Bound == TTL + MaxDelay
Cap == Bound + 1
Capped(n) == IF n > Cap THEN Cap ELSE n

NoEntry == [value |-> 0, age |-> 0]
Idle == [pc |-> "idle", at |-> CHOOSE c \in Caches : TRUE, value |-> 0, since |-> 0, late |-> FALSE]

\* Mutant: one tick too many.
OutlivesTTL(age) == age > TTL + 1

\* time.Now().After(expiration).
Expired(age) == age > TTL

\* A nil envelope is never cached.
Hit(c) == cache[c].value # 0 /\ ~Expired(cache[c].age)

Become(p, x) == poll' = [poll EXCEPT ![p] = x]

Init ==
    /\ db = 0
    /\ stale = [v \in Envelopes |-> 0]
    /\ cache = [c \in Caches |-> NoEntry]
    /\ owed = {}
    /\ poll = [p \in Polls |-> Idle]

-----------------------------------------------------------------------------
\* A poll, or the prewarm after a publish, finds the entry.
Serve(p, c) ==
    /\ poll[p].pc = "idle"
    /\ Hit(c)
    /\ Become(p, [Idle EXCEPT !.pc = "served", !.late = stale[cache[c].value] > Bound])
    /\ UNCHANGED <<db, stale, cache, owed>>

\* It does not, and reads the database.
Read(p, c) ==
    /\ poll[p].pc = "idle"
    /\ ~Hit(c)
    /\ Become(p, [Idle EXCEPT !.pc = "read", !.at = c, !.value = db])
    /\ UNCHANGED <<db, stale, cache, owed>>

\* Mutant: an entry without a TTL.
NeverOlder(e) == e

\* An entry after one tick.
Older(e) == [e EXCEPT !.age = IF Expired(e.age) THEN e.age ELSE e.age + 1]

\* SetJSON with a TTL, which may fail silently; nil is not cached.  Then it serves
\* what it read.
SetAndServe(p) ==
    LET c == poll[p].at IN
    /\ poll[p].pc = "read"
    /\ cache' \in {cache} \cup {[cache EXCEPT ![c] = [value |-> v, age |-> 0]] :
                                    v \in {poll[p].value} \ {0}}
    /\ Become(p, [Idle EXCEPT !.pc = "served", !.late = stale[poll[p].value] > Bound])
    /\ UNCHANGED <<db, stale, owed>>

\* The answer has left.
Finish(p) ==
    /\ poll[p].pc = "served"
    /\ Become(p, Idle)
    /\ UNCHANGED <<db, stale, cache, owed>>

\* MarkUpdateAsChecked, a rollout write or a branch deletion, on the replica of c.
Write(c) ==
    /\ db < MaxWrites
    /\ db' = db + 1
    /\ owed' = owed \cup {<<c, db + 1>>}
    /\ UNCHANGED <<stale, cache, poll>>

\* It deletes the entry in the cache it reaches; or dies before it does.
Invalidate(o) ==
    /\ owed' = owed \ {o}
    /\ cache' \in {cache, [cache EXCEPT ![o[1]] = NoEntry]}
    /\ UNCHANGED <<db, stale, poll>>

\* Time passes, as long as no poll is at the end of the time it may take.
Tick ==
    /\ \A p \in Polls : poll[p].pc = "read" => poll[p].since < MaxDelay
    /\ stale' = [v \in Envelopes |-> IF v < db THEN Capped(stale[v] + 1) ELSE stale[v]]
    /\ cache' = [c \in Caches |-> Older(cache[c])]
    /\ poll' = [p \in Polls |-> IF poll[p].pc = "read"
                                THEN [poll[p] EXCEPT !.since = poll[p].since + 1] ELSE poll[p]]
    /\ UNCHANGED <<db, owed>>

Next ==
    \/ \E p \in Polls : (\E c \in Caches : Serve(p, c) \/ Read(p, c)) \/ SetAndServe(p) \/ Finish(p)
    \/ \E c \in Caches : Write(c)
    \/ \E o \in owed : Invalidate(o)
    \/ Tick

\* Polls that have read end, by their timeouts, and time passes.
Fairness == WF_vars(Tick) /\ \A p \in Polls : WF_vars(SetAndServe(p))

Spec == Init /\ [][Next]_vars /\ Fairness

-----------------------------------------------------------------------------
\* Every variable has its type, and no cache or poll holds an envelope the
\* database never had.
TypeOK ==
    /\ db \in Envelopes
    /\ \A v \in Envelopes : stale[v] \in 0..Cap
    /\ \A c \in Caches : cache[c].value \in 0..db /\ cache[c].age \in 0..(TTL + 1)
    /\ owed \subseteq Caches \X (1..db)
    /\ \A p \in Polls : poll[p].value \in 0..db /\ poll[p].since \in 0..MaxDelay
                         /\ poll[p].late \in BOOLEAN

\* No device is served an envelope superseded for longer than the lifetime of an
\* entry and the time a poll takes, on any replica, whichever deletes were lost.
BoundedStaleness ==
    \A p \in Polls : poll[p].pc = "served" => ~poll[p].late

\* Once publishes stop, every replica comes to serve the last one for good,
\* though a delete reaches one cache only and a slow poll may undo it.
ConvergesToLatest == <>[](\A c \in Caches : Hit(c) => cache[c].value = db)
=============================================================================

--------------------------- MODULE ServingProofs ----------------------------
(***************************************************************************)
(* Proofs about Serving, for any caches, polls, lifetime, delay and number *)
(* of writes: how long a device can be served a superseded envelope.       *)
(***************************************************************************)
EXTENDS Serving, TLAPS

Poll == [pc : {"idle", "read", "served"}, at : Caches \cup {CHOOSE c \in Caches : TRUE},
         value : Envelopes, since : 0..MaxDelay, late : BOOLEAN]

Entry == [value : Envelopes, age : 0..(TTL + 1)]

Types ==
    /\ db \in Envelopes
    /\ stale \in [Envelopes -> 0..Cap]
    /\ cache \in [Caches -> Entry]
    /\ owed \subseteq Caches \X (1..db)
    /\ poll \in [Polls -> Poll]
    /\ \A c \in Caches : cache[c].value <= db
    /\ \A p \in Polls : poll[p].value <= db

\* What is not superseded has been so for no time; what a poll has read, for no longer
\* than it has held it; what a cache may serve, for no longer than its age and the time
\* its poll took.
Ages ==
    /\ \A v \in Envelopes : v >= db => stale[v] = 0
    /\ \A p \in Polls : poll[p].pc = "read" => stale[poll[p].value] <= poll[p].since
    /\ \A c \in Caches : Hit(c) => stale[cache[c].value] <= cache[c].age + MaxDelay

IInv == Types /\ Ages /\ BoundedStaleness

\* The cap on what is counted lies beyond the bound that is promised.
LEMMA Bounds ==
  /\ TTL \in Nat /\ MaxDelay \in Nat /\ MaxWrites \in Nat
  /\ Bound \in Nat /\ Cap \in Nat /\ Bound < Cap /\ MaxDelay <= Bound
  BY TTLAssumption, MaxDelayAssumption, MaxWritesAssumption DEF Bound, Cap

\* A poll that has not begun holds nothing.
LEMMA IdlePoll == Idle \in Poll /\ Idle.pc = "idle" /\ Idle.value = 0 /\ ~Idle.late
  <1>1. [pc |-> "idle", at |-> CHOOSE c \in Caches : TRUE, value |-> 0, since |-> 0,
         late |-> FALSE] \in Poll
    BY Bounds DEF Poll, Envelopes
  <1> QED  BY <1>1 DEF Idle

\* A poll that was answered in time.
LEMMA ServedPoll ==
  LET x == [Idle EXCEPT !.pc = "served", !.late = FALSE]
  IN x \in Poll /\ x.pc = "served" /\ x.value = 0 /\ ~x.late
  BY IdlePoll DEF Poll

\* At the start every cache is empty and no poll has begun.
LEMMA Initial == Init => IInv
  <1> SUFFICES ASSUME Init PROVE IInv
    OBVIOUS
  <1>1. Types
    BY Bounds, IdlePoll DEF Init, Types, Entry, Envelopes, NoEntry
  <1>2. Ages
    BY Bounds, IdlePoll DEF Init, Ages, Hit, NoEntry, Envelopes
  <1>3. BoundedStaleness
    BY IdlePoll DEF Init, BoundedStaleness
  <1> QED  BY <1>1, <1>2, <1>3 DEF IInv

\* The invariant implies what the run checks.
LEMMA Implied == IInv => TypeOK /\ BoundedStaleness
  BY SMTT(60), Bounds DEF IInv, Types, TypeOK, Envelopes, Entry, Poll

-----------------------------------------------------------------------------
\* One poll changes, and perhaps the cache.
LEMMA PollStep ==
  ASSUME IInv, NEW p \in Polls, NEW x \in Poll, Become(p, x), UNCHANGED <<db, stale, owed>>,
         cache' \in [Caches -> Entry],
         x.value <= db,
         x.pc = "read" => stale[x.value] <= x.since,
         x.pc = "served" => ~x.late,
         \A c \in Caches : \/ cache'[c] = cache[c]
                           \/ /\ cache'[c].value <= db
                              /\ stale[cache'[c].value] <= cache'[c].age + MaxDelay
  PROVE  IInv'
  <1>1. \A r \in Polls : poll'[r] = IF r = p THEN x ELSE poll[r]
    BY DEF IInv, Types, Become
  <1>2. Types'
    BY <1>1 DEF IInv, Types, Become
  <1>3. Ages'
    BY <1>1 DEF IInv, Ages, Hit
  <1>4. BoundedStaleness'
    BY <1>1 DEF IInv, BoundedStaleness
  <1> QED  BY <1>2, <1>3, <1>4 DEF IInv

\* Every step keeps the invariant; Tick ages what is held no slower than what is superseded.
LEMMA Inductive == IInv /\ [Next]_vars => IInv'
  <1> SUFFICES ASSUME IInv, [Next]_vars PROVE IInv'
    OBVIOUS
  <1>0. Types /\ Ages /\ BoundedStaleness
    BY DEF IInv
  <1>1. ASSUME NEW p \in Polls, NEW c \in Caches, Serve(p, c) PROVE IInv'
    <2> DEFINE tooLate == stale[cache[c].value] > Bound
               x == [Idle EXCEPT !.pc = "served", !.late = tooLate]
    <2>1. tooLate = FALSE
      BY <1>0, <1>1, Bounds DEF Serve, Hit, Expired, Ages, Types, Entry, Bound
    <2>2. x \in Poll /\ x.pc = "served" /\ x.value = 0 /\ ~x.late
      BY <2>1, ServedPoll
    <2>3. Become(p, x) /\ UNCHANGED <<db, stale, owed, cache>>
      BY <1>1 DEF Serve
    <2>4. x.value <= db /\ cache' \in [Caches -> Entry]
      BY <1>0, <2>2, <2>3, Bounds DEF Types, Envelopes
    <2> HIDE DEF x
    <2> QED  BY <2>2, <2>3, <2>4, PollStep
  <1>2. ASSUME NEW p \in Polls, NEW c \in Caches, Read(p, c) PROVE IInv'
    <2> DEFINE x == [Idle EXCEPT !.pc = "read", !.at = c, !.value = db]
    <2>1. x \in Poll /\ x.pc = "read" /\ x.value = db /\ x.since = 0
      BY <1>0, IdlePoll DEF Idle, Poll, Types
    <2>2. stale[db] = 0 /\ db <= db
      BY <1>0, Bounds DEF Types, Ages, Envelopes
    <2>3. Become(p, x) /\ UNCHANGED <<db, stale, owed, cache>> /\ cache \in [Caches -> Entry]
      BY <1>0, <1>2 DEF Read, Types
    <2>4. x.value <= db /\ stale[x.value] <= x.since
      BY <2>1, <2>2
    <2> HIDE DEF x
    <2> QED  BY <2>1, <2>3, <2>4, PollStep
  <1>3. ASSUME NEW p \in Polls, SetAndServe(p) PROVE IInv'
    <2> DEFINE v == poll[p].value
               tooLate == stale[v] > Bound
               x == [Idle EXCEPT !.pc = "served", !.late = tooLate]
    <2>1. stale[v] <= MaxDelay /\ v \in Envelopes /\ v <= db /\ stale[v] \in Nat
      BY <1>0, <1>3, Bounds DEF SetAndServe, Ages, Types, Poll
    <2>2. tooLate = FALSE
      BY <2>1, Bounds
    <2>3. x \in Poll /\ x.pc = "served" /\ x.value = 0 /\ ~x.late
      BY <2>2, ServedPoll
    <2>4. /\ cache' \in [Caches -> Entry]
          /\ \A c \in Caches : cache'[c] = cache[c] \/ cache'[c] = [value |-> v, age |-> 0]
      <3> DEFINE e == [value |-> v, age |-> 0]
      <3>1. e \in Entry
        BY <2>1, Bounds DEF Entry
      <3>2. cache' = cache \/ cache' = [cache EXCEPT ![poll[p].at] = e]
        BY <1>3 DEF SetAndServe
      <3> HIDE DEF e
      <3>3. /\ cache' \in [Caches -> Entry]
            /\ \A c \in Caches : cache'[c] = cache[c] \/ cache'[c] = e
        BY <1>0, <3>1, <3>2 DEF Types
      <3> QED  BY <3>3 DEF e
    <2>5. \A c \in Caches : \/ cache'[c] = cache[c]
                            \/ /\ cache'[c].value <= db
                               /\ stale[cache'[c].value] <= cache'[c].age + MaxDelay
      BY <2>1, <2>4, Bounds
    <2>6. x.value <= db
      BY <1>0, <2>3, Bounds DEF Types, Envelopes
    <2>7. Become(p, x) /\ UNCHANGED <<db, stale, owed>>
      BY <1>3 DEF SetAndServe
    <2> HIDE DEF x
    <2> QED  BY <2>3, <2>4, <2>5, <2>6, <2>7, PollStep
  <1>4. ASSUME NEW p \in Polls, Finish(p) PROVE IInv'
    BY <1>0, <1>4, IdlePoll, PollStep, Bounds DEF Finish, Types, Envelopes
  <1>5. ASSUME NEW c \in Caches, Write(c) PROVE IInv'
    <2>1. db' \in Envelopes /\ db' = db + 1 /\ db \in Nat /\ UNCHANGED <<stale, cache, poll>>
      BY <1>0, <1>5, Bounds DEF Write, Types, Envelopes
    <2>2. owed' \subseteq Caches \X (1..db')
      BY <1>0, <1>5, <2>1 DEF Write, Types
    <2>3. Types'
      <3>1. \A r \in Caches : cache[r].value <= db'
        BY <1>0, <2>1, Bounds DEF Types, Entry, Envelopes
      <3>2. \A p \in Polls : poll[p].value <= db'
        BY <1>0, <2>1, Bounds DEF Types, Poll, Envelopes
      <3> QED  BY <1>0, <2>1, <2>2, <3>1, <3>2 DEF Types
    <2>4. Ages'
      BY <1>0, <2>1, Bounds DEF Ages, Types, Entry, Hit, Envelopes
    <2>5. BoundedStaleness'
      BY <1>0, <2>1 DEF BoundedStaleness
    <2> QED  BY <2>3, <2>4, <2>5 DEF IInv
  <1>6. ASSUME NEW o \in owed, Invalidate(o) PROVE IInv'
    <2>1. /\ UNCHANGED <<db, stale, poll>> /\ owed' \subseteq owed
          /\ cache' \in [Caches -> Entry]
          /\ \A c \in Caches : cache'[c] = cache[c] \/ cache'[c] = NoEntry
      <3>1. NoEntry \in Entry
        BY Bounds DEF NoEntry, Entry, Envelopes
      <3>2. cache' = cache \/ cache' = [cache EXCEPT ![o[1]] = NoEntry]
        BY <1>6 DEF Invalidate
      <3>3. /\ cache' \in [Caches -> Entry]
            /\ \A c \in Caches : cache'[c] = cache[c] \/ cache'[c] = NoEntry
        BY <1>0, <3>1, <3>2 DEF Types
      <3> QED  BY <1>6, <3>3 DEF Invalidate
    <2>2. Types'
      <3>1. \A c \in Caches : cache'[c].value <= db
        BY SMTT(60), <1>0, <2>1, Bounds DEF Types, NoEntry, Envelopes
      <3>2. owed' \subseteq Caches \X (1..db)
        BY <1>0, <2>1 DEF Types
      <3> QED  BY <1>0, <2>1, <3>1, <3>2 DEF Types
    <2>3. Ages'
      BY <1>0, <2>1 DEF Ages, Hit, NoEntry
    <2>4. BoundedStaleness'
      BY <1>0, <2>1 DEF BoundedStaleness
    <2> QED  BY <2>2, <2>3, <2>4 DEF IInv
  <1>7. ASSUME Tick PROVE IInv'
    <2>1. UNCHANGED <<db, owed>> /\ db \in Nat
      BY <1>0, <1>7, Bounds DEF Tick, Types, Envelopes
    <2>2. /\ stale' \in [Envelopes -> 0..Cap]
          /\ \A v \in Envelopes : /\ stale'[v] <= stale[v] + 1
                                  /\ v >= db => stale'[v] = stale[v]
      BY SMTT(60), <1>0, <1>7, <2>1, Bounds DEF Tick, Types, Capped, Envelopes
    <2>3. /\ cache' \in [Caches -> Entry]
          /\ \A c \in Caches : /\ cache'[c].value = cache[c].value
                               /\ ~Expired(cache'[c].age) =>
                                    ~Expired(cache[c].age) /\ cache'[c].age = cache[c].age + 1
      BY <1>0, <1>7, Bounds DEF Tick, Types, Entry, Older, Expired
    <2>4. ASSUME NEW p \in Polls
          PROVE  /\ poll'[p] \in Poll
                 /\ poll'[p].pc = poll[p].pc /\ poll'[p].value = poll[p].value
                 /\ poll[p].pc = "served" => poll'[p] = poll[p]
                 /\ poll[p].pc = "read" => poll'[p].since = poll[p].since + 1
      <3>1. CASE poll[p].pc = "read"
        <4>1. poll'[p] = [poll[p] EXCEPT !.since = poll[p].since + 1] /\ poll[p] \in Poll
          BY <1>0, <1>7, <3>1 DEF Tick, Types
        <4>2. poll[p].since + 1 \in 0..MaxDelay
          BY <1>0, <1>7, <3>1, <4>1, Bounds DEF Tick, Poll
        <4> QED  BY <3>1, <4>1, <4>2 DEF Poll
      <3>2. CASE poll[p].pc # "read"
        BY <1>0, <1>7, <3>2 DEF Tick, Types
      <3> QED  BY <3>1, <3>2
    <2>5. Types'
      <3>1. poll' \in [Polls -> Poll]
        BY <1>7, <2>4 DEF Tick
      <3> QED  BY <1>0, <2>1, <2>2, <2>3, <2>4, <3>1 DEF Types
    <2>6. Ages'
      <3>1. (\A p \in Polls : poll[p].pc = "read" => stale[poll[p].value] <= poll[p].since)'
        BY <1>0, <2>2, <2>4, Bounds DEF Ages, Types, Poll
      <3>2. (\A c \in Caches : Hit(c) => stale[cache[c].value] <= cache[c].age + MaxDelay)'
        BY <1>0, <2>2, <2>3, Bounds DEF Ages, Types, Entry, Hit
      <3> QED  BY <1>0, <2>1, <2>2, <3>1, <3>2 DEF Ages
    <2>7. BoundedStaleness'
      BY <1>0, <2>4 DEF BoundedStaleness
    <2> QED  BY <2>5, <2>6, <2>7 DEF IInv
  <1>8. CASE UNCHANGED vars
    BY <1>0, <1>8 DEF vars, IInv, Types, Ages, Hit, BoundedStaleness
  <1> QED
    BY <1>1, <1>2, <1>3, <1>4, <1>5, <1>6, <1>7, <1>8 DEF Next

\* The invariant holds in every reachable state.
LEMMA Invariance == Spec => []IInv
  BY Initial, Inductive, PTL DEF Spec

\* The variables keep their types, and no cache or poll holds an envelope that the
\* database never had.
THEOREM ServingTypes == Spec => []TypeOK
  BY Invariance, Implied, PTL

\* No device is served an envelope superseded for longer than the lifetime of a cache
\* entry and the time a poll takes between its read and SetJSON, on any replica and
\* whichever invalidations were lost or undone by a slow poll.
THEOREM StalenessIsBounded == Spec => []BoundedStaleness
  BY Invariance, Implied, PTL
=============================================================================

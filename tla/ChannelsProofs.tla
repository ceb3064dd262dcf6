--------------------------- MODULE ChannelsProofs ---------------------------
(***************************************************************************)
(* Proofs about Channels, for any names, percentages, requests and bound   *)
(* on the ids: what a channel serves exists, and a protected branch is not *)
(* deleted.                                                                *)
(***************************************************************************)
EXTENDS Channels, TLAPS

BranchRow == [live : BOOLEAN, id : 1..MaxIds, protected : BOOLEAN]
Mapping == BranchIds \cup {NoBranch}
ChannelRow == [live : BOOLEAN, id : 1..MaxIds, branch : Mapping]
RolloutRow == [on : BOOLEAN, id : 0..MaxIds, branch : Mapping, percentage : 0..99]
Request == [pc : {"idle", "rollouts", "write", "commit"},
            op : {"none", "delete", "create", "map", "start", "promote"},
            name : Names \cup {"none"}, branch : Mapping, channel : 0..MaxIds,
            percentage : 0..99, seen : RolloutRow]

Types ==
    /\ branches \in [Names -> BranchRow]
    /\ channel \in ChannelRow
    /\ rollout \in RolloutRow
    /\ rollout.on => rollout.percentage \in 1..99 /\ rollout.id \in 1..MaxIds
    /\ lock \in Requests \cup {NoOne}
    /\ req \in [Requests -> Request]
    /\ \A q \in Requests : req[q].pc = "rollouts" => req[q].op = "delete" /\ req[q].name \in Names
    /\ \A q \in Requests : req[q].pc = "write" /\ req[q].op = "delete" => req[q].name \in Names

\* A promotion holds the row of the channel, which is live, and the branch it repoints
\* it to.
Locks ==
    /\ \A q \in Requests : req[q].pc = "commit" <=> lock = q
    /\ lock # NoOne => channel.live /\ Exists(req[lock].branch)

\* A rollout about to be inserted saw its channel mapped, and a channel stays mapped
\* under its id.
Starts(x) ==
    /\ x.channel <= channel.id
    /\ x.pc = "write" /\ x.op = "start" =>
            /\ x.percentage \in 1..99
            /\ channel.live /\ x.channel = channel.id => channel.branch # NoBranch

IInv == Types /\ Locks /\ (\A q \in Requests : Starts(req[q])) /\ ServedBranchesExist

-----------------------------------------------------------------------------
\* A channel that is not mapped (branch_id NULL) names no branch.
LEMMA NoBranchIsNone == NoBranch \notin BranchIds
  BY MaxIdsAssumption DEF NoBranch, BranchIds

\* A branch that exists has an id a channel may be mapped to.
LEMMA ExistingId == \A b : Exists(b) => b \in BranchIds /\ b # NoBranch /\ b \in Mapping
  BY NoBranchIsNone DEF Exists, Mapping

\* The id read from a live row is that of an existing branch.
LEMMA BranchIdOf == ASSUME Types, NEW n \in Names, branches[n].live
                    PROVE  BranchId(n) = <<n, branches[n].id>> /\ Exists(BranchId(n))
  BY DEF Types, BranchRow, BranchId, Exists, BranchIds

\* At the start nothing is locked and the channel is mapped to a branch or to none.
LEMMA Initial == Init => IInv
  <1> SUFFICES ASSUME Init PROVE IInv
    OBVIOUS
  <1> USE MaxIdsAssumption, NoOneAssumption
  <1>1. NoRollout \in RolloutRow /\ ~NoRollout.on
    BY DEF NoRollout, RolloutRow, Mapping
  <1>2. Idle \in Request /\ Idle.pc = "idle" /\ Idle.channel = 0
    BY <1>1 DEF Idle, Request, Mapping
  <1>3. channel \in ChannelRow /\ channel.id = 1
    <2>1. PICK b \in {<<n, 1>> : n \in Names} \cup {NoBranch} :
                channel = [live |-> TRUE, id |-> 1, branch |-> b]
      BY DEF Init
    <2>2. b \in Mapping
      BY DEF Mapping, BranchIds
    <2> QED  BY <2>1, <2>2 DEF ChannelRow
  <1>4. branches \in [Names -> BranchRow]
    BY DEF Init, BranchRow
  <1>5. channel.branch = NoBranch \/ Exists(channel.branch)
    BY DEF Init, Exists, BranchIds
  <1>6. Types
    BY <1>1, <1>2, <1>3, <1>4 DEF Init, Types
  <1>7. Locks
    BY <1>2 DEF Init, Locks
  <1>8. \A q \in Requests : Starts(req[q])
    BY <1>2, <1>3 DEF Init, Starts
  <1>9. ServedBranchesExist
    BY <1>1, <1>5 DEF Init, ServedBranchesExist
  <1> QED  BY <1>6, <1>7, <1>8, <1>9 DEF IInv

\* The invariant implies what the run checks.
LEMMA Implied == IInv => TypeOK /\ ServedBranchesExist
  BY DEF IInv, Types, Locks, TypeOK, BranchRow, ChannelRow, Mapping

-----------------------------------------------------------------------------
\* A request reads, or ends without a write.
LEMMA ReadStep ==
  ASSUME IInv, NEW q \in Requests, NEW x \in Request, Become(q, x),
         UNCHANGED <<branches, channel, rollout, lock>>,
         req[q].pc # "commit", x.pc # "commit", Starts(x),
         x.pc = "rollouts" => x.op = "delete" /\ x.name \in Names,
         x.pc = "write" /\ x.op = "delete" => x.name \in Names
  PROVE  IInv'
  <1>1. Types'
    BY DEF IInv, Types, Become
  <1>2. Locks'
    BY NoOneAssumption DEF IInv, Types, Locks, Become, Exists
  <1>3. (\A p \in Requests : Starts(req[p]))'
    BY DEF IInv, Types, Starts, Become
  <1>4. ServedBranchesExist'
    BY DEF IInv, ServedBranchesExist, Exists
  <1> QED  BY <1>1, <1>2, <1>3, <1>4 DEF IInv

\* A request without a lock, if any, ends.
Ends == \/ UNCHANGED req
        \/ \E q \in Requests : req[q].pc # "commit" /\ Become(q, Idle)

\* A request that ends held no lock, and every other one is as it was.
LEMMA AfterEnd ==
  ASSUME Types, Locks, Ends
  PROVE  /\ req' \in [Requests -> Request]
         /\ \A p \in Requests : req'[p] = req[p] \/ req'[p] = Idle
         /\ \A p \in Requests : req'[p].pc = "commit" <=> req[p].pc = "commit"
         /\ \A p \in Requests : req[p].pc = "commit" => req'[p] = req[p]
         /\ Idle.pc = "idle" /\ Idle.channel = 0
  <1>1. NoRollout \in RolloutRow
    BY MaxIdsAssumption DEF NoRollout, RolloutRow, Mapping
  <1>2. Idle \in Request /\ Idle.pc = "idle" /\ Idle.channel = 0
    BY <1>1, MaxIdsAssumption DEF Idle, Request, Mapping
  <1>3. CASE UNCHANGED req
    BY <1>2, <1>3 DEF Types
  <1>4. ASSUME NEW q \in Requests, req[q].pc # "commit", Become(q, Idle)
        PROVE  /\ req' \in [Requests -> Request]
               /\ \A p \in Requests : req'[p] = req[p] \/ req'[p] = Idle
               /\ \A p \in Requests : req'[p].pc = "commit" <=> req[p].pc = "commit"
               /\ \A p \in Requests : req[p].pc = "commit" => req'[p] = req[p]
    BY <1>2, <1>4 DEF Types, Become
  <1> QED  BY <1>2, <1>3, <1>4 DEF Ends

\* Branches change, and none that is served or held goes.
LEMMA BranchStep ==
  ASSUME IInv, Ends, branches' \in [Names -> BranchRow], UNCHANGED <<channel, rollout, lock>>,
         \A b : Exists(b) /\ Referenced(b) => Exists(b)'
  PROVE  IInv'
  <1>0. Types /\ Locks
    BY DEF IInv
  <1>1. Types'
    BY <1>0, AfterEnd DEF Types
  <1>2. Locks'
    BY <1>0, AfterEnd DEF Types, Locks, Referenced
  <1>3. (\A p \in Requests : Starts(req[p]))'
    BY <1>0, AfterEnd, MaxIdsAssumption DEF IInv, Types, Starts, ChannelRow
  <1>4. ServedBranchesExist'
    BY DEF IInv, ServedBranchesExist, Referenced
  <1> QED  BY <1>1, <1>2, <1>3, <1>4 DEF IInv

\* The channel or its rollout change while nobody holds the channel.
LEMMA ChannelStep ==
  ASSUME IInv, Ends, UNCHANGED <<branches, lock>>,
         channel' \in ChannelRow, channel.id <= channel'.id,
         lock = NoOne \/ UNCHANGED channel,
         channel'.live /\ channel'.branch = NoBranch =>
            (channel.live /\ channel.branch = NoBranch) \/ channel.id < channel'.id,
         rollout' \in RolloutRow,
         rollout'.on => rollout'.percentage \in 1..99 /\ rollout'.id \in 1..MaxIds,
         ServedBranchesExist'
  PROVE  IInv'
  <1>0. Types /\ Locks
    BY DEF IInv
  <1>1. Types'
    BY <1>0, AfterEnd DEF Types
  <1>2. Locks'
    BY <1>0, AfterEnd DEF Types, Locks, Exists
  <1>3. (\A p \in Requests : Starts(req[p]))'
    <2> SUFFICES ASSUME NEW p \in Requests PROVE Starts(req[p])'
      OBVIOUS
    <2>1. Starts(req[p]) /\ req[p].channel \in 0..MaxIds
      BY DEF IInv, Types, Request
    <2>2. CASE req'[p] = Idle
      BY <1>0, <2>2, AfterEnd, MaxIdsAssumption DEF Starts, ChannelRow
    <2>3. CASE req'[p] = req[p]
      BY <1>0, <2>1, <2>3, MaxIdsAssumption DEF Starts, Types, ChannelRow
    <2> QED  BY <1>0, <2>2, <2>3, AfterEnd
  <1> QED  BY <1>1, <1>2, <1>3 DEF IInv

-----------------------------------------------------------------------------
\* Every statement keeps the invariant.
LEMMA Inductive == IInv /\ [Next]_vars => IInv'
  <1> SUFFICES ASSUME IInv, [Next]_vars PROVE IInv'
    OBVIOUS
  <1> USE MaxIdsAssumption, NoOneAssumption
  <1>0. /\ Types /\ Locks /\ ServedBranchesExist
        /\ \A q \in Requests : Starts(req[q])
    BY DEF IInv
  <1>1. NoRollout \in RolloutRow /\ ~NoRollout.on
    BY DEF NoRollout, RolloutRow, Mapping
  <1>2. Idle \in Request /\ Idle.pc = "idle" /\ Starts(Idle)
    BY <1>0, <1>1 DEF Idle, Request, Mapping, Starts, Types, ChannelRow
  <1>3. ASSUME NEW n \in Names, CreateBranch(n) PROVE IInv'
    <2>1. branches' \in [Names -> BranchRow]
      BY <1>0, <1>3 DEF CreateBranch, Types, BranchRow
    <2>2. \A b : Exists(b) => Exists(b)'
      BY <1>0, <1>3 DEF CreateBranch, Exists, Types, BranchIds
    <2> QED  BY <1>3, <2>1, <2>2, BranchStep DEF CreateBranch, Ends
  <1>4. ASSUME NEW n \in Names, NEW on \in BOOLEAN, SetBranchProtection(n, on) PROVE IInv'
    <2>1. branches' \in [Names -> BranchRow]
      BY <1>0, <1>4 DEF SetBranchProtection, Types, BranchRow
    <2>2. \A b : Exists(b) => Exists(b)'
      BY <1>0, <1>4 DEF SetBranchProtection, Exists, Types, BranchIds, BranchRow
    <2> QED  BY <1>4, <2>1, <2>2, BranchStep DEF SetBranchProtection, Ends
  <1>5. ASSUME NEW q \in Requests, NEW n \in Names, DeleteBranch(q, n) PROVE IInv'
    <2> DEFINE x == [Idle EXCEPT !.pc = "rollouts", !.op = "delete", !.name = n]
    <2>1. x \in Request /\ x.pc = "rollouts" /\ x.op = "delete" /\ x.name = n /\ x.channel = Idle.channel
      BY <1>2 DEF Idle, Request
    <2>2. Starts(x)
      BY <1>2, <2>1 DEF Starts
    <2> QED  BY <1>5, <2>1, <2>2, ReadStep DEF DeleteBranch
  <1>6. ASSUME NEW q \in Requests, CheckRollouts(q) PROVE IInv'
    <2> DEFINE x == [req[q] EXCEPT !.pc = "write"]
    <2>1. /\ x \in Request /\ x.pc = "write" /\ x.name = req[q].name
          /\ x.channel = req[q].channel /\ x.op = req[q].op
      BY <1>0 DEF Types, Request
    <2>2. req[q].pc = "rollouts" /\ (Become(q, Idle) \/ Become(q, x))
      BY <1>6 DEF CheckRollouts
    <2>3. Starts(x) /\ x.op = "delete" /\ x.name \in Names
      BY <1>0, <2>1, <2>2 DEF Types, Starts
    <2> QED  BY <1>2, <1>6, <2>1, <2>2, <2>3, ReadStep DEF CheckRollouts
  <1>7. ASSUME NEW q \in Requests, DeleteBranchByName(q) PROVE IInv'
    <2> DEFINE n == req[q].name
    <2>1. n \in Names /\ Ends
      BY <1>0, <1>7 DEF DeleteBranchByName, Types, Ends
    <2>2. branches' \in [Names -> BranchRow]
      <3>1. [branches EXCEPT ![n].live = FALSE, ![n].protected = FALSE] \in [Names -> BranchRow]
        BY ZenonT(60), <1>0, <2>1 DEF Types, BranchRow
      <3> QED  BY <1>0, <1>7, <3>1 DEF DeleteBranchByName, Types
    <2>3. ASSUME NEW b, Exists(b), Referenced(b) PROVE Exists(b)'
      <3>1. CASE UNCHANGED branches
        BY <2>3, <3>1 DEF Exists
      <3>2. CASE /\ branches[n].live /\ ~Referenced(BranchId(n))
                 /\ branches' = [branches EXCEPT ![n].live = FALSE, ![n].protected = FALSE]
        <4>1. b # <<n, branches[n].id>>
          BY <1>0, <2>1, <2>3, <3>2, BranchIdOf
        <4>2. b[1] # n /\ b[1] \in Names
          BY <2>3, <4>1 DEF Exists, BranchIds
        <4>3. branches'[b[1]] = branches[b[1]]
          BY <1>0, <2>1, <3>2, <4>2 DEF Types
        <4> QED  BY <2>3, <4>3 DEF Exists
      <3> QED  BY <1>7, <3>1, <3>2 DEF DeleteBranchByName, Deletable
    <2> QED  BY <1>7, <2>1, <2>2, <2>3, BranchStep DEF DeleteBranchByName
  <1>8. ASSUME NEW q \in Requests, NEW b \in BranchIds \cup {NoBranch}, CreateChannel(q, b)
        PROVE  IInv'
    <2> DEFINE x == [Idle EXCEPT !.pc = "write", !.op = "create", !.branch = b]
    <2>1. x \in Request /\ x.pc = "write" /\ x.op = "create" /\ x.channel = Idle.channel
      BY <1>2 DEF Idle, Request, Mapping
    <2>2. Starts(x)
      BY <1>2, <2>1 DEF Starts
    <2> QED  BY <1>8, <2>1, <2>2, ReadStep DEF CreateChannel
  <1>9. ASSUME NEW q \in Requests, InsertChannel(q) PROVE IInv'
    <2> DEFINE b == req[q].branch
               new == [live |-> TRUE, id |-> channel.id + 1, branch |-> b]
    <2>1. Ends
      BY <1>9 DEF InsertChannel, Ends
    <2>2. CASE UNCHANGED channel
      <3>1. ServedBranchesExist'
        BY <1>0, <1>9, <2>2 DEF InsertChannel, ServedBranchesExist, Exists
      <3> QED  BY <1>0, <1>9, <2>1, <2>2, <3>1, ChannelStep DEF InsertChannel, Types, ChannelRow
    <2>3. CASE /\ ~channel.live /\ channel.id < MaxIds /\ channel' = new
               /\ b = NoBranch \/ Exists(b)
      <3>1. b \in Mapping
        BY <1>0 DEF Types, Request
      <3>2. channel.id + 1 \in 1..MaxIds /\ channel.id < channel.id + 1 /\ channel.id \in Nat
        BY <1>0, <2>3 DEF Types, ChannelRow
      <3>3. channel' \in ChannelRow /\ channel'.id = channel.id + 1
        BY <2>3, <3>1, <3>2 DEF ChannelRow
      <3>4. lock = NoOne /\ ~rollout.on
        BY <1>0, <2>3 DEF Locks, ServedBranchesExist
      <3>5. ServedBranchesExist'
        <4>1. channel'.branch = b /\ UNCHANGED <<branches, rollout>>
          BY <1>9, <2>3 DEF InsertChannel
        <4>2. channel'.branch = NoBranch \/ Exists(channel.branch)'
          BY <2>3, <4>1 DEF Exists
        <4> QED  BY <3>4, <4>1, <4>2 DEF ServedBranchesExist
      <3>6. channel.id <= channel'.id /\ channel.id < channel'.id
        BY <3>2, <3>3
      <3>7. UNCHANGED <<branches, lock, rollout>> /\ rollout \in RolloutRow
        BY <1>0, <1>9 DEF InsertChannel, Types
      <3> QED  BY <2>1, <3>3, <3>4, <3>5, <3>6, <3>7, ChannelStep
    <2> QED  BY <1>9, <2>2, <2>3 DEF InsertChannel
  <1>10. ASSUME DeleteChannel PROVE IInv'
    <2>1. channel' \in ChannelRow /\ ~channel'.live /\ channel'.id = channel.id
      BY <1>0, <1>10 DEF DeleteChannel, Types, ChannelRow, Mapping
    <2>2. rollout' \in RolloutRow /\ ~rollout'.on
      BY <1>0, <1>1, <1>10 DEF DeleteChannel, Types, RolloutRow, NoRollout
    <2>3. channel.id <= channel'.id
      BY <1>0, <2>1 DEF Types, ChannelRow
    <2>4. Ends /\ UNCHANGED <<branches, lock>> /\ lock = NoOne
      BY <1>10 DEF DeleteChannel, Ends
    <2>5. ServedBranchesExist'
      BY <2>1, <2>2 DEF ServedBranchesExist
    <2> QED  BY <2>1, <2>2, <2>3, <2>4, <2>5, ChannelStep
  <1>11. ASSUME NEW q \in Requests, NEW b \in BranchIds, MapChannel(q, b) PROVE IInv'
    <2> DEFINE y == [Idle EXCEPT !.pc = "write", !.op = "map", !.branch = b]
               x == [Idle EXCEPT !.pc = "write", !.op = "map", !.branch = b, !.channel = channel.id]
    <2>0. x = [y EXCEPT !.channel = channel.id]
      OBVIOUS
    <2>1. x \in Request /\ x.pc = "write" /\ x.op = "map" /\ x.channel = channel.id
      <3>1. y \in Request /\ y.pc = "write" /\ y.op = "map"
        BY <1>2 DEF Idle, Request, Mapping
      <3>2. channel.id \in 0..MaxIds
        BY <1>0 DEF Types, ChannelRow
      <3> HIDE DEF x, y
      <3> QED  BY <2>0, <3>1, <3>2 DEF Request
    <2>2. Starts(x)
      BY <1>0, <2>1 DEF Starts, Types, ChannelRow
    <2> QED  BY <1>11, <2>1, <2>2, ReadStep DEF MapChannel
  <1>12. ASSUME NEW q \in Requests, UpdateChannelBranchMapping(q) PROVE IInv'
    <2> DEFINE b == req[q].branch
    <2>1. /\ Ends /\ lock = NoOne /\ UNCHANGED <<branches, lock, rollout>>
          /\ rollout \in RolloutRow
      BY <1>0, <1>12 DEF UpdateChannelBranchMapping, Ends, Types
    <2>2. CASE UNCHANGED channel
      <3>1. ServedBranchesExist'
        BY <1>0, <2>1, <2>2 DEF ServedBranchesExist, Exists
      <3> QED  BY <1>0, <2>1, <2>2, <3>1, ChannelStep DEF Types, ChannelRow
    <2>3. CASE channel.live /\ Exists(b) /\ channel' = [channel EXCEPT !.branch = b]
      <3>1. b \in Mapping /\ b # NoBranch
        BY <2>3, ExistingId
      <3>2. /\ channel' \in ChannelRow /\ channel'.branch = b /\ channel'.id = channel.id
            /\ channel'.live = channel.live
        BY <1>0, <2>3, <3>1 DEF Types, ChannelRow
      <3>3. channel.id <= channel'.id
        BY <1>0, <3>2 DEF Types, ChannelRow
      <3>4. Exists(channel.branch)'
        BY <2>1, <2>3, <3>2 DEF Exists
      <3>5. rollout.on => Exists(rollout.branch)'
        BY <1>0, <2>1 DEF ServedBranchesExist, Exists
      <3>6. ServedBranchesExist'
        BY <2>1, <2>3, <3>1, <3>2, <3>4, <3>5 DEF ServedBranchesExist
      <3>7. rollout.on => rollout.percentage \in 1..99 /\ rollout.id \in 1..MaxIds
        BY <1>0 DEF Types
      <3> QED  BY <2>1, <3>1, <3>2, <3>3, <3>6, <3>7, ChannelStep
    <2> QED  BY <1>12, <2>2, <2>3 DEF UpdateChannelBranchMapping
  <1>13. ASSUME NEW q \in Requests, NEW n \in Names, NEW p \in Percentages,
                StartChannelRollout(q, n, p)
         PROVE  IInv'
    <2> DEFINE x == [Idle EXCEPT !.pc = "write", !.op = "start", !.branch = BranchId(n),
                                 !.channel = channel.id, !.percentage = p]
    <2>1. BranchId(n) \in Mapping /\ p \in 1..99 /\ p \in 0..99
      <3>1. branches[n].live
        BY <1>13 DEF StartChannelRollout, MayStart
      <3> QED  BY <1>0, <3>1, BranchIdOf, ExistingId, PercentagesAssumption
    <2>2. /\ x \in Request /\ x.pc = "write" /\ x.op = "start" /\ x.channel = channel.id
          /\ x.percentage = p
      <3> DEFINE y == [Idle EXCEPT !.pc = "write", !.op = "start", !.branch = BranchId(n)]
      <3>1. x = [[y EXCEPT !.channel = channel.id] EXCEPT !.percentage = p]
        OBVIOUS
      <3>2. y \in Request /\ y.pc = "write" /\ y.op = "start"
        BY <1>2, <2>1 DEF Idle, Request
      <3>3. channel.id \in 0..MaxIds
        BY <1>0 DEF Types, ChannelRow
      <3> HIDE DEF x, y
      <3> QED  BY <2>1, <3>1, <3>2, <3>3 DEF Request
    <2>3. Starts(x)
      BY <1>0, <1>13, <2>1, <2>2 DEF StartChannelRollout, MayStart, Starts, Types, ChannelRow
    <2> QED  BY <1>13, <2>2, <2>3, ReadStep DEF StartChannelRollout
  <1>14. ASSUME NEW q \in Requests, InsertChannelRollout(q) PROVE IInv'
    <2> DEFINE b == req[q].branch
               new == [on |-> TRUE, id |-> rollout.id + 1, branch |-> b,
                       percentage |-> req[q].percentage]
    <2>1. Ends /\ UNCHANGED <<branches, channel, lock>> /\ channel \in ChannelRow
      BY <1>0, <1>14 DEF InsertChannelRollout, Ends, Types
    <2>2. channel.id <= channel'.id
      BY <2>1 DEF ChannelRow
    <2>3. CASE UNCHANGED rollout
      <3>1. ServedBranchesExist'
        BY <1>0, <2>1, <2>3 DEF ServedBranchesExist, Exists
      <3> QED  BY <1>0, <2>1, <2>2, <2>3, <3>1, ChannelStep DEF Types
    <2>4. CASE /\ rollout.id < MaxIds /\ channel.live /\ channel.id = req[q].channel /\ Exists(b)
               /\ rollout' = new
      <3>1. req[q].percentage \in 1..99 /\ channel.branch # NoBranch
        BY <1>0, <1>14, <2>4 DEF InsertChannelRollout, Starts
      <3>2. rollout.id + 1 \in 1..MaxIds /\ b \in Mapping
        BY <1>0, <2>4 DEF Types, RolloutRow, Request
      <3>3. /\ rollout' \in RolloutRow /\ rollout'.branch = b
            /\ rollout'.percentage \in 1..99 /\ rollout'.id \in 1..MaxIds
        BY <2>4, <3>1, <3>2 DEF RolloutRow
      <3>4. Exists(rollout.branch)' /\ (channel.branch = NoBranch \/ Exists(channel.branch)')
        BY <1>0, <2>1, <2>4, <3>3 DEF Exists, ServedBranchesExist
      <3>5. ServedBranchesExist'
        BY <2>1, <2>4, <3>1, <3>4 DEF ServedBranchesExist
      <3> QED  BY <2>1, <2>2, <3>3, <3>5, ChannelStep
    <2> QED  BY <1>14, <2>3, <2>4 DEF InsertChannelRollout
  <1>15. ASSUME NEW p \in Percentages, UpdateChannelRolloutPercentage(p) PROVE IInv'
    <2>1. /\ Ends /\ UNCHANGED <<branches, channel, lock>> /\ channel \in ChannelRow
          /\ p \in 1..99 /\ p \in 0..99 /\ rollout.on
      BY <1>0, <1>15, PercentagesAssumption DEF UpdateChannelRolloutPercentage, Ends, Types
    <2>2. /\ rollout' \in RolloutRow /\ rollout'.branch = rollout.branch /\ rollout'.percentage = p
          /\ rollout'.id = rollout.id
      BY <1>0, <1>15, <2>1 DEF UpdateChannelRolloutPercentage, Types, RolloutRow
    <2>3. ServedBranchesExist'
      BY <1>0, <2>1, <2>2 DEF ServedBranchesExist, Exists
    <2>4. channel.id <= channel'.id /\ rollout'.id \in 1..MaxIds
      BY <1>0, <2>1, <2>2 DEF Types, ChannelRow
    <2> QED  BY <2>1, <2>2, <2>3, <2>4, ChannelStep
  <1>16. ASSUME RevertChannelRollout PROVE IInv'
    <2>1. rollout' \in RolloutRow /\ ~rollout'.on
      BY <1>0, <1>1, <1>16 DEF RevertChannelRollout, Types, RolloutRow, NoRollout
    <2>2. Ends /\ UNCHANGED <<branches, channel, lock>> /\ channel \in ChannelRow
      BY <1>0, <1>16 DEF RevertChannelRollout, Ends, Types
    <2>3. ServedBranchesExist'
      BY <1>0, <2>1, <2>2 DEF ServedBranchesExist, Exists
    <2>4. channel.id <= channel'.id
      BY <2>2 DEF ChannelRow
    <2> QED  BY <2>1, <2>2, <2>3, <2>4, ChannelStep
  <1>17. ASSUME NEW q \in Requests, PromoteChannelRollout(q) PROVE IInv'
    <2> DEFINE x == [Idle EXCEPT !.pc = "write", !.op = "promote", !.branch = rollout.branch,
                                 !.channel = channel.id, !.seen = rollout]
    <2>1. x \in Request /\ x.pc = "write" /\ x.op = "promote" /\ x.channel = channel.id
      <3> DEFINE y == [Idle EXCEPT !.pc = "write", !.op = "promote", !.branch = rollout.branch]
      <3>1. x = [[y EXCEPT !.channel = channel.id] EXCEPT !.seen = rollout]
        OBVIOUS
      <3>2. channel.id \in 0..MaxIds /\ rollout.branch \in Mapping /\ rollout \in RolloutRow
        BY <1>0 DEF Types, ChannelRow, RolloutRow
      <3>3. y \in Request /\ y.pc = "write" /\ y.op = "promote"
        BY <1>2, <3>2 DEF Idle, Request
      <3> HIDE DEF x, y
      <3> QED  BY <3>1, <3>2, <3>3 DEF Request
    <2>2. Starts(x)
      BY <1>0, <2>1 DEF Starts, Types, ChannelRow
    <2> QED  BY <1>17, <2>1, <2>2, ReadStep DEF PromoteChannelRollout
  <1>18. ASSUME NEW q \in Requests, RepointChannel(q) PROVE IInv'
    <2>1. UNCHANGED <<branches, channel, rollout>> /\ req[q].pc = "write" /\ lock = NoOne
      BY <1>18 DEF RepointChannel
    <2>2. CASE Become(q, Idle) /\ UNCHANGED lock
      BY <1>2, <2>1, <2>2, ReadStep
    <2> DEFINE x == [req[q] EXCEPT !.pc = "commit"]
    <2>3. CASE lock' = q /\ Become(q, x) /\ channel.live /\ Exists(req[q].branch)
      <3>1. /\ x \in Request /\ x.pc = "commit" /\ x.branch = req[q].branch
            /\ x.channel = req[q].channel
        BY <1>0 DEF Types, Request
      <3>2. \A p \in Requests : p # q => req'[p] = req[p]
        BY <1>0, <2>3 DEF Types, Become
      <3>3. req'[q] = x /\ req' \in [Requests -> Request]
        BY <1>0, <2>3, <3>1 DEF Types, Become
      <3>4. Types'
        BY ZenonT(60), <1>0, <2>1, <2>3, <3>1, <3>2, <3>3 DEF Types
      <3>5. Exists(req[lock].branch)'
        BY <2>1, <2>3, <3>1, <3>3 DEF Exists
      <3>6. Locks'
        BY ZenonT(60), <1>0, <2>1, <2>3, <3>1, <3>2, <3>3, <3>5 DEF Locks, Types
      <3>7. (\A p \in Requests : Starts(req[p]))'
        <4> SUFFICES ASSUME NEW p \in Requests PROVE Starts(req[p])'
          OBVIOUS
        <4> HIDE DEF x
        <4>1. CASE p = q
          BY <1>0, <2>1, <3>1, <3>3, <4>1 DEF Starts
        <4>2. CASE p # q
          BY <1>0, <2>1, <3>2, <4>2 DEF Starts
        <4> QED  BY <4>1, <4>2
      <3>8. ServedBranchesExist'
        BY <1>0, <2>1 DEF ServedBranchesExist, Exists
      <3> QED  BY <3>4, <3>6, <3>7, <3>8 DEF IInv
    <2> QED  BY <1>18, <2>2, <2>3 DEF RepointChannel
  <1>19. ASSUME NEW q \in Requests, CommitPromotion(q) PROVE IInv'
    <2> DEFINE b == req[q].branch
    <2>1. lock = q /\ lock' = NoOne /\ UNCHANGED branches /\ channel.live /\ Exists(b)
      BY <1>0, <1>19 DEF CommitPromotion, Locks
    <2>2. /\ \A p \in Requests : p # q => req'[p] = req[p]
          /\ req'[q] = Idle /\ req' \in [Requests -> Request]
      BY <1>0, <1>2, <1>19 DEF CommitPromotion, Types, Become
    <2>3. Locks'
      BY <1>0, <1>2, <2>1, <2>2 DEF Locks
    <2>4. b \in Mapping /\ b # NoBranch
      BY <2>1, ExistingId
    <2>5. CASE UNCHANGED <<channel, rollout>>
      <3>1. Types'
        BY <1>0, <1>2, <2>1, <2>2, <2>5 DEF Types
      <3>2. (\A p \in Requests : Starts(req[p]))'
        BY <1>0, <1>2, <2>2, <2>5 DEF Starts
      <3>3. ServedBranchesExist'
        BY <1>0, <2>1, <2>5 DEF ServedBranchesExist, Exists
      <3> QED  BY <2>3, <3>1, <3>2, <3>3 DEF IInv
    <2>6. CASE /\ channel' = [channel EXCEPT !.branch = b]
               /\ rollout' = [NoRollout EXCEPT !.id = rollout.id]
      <3>1. /\ channel' \in ChannelRow /\ channel'.branch = b /\ channel'.id = channel.id
            /\ channel'.live = channel.live
        BY <1>0, <2>4, <2>6 DEF Types, ChannelRow
      <3>2. rollout' \in RolloutRow /\ ~rollout'.on
        BY <1>0, <1>1, <2>6 DEF Types, RolloutRow, NoRollout
      <3>3. Types'
        BY <1>0, <1>2, <2>1, <2>2, <3>1, <3>2 DEF Types
      <3>4. (\A p \in Requests : Starts(req[p]))'
        <4> SUFFICES ASSUME NEW p \in Requests PROVE Starts(req[p])'
          OBVIOUS
        <4>1. CASE p = q
          BY <1>2, <2>2, <2>4, <3>1, <4>1 DEF Starts
        <4>2. CASE p # q
          BY <1>0, <2>2, <2>4, <3>1, <4>2 DEF Starts
        <4> QED  BY <4>1, <4>2
      <3>5. Exists(channel.branch)'
        BY <2>1, <3>1 DEF Exists
      <3>6. ServedBranchesExist'
        BY <3>2, <3>5 DEF ServedBranchesExist
      <3> QED  BY <2>3, <3>3, <3>4, <3>6 DEF IInv
    <2> QED  BY <1>19, <2>5, <2>6 DEF CommitPromotion
  <1>20. CASE UNCHANGED vars
    BY <1>0, <1>20 DEF vars, IInv, Types, Locks, Starts, ServedBranchesExist, Exists
  <1> QED
    BY <1>3, <1>4, <1>5, <1>6, <1>7, <1>8, <1>9, <1>10, <1>11, <1>12, <1>13, <1>14, <1>15,
       <1>16, <1>17, <1>18, <1>19, <1>20 DEF Next

\* The invariant holds in every reachable state.
LEMMA Invariance == Spec => []IInv
  BY Initial, Inductive, PTL DEF Spec

\* The rows keep their types, and the channel row is locked exactly while a promotion is
\* between RepointChannelToRolloutBranch and its commit.
THEOREM ChannelTypes == Spec => []TypeOK
  BY Invariance, Implied, PTL

\* The branch a channel is mapped to, and the one it is rolling out to, exist in every
\* state, though DeleteBranch reads both before it deletes, and mappings, starts and
\* promotions write a branch they read earlier.
THEOREM ServedExist == Spec => []ServedBranchesExist
  BY Invariance, Implied, PTL

\* No step deletes a branch that is protected: DeleteBranchByName tests the flag on the
\* last version of the row, whenever the deletion began.
THEOREM ProtectionHolds == Spec => ProtectedBranchesStay
  <1> DEFINE Stay == \A n \in Names : branches[n].live /\ branches[n].protected => branches'[n].live
  <1>1. IInv /\ [Next]_vars => [Stay]_vars
    <2> SUFFICES ASSUME IInv, Next PROVE Stay
      OBVIOUS
    <2>0. branches \in [Names -> BranchRow]
      BY DEF IInv, Types
    <2>1. ASSUME NEW n \in Names, CreateBranch(n) PROVE Stay
      BY <2>0, <2>1 DEF CreateBranch
    <2>2. ASSUME NEW n \in Names, NEW on \in BOOLEAN, SetBranchProtection(n, on) PROVE Stay
      BY <2>0, <2>2 DEF SetBranchProtection, BranchRow
    <2>3. ASSUME NEW q \in Requests, DeleteBranchByName(q) PROVE Stay
      BY <2>0, <2>3 DEF DeleteBranchByName, Deletable
    <2>4. CASE UNCHANGED branches
      BY <2>4
    <2> QED
      BY <2>1, <2>2, <2>3, <2>4
         DEF Next, DeleteBranch, CheckRollouts, CreateChannel, InsertChannel, DeleteChannel,
             MapChannel, UpdateChannelBranchMapping, StartChannelRollout, InsertChannelRollout,
             UpdateChannelRolloutPercentage, RevertChannelRollout, PromoteChannelRollout,
             RepointChannel, CommitPromotion
  <1> QED  BY <1>1, Invariance, PTL DEF Spec, ProtectedBranchesStay
=============================================================================

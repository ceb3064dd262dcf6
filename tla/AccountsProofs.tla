--------------------------- MODULE AccountsProofs ---------------------------
(***************************************************************************)
(* The last-administrator guard, for any number of accounts and requests:  *)
(* what it counts still holds when it decides, and while requests only take *)
(* away, no order of them leaves the dashboard without an administrator.    *)
(***************************************************************************)
EXTENDS Accounts, TLAPS

\* A request under way has a target that was an account when it was authorized,
\* and a kind; it keeps locks only while its statement runs.
RequestsOK ==
    \A q \in Requests :
        /\ req[q].pc # "idle" =>
            /\ req[q].target \in Users
            /\ users[req[q].target].life # "unborn"
            /\ req[q].kind \in Kinds
        /\ req[q].pc # "locking" => req[q].todo = {} /\ req[q].admins = {}

\* The invariant of every mix of requests.
IInv == TypeOK /\ RequestsOK /\ CountedAdminsRemain

\* What requests that only take away add: a target that is an enabled
\* administrator now was one in the snapshot, so it is locked or about to be.
TargetSeen ==
    \A q \in Requests :
        req[q].pc = "locking" /\ req[q].target \in Admins(users)
            => req[q].target \in req[q].todo \cup req[q].admins

-----------------------------------------------------------------------------
\* Written yields a row, and never an unborn one.
LEMMA WrittenRow ==
    ASSUME NEW q \in Requests, NEW row \in Row, req[q].kind \in Gains \cup Losses, row.life = "live"
    PROVE  Written(q, row) \in Row /\ Written(q, row).life # "unborn"
  <1>1. ASSUME NEW lost \in BOOLEAN PROVE VersionAfter(q, row, lost) \in 0..1
    BY <1>1 DEF VersionAfter, Row
  <1>2. row.is_admin \in BOOLEAN /\ row.enabled \in BOOLEAN
    BY DEF Row
  <1>3. CASE req[q].kind = "delete"
    BY <1>3 DEF Written, Gone, Row
  <1>4. CASE req[q].kind = "promote"
    BY <1>4, ZenonT(60) DEF Written, Row
  <1>5. CASE req[q].kind = "enable"
    BY <1>5, ZenonT(60) DEF Written, Row
  <1>6. CASE req[q].kind = "demote"
    <2>1. PICK v \in 0..1 : v = VersionAfter(q, row, row.is_admin)
      BY <1>1, <1>2
    <2>2. Written(q, row) = [row EXCEPT !.is_admin = FALSE, !.session_version = v]
      BY <1>6, <2>1 DEF Written
    <2> QED BY <2>2, ZenonT(60) DEF Row
  <1>7. CASE req[q].kind = "disable"
    <2>1. PICK v \in 0..1 : v = VersionAfter(q, row, row.enabled)
      BY <1>1, <1>2
    <2>2. Written(q, row) = [row EXCEPT !.enabled = FALSE, !.session_version = v]
      BY <1>7, <2>1 DEF Written
    <2> QED BY <2>2, ZenonT(60) DEF Row
  <1> QED BY <1>3, <1>4, <1>5, <1>6, <1>7 DEF Gains, Losses

\* A request that only takes away makes nobody an enabled administrator.
LEMMA LossesOnlyTake ==
    ASSUME NEW q \in Requests, NEW row \in Row, req[q].kind \in Losses, row.life = "live",
           Written(q, row).life = "live", Written(q, row).is_admin, Written(q, row).enabled
    PROVE  row.is_admin /\ row.enabled
  BY DEF Written, VersionAfter, Row, Gone, Losses

\* A request stays one when its fields get values of their types.
LEMMA RequestUpdates ==
    ASSUME NEW x \in Request, NEW S \in SUBSET Users, NEW T \in SUBSET Users, NEW b \in BOOLEAN
    PROVE  /\ [x EXCEPT !.todo = S, !.admins = T] \in Request
           /\ [x EXCEPT !.pc = "written", !.raised = b, !.admins = {}] \in Request
  <1>1. [x EXCEPT !.todo = S, !.admins = T] \in Request
    BY ZenonT(60) DEF Request
  <1>2. [x EXCEPT !.pc = "written", !.raised = b, !.admins = {}] \in Request
    BY ZenonT(60) DEF Request
  <1> QED BY <1>1, <1>2

\* The initial state satisfies the invariant.
LEMMA InitInv == Init => IInv
  BY NoOneAssumption DEF Init, IInv, TypeOK, RequestsOK, CountedAdminsRemain, Idle, Request, Row, Unborn

\* Every step preserves the invariant.
LEMMA NextInv == IInv /\ [Next]_vars => IInv'
  <1> SUFFICES ASSUME IInv, [Next]_vars PROVE IInv'
    OBVIOUS
  <1> USE DEF IInv
  <1>1. ASSUME NEW u \in Users, NEW admin \in BOOLEAN, NEW on \in BOOLEAN, InsertUser(u, admin, on)
        PROVE IInv'
    BY <1>1 DEF InsertUser, TypeOK, RequestsOK, CountedAdminsRemain, Row, Admins, Live
  <1>2. ASSUME NEW q \in Requests, NEW a \in Users, NEW t \in Users, NEW k \in Kinds,
               Authorize(q, a, k, t)
        PROVE IInv'
    <2>1. TypeOK'
      <3>1. Flag(k, users[t]) \in BOOLEAN
        BY ZenonT(60) DEF Flag, TypeOK, Row
      <3>2. PICK prior \in BOOLEAN :
                req' = [req EXCEPT ![q] = [Idle EXCEPT !.pc = "authorized", !.kind = k,
                                                       !.target = t, !.prior = prior]]
        BY <1>2, <3>1 DEF Authorize
      <3>3. [Idle EXCEPT !.pc = "authorized", !.kind = k, !.target = t, !.prior = prior] \in Request
        BY KindsAssumption, ZenonT(60) DEF Request, Idle
      <3>4. req' \in [Requests -> Request] /\ \A p \in Requests : p # q => req'[p] = req[p]
        BY <3>2, <3>3 DEF TypeOK
      <3>5. req[q].pc # "locking" /\ UNCHANGED <<users, holder>>
        BY <1>2 DEF Authorize
      <3> QED BY <3>4, <3>5 DEF TypeOK
    <2>2. RequestsOK' /\ CountedAdminsRemain'
      BY <1>2, KindsAssumption
      DEF Authorize, TypeOK, Request, Idle, RequestsOK, CountedAdminsRemain, Admins, Live
    <2> QED BY <2>1, <2>2
  <1>3. ASSUME NEW q \in Requests, Snapshot(q) PROVE IInv'
    <2>1. CASE req' = [req EXCEPT ![q] = Idle]
      BY <1>3, <2>1, SMTT(60)
      DEF Snapshot, TypeOK, Request, Idle, RequestsOK, CountedAdminsRemain, Admins, Live
    <2>2. ASSUME NEW S \in SUBSET Users, req' = [req EXCEPT ![q].pc = "locking", ![q].todo = S]
          PROVE  IInv'
      BY <1>3, <2>2, SMTT(60)
      DEF Snapshot, TypeOK, Request, RequestsOK, CountedAdminsRemain, Admins, Live
    <2>3. Admins(users) \in SUBSET Users
      BY DEF Admins
    <2> QED BY <1>3, <2>1, <2>2, <2>3 DEF Snapshot
  <1>4. ASSUME NEW q \in Requests, NEW u \in Users, LockAdmin(q, u) PROVE IInv'
    <2>1. TypeOK'
      <3>1. PICK S \in SUBSET Users, T \in SUBSET Users :
                req' = [req EXCEPT ![q].todo = S, ![q].admins = T]
        <4>1. req[q].todo \ {u} \in SUBSET Users /\ req[q].admins \cup {u} \in SUBSET Users
              /\ req[q].admins \in SUBSET Users
          BY DEF TypeOK, Request
        <4> QED BY <1>4, <4>1, ZenonT(60) DEF LockAdmin
      <3>2. req' \in [Requests -> Request]
        <4>1. req' = [req EXCEPT ![q] = [req[q] EXCEPT !.todo = S, !.admins = T]]
          BY <3>1, ZenonT(60)
        <4> QED BY <4>1, RequestUpdates, ZenonT(60) DEF TypeOK
      <3> QED BY <1>4, <3>1, <3>2, NoOneAssumption, SMTT(60) DEF LockAdmin, TypeOK, Request
    <2>2. RequestsOK'
      BY <1>4, SMTT(60) DEF LockAdmin, TypeOK, Request, RequestsOK
    <2>3. CountedAdminsRemain'
      BY <1>4, NoOneAssumption DEF LockAdmin, TypeOK, Request, CountedAdminsRemain, Admins, Live
    <2> QED BY <2>1, <2>2, <2>3
  <1>5. ASSUME NEW q \in Requests, Write(q) PROVE IInv'
    <2> DEFINE t == req[q].target
    <2>1. t \in Users /\ users[t] \in Row /\ req[q].kind \in Gains \cup Losses
      BY <1>5, KindsAssumption DEF Write, TypeOK, RequestsOK
    <2>2. CASE Live(users, t) /\ Guard(q)
      <3>1. /\ users' = [users EXCEPT ![t] = Written(q, users[t])]
            /\ Written(q, users[t]) \in Row /\ Written(q, users[t]).life # "unborn"
        BY <1>5, <2>1, <2>2, WrittenRow DEF Write, Live
      <3>2. req' = [req EXCEPT ![q].pc = "written",
                               ![q].raised = req[q].kind \in Gains /\ ~Flag(req[q].kind, users[t]),
                               ![q].admins = {}]
        BY <1>5, <2>2 DEF Write
      <3>3. PICK b \in BOOLEAN : req' = [req EXCEPT ![q].pc = "written", ![q].raised = b,
                                                    ![q].admins = {}]
        BY <3>2, <2>1 DEF Flag, Row
      <3>4. TypeOK'
        <4>1. users' \in [Users -> Row]
          BY <3>1, ZenonT(60) DEF TypeOK
        <4>2. req' \in [Requests -> Request]
          <5>1. req' = [req EXCEPT ![q] = [req[q] EXCEPT !.pc = "written", !.raised = b,
                                                         !.admins = {}]]
            BY <3>3, ZenonT(60)
          <5> QED BY <5>1, RequestUpdates, ZenonT(60) DEF TypeOK
        <4>3. \A p \in Requests : p # q => req'[p] = req[p]
          BY <3>3 DEF TypeOK
        <4> QED BY <1>5, <4>1, <4>2, <4>3, NoOneAssumption DEF Write, Released, TypeOK
      <3>5. RequestsOK'
        BY <1>5, <2>1, <3>1, <3>3 DEF Write, TypeOK, Request, RequestsOK
      <3>6. ASSUME NEW p \in Requests, NEW u \in req'[p].admins
            PROVE  holder'[u] = p /\ u \in Admins(users')
        <4>1. p # q /\ u \in req[p].admins
          BY <3>3, <3>6 DEF TypeOK, Request
        <4>2. u \in Users /\ holder[u] = p /\ u \in Admins(users)
          BY <4>1 DEF TypeOK, Request, CountedAdminsRemain
        <4>3. u # t
          BY <1>5, <4>1, <4>2, NoOneAssumption DEF Write
        <4> HIDE DEF t
        <4> QED BY <1>5, <2>1, <3>1, <4>1, <4>2, <4>3 DEF Write, Released, Admins, Live, TypeOK
      <3>7. CountedAdminsRemain'
        BY <3>6 DEF CountedAdminsRemain, Admins, Live
      <3> QED BY <3>4, <3>5, <3>7
    <2>3. CASE ~(Live(users, t) /\ Guard(q))
      <3>1. users' = users /\ req' = [req EXCEPT ![q] = Idle] /\ holder' = Released(q)
        BY <1>5, <2>3 DEF Write
      <3> QED BY <3>1, NoOneAssumption
              DEF Released, TypeOK, Request, Idle, RequestsOK, CountedAdminsRemain, Admins, Live
    <2> QED BY <2>2, <2>3
  <1>6. ASSUME NEW q \in Requests, Fail(q) PROVE IInv'
    BY <1>6, NoOneAssumption
    DEF Fail, Released, TypeOK, Request, Idle, RequestsOK, CountedAdminsRemain, Admins, Live
  <1>7. ASSUME NEW q \in Requests, Answer(q) PROVE IInv'
    BY <1>7 DEF Answer, TypeOK, Request, Idle, RequestsOK, CountedAdminsRemain, Admins, Live
  <1>8. CASE UNCHANGED vars
    BY <1>8 DEF vars, TypeOK, RequestsOK, CountedAdminsRemain, Admins, Live
  <1> QED BY <1>1, <1>2, <1>3, <1>4, <1>5, <1>6, <1>7, <1>8 DEF Next

\* The invariant holds in every reachable state.
THEOREM Invariance == Spec => []IInv
  BY InitInv, NextInv, PTL DEF Spec

\* The rows of users, the locks and the requests keep their types, whatever snapshots
\* and writes interleave.
THEOREM AccountTypes == Spec => []TypeOK
  BY Invariance, PTL DEF IInv

\* The guard of the three guarded statements decides on facts that still hold,
\* for any number of accounts, requests and kinds of request.
THEOREM GuardDecidesOnFacts == Spec => [](TypeOK /\ CountedAdminsRemain)
  BY Invariance, PTL DEF IInv

\* A step of requests that only take away keeps an administrator and TargetSeen.
LEMMA LossesStep ==
    ASSUME Kinds \subseteq Losses, IInv, TargetSeen, SomeAdminEnabled, [Next]_vars
    PROVE  TargetSeen' /\ SomeAdminEnabled'
  <1> USE DEF IInv
  <1>1. ASSUME NEW u \in Users, NEW admin \in BOOLEAN, NEW on \in BOOLEAN, InsertUser(u, admin, on)
        PROVE TargetSeen' /\ SomeAdminEnabled'
    <2>1. \A v \in Users \ {u} : v \in Admins(users') <=> v \in Admins(users)
      BY <1>1 DEF InsertUser, Admins, Live, TypeOK
    <2>2. u \notin Admins(users) /\ users[u].life = "unborn" /\ req' = req
      BY <1>1 DEF InsertUser, Admins, Live
    <2>3. \A q \in Requests : req[q].pc = "locking" => req[q].target \in Users \ {u}
      BY <2>2 DEF RequestsOK
    <2>4. Admins(users) \subseteq Users
      BY DEF Admins
    <2> QED BY <2>1, <2>2, <2>3, <2>4 DEF TargetSeen, SomeAdminEnabled, Admins, Live
  <1>2. ASSUME NEW q \in Requests, NEW a \in Users, NEW t \in Users, NEW k \in Kinds,
               Authorize(q, a, k, t)
        PROVE TargetSeen' /\ SomeAdminEnabled'
    BY <1>2 DEF Authorize, Idle, TypeOK, Request, TargetSeen, SomeAdminEnabled, Admins, Live
  <1>3. ASSUME NEW q \in Requests, Snapshot(q) PROVE TargetSeen' /\ SomeAdminEnabled'
    <2>1. req[q].kind \notin Gains
      BY <1>3 DEF Snapshot, RequestsOK, Gains, Losses
    <2>2. users' = users
      BY <1>3 DEF Snapshot
    <2>3. CASE req' = [req EXCEPT ![q] = Idle]
      BY <2>2, <2>3 DEF Idle, TypeOK, Request, TargetSeen, SomeAdminEnabled, Admins, Live
    <2>4. CASE req' = [req EXCEPT ![q].pc = "locking", ![q].todo = Admins(users)]
      <3>1. req'[q].todo = Admins(users) /\ \A p \in Requests \ {q} : req'[p] = req[p]
            /\ req'[q].target = req[q].target
        BY <2>4 DEF TypeOK, Request
      <3>2. Admins(users') = Admins(users)
        BY <2>2, SMTT(60)
      <3> QED BY <2>2, <3>1, <3>2 DEF TargetSeen, SomeAdminEnabled, Admins, Live
    <2> QED BY <1>3, <2>1, <2>3, <2>4 DEF Snapshot
  <1>4. ASSUME NEW q \in Requests, NEW u \in Users, LockAdmin(q, u)
        PROVE TargetSeen' /\ SomeAdminEnabled'
    <2>1. users' = users /\ \A p \in Requests \ {q} : req'[p] = req[p]
      BY <1>4 DEF LockAdmin, TypeOK
    <2>2. /\ req'[q].pc = "locking" /\ req'[q].target = req[q].target
          /\ req'[q].todo = req[q].todo \ {u}
          /\ req[q].admins \subseteq req'[q].admins
          /\ u \in Admins(users) => u \in req'[q].admins
      BY <1>4 DEF LockAdmin, TypeOK, Request
    <2>3. req[q].pc = "locking"
      BY <1>4 DEF LockAdmin
    <2>4. Admins(users') = Admins(users)
      BY <2>1
    <2> QED BY <2>1, <2>2, <2>3, <2>4, SMTT(60) DEF TargetSeen, SomeAdminEnabled, Admins, Live
  <1>5. ASSUME NEW q \in Requests, Write(q) PROVE TargetSeen' /\ SomeAdminEnabled'
    <2> DEFINE t == req[q].target
    <2>1. t \in Users /\ users[t] \in Row /\ req[q].kind \in Losses /\ req[q].pc = "locking"
          /\ req[q].todo = {}
      BY <1>5 DEF Write, TypeOK, RequestsOK
    <2>2. req'[q].pc # "locking" /\ \A p \in Requests \ {q} : req'[p] = req[p]
      BY <1>5 DEF Write, TypeOK, Request, Idle
    <2>3. CASE Live(users, t) /\ Guard(q)
      <3>1. users' = [users EXCEPT ![t] = Written(q, users[t])]
        BY <1>5, <2>3 DEF Write
      <3>2. \A v \in Users \ {t} : v \in Admins(users') <=> v \in Admins(users)
        <4> HIDE DEF t
        <4> QED BY <2>1, <3>1 DEF TypeOK, Admins, Live
      <3>3. t \in Admins(users') => t \in Admins(users)
        <4> SUFFICES ASSUME t \in Admins(users') PROVE t \in Admins(users)
          OBVIOUS
        <4>1. users'[t] = Written(q, users[t])
          BY <2>1, <3>1 DEF TypeOK
        <4>2. Written(q, users[t]).life = "live" /\ Written(q, users[t]).is_admin
              /\ Written(q, users[t]).enabled
          BY <4>1, SMTT(60) DEF Admins, Live
        <4>3. users[t].is_admin /\ users[t].enabled
          BY <2>1, <2>3, <4>2, LossesOnlyTake DEF Live
        <4> QED BY <2>1, <2>3, <4>3 DEF Admins, Live
      <3>4. Admins(users') \subseteq Admins(users)
        BY <3>2, <3>3 DEF Admins
      <3>5. TargetSeen'
        BY <2>2, <3>4 DEF TargetSeen, Admins, Live
      <3>6. PICK v \in Admins(users) : v # t
        <4>1. CASE t \in Admins(users)
          <5>1. t \in req[q].admins
            BY <2>1, <4>1 DEF TargetSeen
          <5>2. req[q].admins \ {t} # {}
            BY <2>1, <2>3, <5>1 DEF Guard, Gains, Losses
          <5> QED BY <5>2 DEF CountedAdminsRemain
        <4>2. CASE t \notin Admins(users)
          BY <4>2 DEF SomeAdminEnabled
        <4> QED BY <4>1, <4>2
      <3>7. v \in Admins(users')
        BY <3>2, <3>6, SMTT(60) DEF Admins
      <3> QED BY <3>5, <3>7 DEF SomeAdminEnabled, Admins, Live
    <2>4. CASE ~(Live(users, t) /\ Guard(q))
      <3>1. users' = users
        BY <1>5, <2>4, SMTT(60) DEF Write
      <3> QED BY <2>2, <3>1 DEF TargetSeen, SomeAdminEnabled, Admins, Live
    <2> QED BY <2>3, <2>4
  <1>6. ASSUME NEW q \in Requests, Fail(q) \/ Answer(q) PROVE TargetSeen' /\ SomeAdminEnabled'
    BY <1>6, SMTT(60) DEF Fail, Answer, Idle, TypeOK, Request, TargetSeen, SomeAdminEnabled, Admins, Live
  <1>7. CASE UNCHANGED vars
    BY <1>7 DEF vars, TargetSeen, SomeAdminEnabled, Admins, Live
  <1> QED BY <1>1, <1>2, <1>3, <1>4, <1>5, <1>6, <1>7 DEF Next

\* While requests only delete, demote and disable, no order of their statements
\* takes the last enabled administrator away.
THEOREM LossesKeepAnAdmin ==
    ASSUME Kinds \subseteq Losses
    PROVE  Spec => []SomeAdminEnabled
  <1>1. Init => TargetSeen /\ SomeAdminEnabled
    BY DEF Init, TargetSeen, SomeAdminEnabled, Idle
  <1>2. IInv /\ TargetSeen /\ SomeAdminEnabled /\ [Next]_vars => TargetSeen' /\ SomeAdminEnabled'
    BY LossesStep
  <1> QED BY <1>1, <1>2, Invariance, PTL DEF Spec

\* An account that loses its admin flag or its access gets another session
\* version in the same statement, whatever the request had read before.
THEOREM AccessEndsSessions == Spec => SessionsEndWithAccess
  <1>1. IInv /\ [Next]_vars =>
          [\A u \in Users : /\ Live(users, u) /\ Live(users', u)
                            /\ \/ users[u].is_admin /\ ~users'[u].is_admin
                               \/ users[u].enabled /\ ~users'[u].enabled
                            => users'[u].session_version # users[u].session_version]_vars
    <2> SUFFICES ASSUME IInv, Next, NEW u \in Users, Live(users, u), Live(users', u),
                        \/ users[u].is_admin /\ ~users'[u].is_admin
                        \/ users[u].enabled /\ ~users'[u].enabled
                 PROVE  users'[u].session_version # users[u].session_version
      OBVIOUS
    <2>1. PICK q \in Requests : Write(q) /\ u = req[q].target /\ users' # users
      <3>1. users'[u] # users[u]
        OBVIOUS
      <3>2. ASSUME NEW v \in Users, NEW admin \in BOOLEAN, NEW on \in BOOLEAN, InsertUser(v, admin, on)
            PROVE  FALSE
        BY <3>1, <3>2 DEF InsertUser, IInv, TypeOK, Live
      <3> QED BY <3>1, <3>2, ZenonT(60)
              DEF Next, Authorize, Snapshot, LockAdmin, Write, Fail, Answer, IInv, TypeOK
    <2>2. users[u] \in Row /\ users'[u] = Written(q, users[u]) /\ req[q].kind \in Gains \cup Losses
      BY <2>1, KindsAssumption DEF Write, IInv, TypeOK, RequestsOK
    <2> QED BY <2>2, SMTT(60) DEF Written, VersionAfter, Row, Gone, Live, Gains, Losses
  <1> QED BY <1>1, Invariance, PTL DEF Spec, SessionsEndWithAccess
=============================================================================

------------------------------ MODULE Accounts ------------------------------
(***************************************************************************)
(* The users table and the requests an administrator sends to it: delete,  *)
(* demote, promote, disable and enable an account.  Each is one SQL         *)
(* statement, but not one atomic step: under READ COMMITTED a statement     *)
(* takes its snapshot when it starts, locks the enabled administrators of   *)
(* that snapshot one by one in the order of their ids, rechecks each of     *)
(* them once it is locked, and only then locks and writes its target.       *)
(***************************************************************************)
EXTENDS Naturals

CONSTANTS
    Users,          \* account ids, numbered in the order of their uuids
    Requests,       \* administrators' requests in flight
    Kinds,          \* the kinds of request they may send
    NoOne           \* a row nobody has locked

Gains == {"promote", "enable"}
Losses == {"delete", "demote", "disable"}

ASSUME UsersAssumption == Users \subseteq Nat
ASSUME KindsAssumption == Kinds \subseteq Gains \cup Losses
ASSUME NoOneAssumption == NoOne \notin Requests

VARIABLES
    users,          \* the users table
    holder,         \* the request that holds the lock on each row
    req             \* the requests in flight

vars == <<users, holder, req>>

-----------------------------------------------------------------------------
(* A row.  Ids are fresh uuids, so a deleted id never lives again.  Of      *)
(* session_version only its changes matter: one bit that flips.             *)

Row == [life : {"unborn", "live", "deleted"}, is_admin : BOOLEAN,
        enabled : BOOLEAN, session_version : 0..1]

Gone == [life |-> "deleted", is_admin |-> FALSE, enabled |-> FALSE, session_version |-> 0]

Unborn == [life |-> "unborn", is_admin |-> FALSE, enabled |-> FALSE, session_version |-> 0]

Live(db, u) == db[u].life = "live"

\* SELECT id FROM users WHERE is_admin AND enabled.
Admins(db) == {u \in Users : Live(db, u) /\ db[u].is_admin /\ db[u].enabled}

Request == [pc : {"idle", "authorized", "locking", "written"}, kind : Gains \cup Losses \cup {"none"},
            target : Users \cup {0}, prior : BOOLEAN, todo : SUBSET Users,
            admins : SUBSET Users, raised : BOOLEAN]

Idle == [pc |-> "idle", kind |-> "none", target |-> 0, prior |-> FALSE,
         todo |-> {}, admins |-> {}, raised |-> FALSE]

Init ==
    /\ users \in [Users -> {r \in Row : /\ r.life # "deleted"
                                        /\ r.session_version = 0
                                        /\ r.life = "unborn" => r = Unborn}]
    /\ Admins(users) # {}
    /\ holder = [u \in Users |-> NoOne]
    /\ req = [q \in Requests |-> Idle]

-----------------------------------------------------------------------------
\* InsertUser, from the dashboard (enabled, either role) or by SSO provisioning
\* (a member, disabled while accounts wait for an administrator's approval).
InsertUser(u, admin, on) ==
    /\ users[u].life = "unborn"
    /\ admin => on
    /\ users' = [users EXCEPT ![u] = [life |-> "live", is_admin |-> admin,
                                      enabled |-> on, session_version |-> 0]]
    /\ UNCHANGED <<holder, req>>

\* The flag a request of kind k is about; a row that exists, for a deletion.
Flag(k, row) == IF k \in {"promote", "demote"} THEN row.is_admin
                ELSE k = "delete" \/ row.enabled

\* The session of a is authenticated and found to be an administrator's, the
\* service refuses an administrator's request on their own account, and reads
\* the target's flag for the audit event it may record at the end.  When that
\* read fails the event is recorded, as if the flag were not as asked.
Authorize(q, a, k, t) ==
    /\ req[q].pc = "idle"
    /\ a \in Admins(users)
    /\ a # t
    /\ Live(users, t)
    /\ \E prior \in {Flag(k, users[t]), k \notin Gains} :
          req' = [req EXCEPT ![q] = [Idle EXCEPT !.pc = "authorized", !.kind = k,
                                                 !.target = t, !.prior = prior]]
    /\ UNCHANGED <<users, holder>>

\* Release every lock of q, when its statement commits or fails.
Released(q) == [u \in Users |-> IF holder[u] = q THEN NoOne ELSE holder[u]]

\* The statement takes its snapshot.  It finds no target and ends; or $2 is true
\* and the guard is satisfied without reading the admins CTE, which Postgres then
\* never runs; or the CTE starts locking.
Snapshot(q) ==
    /\ req[q].pc = "authorized"
    /\ IF ~Live(users, req[q].target)
       THEN req' = [req EXCEPT ![q] = Idle]
       ELSE req' = [req EXCEPT ![q].pc = "locking",
                               ![q].todo = IF req[q].kind \in Gains THEN {} ELSE Admins(users)]
    /\ UNCHANGED <<users, holder>>

\* Mutant: the CTE without FOR UPDATE, so what the snapshot saw counts.
LockUnchecked(q, u) ==
    /\ req[q].pc = "locking"
    /\ u \in req[q].todo /\ \A v \in req[q].todo : u <= v
    /\ req' = [req EXCEPT ![q].todo = req[q].todo \ {u}, ![q].admins = req[q].admins \cup {u}]
    /\ UNCHANGED <<users, holder>>

\* FOR UPDATE, ORDER BY id: wait for the row, lock its last version and keep it
\* in the result only if it still is an enabled administrator's.  A row that was
\* deleted meanwhile is skipped.
LockAdmin(q, u) ==
    /\ req[q].pc = "locking"
    /\ u \in req[q].todo /\ \A v \in req[q].todo : u <= v
    /\ holder[u] = NoOne
    /\ holder' = IF Live(users, u) THEN [holder EXCEPT ![u] = q] ELSE holder
    /\ req' = [req EXCEPT ![q].todo = req[q].todo \ {u},
                          ![q].admins = IF u \in Admins(users) THEN req[q].admins \cup {u}
                                                               ELSE req[q].admins]
    /\ UNCHANGED users

\* Mutant: COUNT(*) > 0 where the code has COUNT(*) > 1.
NotTheOnlyOne(q) == req[q].kind \in Gains \/ req[q].admins # {}

\* The WHERE clause: $2, or not an administrator, or not the last one.  The rows
\* it is about are locked, so evaluating it again on a newer version of the
\* target (EvalPlanQual) gives the same answer.
Guard(q) ==
    \/ req[q].kind \in Gains
    \/ req[q].target \notin req[q].admins
    \/ req[q].admins \ {req[q].target} # {}

\* Mutant: the version moves if the row read by the service had something to lose.
VersionByStaleRead(q, row, lost) ==
    IF req[q].prior /\ lost THEN 1 - row.session_version ELSE row.session_version

\* session_version + CASE WHEN <the flag before the update> AND NOT $2.
VersionAfter(q, row, lost) ==
    IF lost THEN 1 - row.session_version ELSE row.session_version

\* The row of the target after the statement, from its last version.
Written(q, row) ==
    CASE req[q].kind = "delete" -> Gone
      [] req[q].kind = "demote" ->
            [row EXCEPT !.is_admin = FALSE, !.session_version = VersionAfter(q, row, row.is_admin)]
      [] req[q].kind = "promote" -> [row EXCEPT !.is_admin = TRUE]
      [] req[q].kind = "disable" ->
            [row EXCEPT !.enabled = FALSE, !.session_version = VersionAfter(q, row, row.enabled)]
      [] req[q].kind = "enable" -> [row EXCEPT !.enabled = TRUE]

\* The statement writes its target and commits, or matches no row (the target is
\* gone, or is the last administrator) and the request is refused.
Write(q) ==
    LET t == req[q].target IN
    /\ req[q].pc = "locking" /\ req[q].todo = {}
    /\ holder[t] \in {NoOne, q}
    /\ IF Live(users, t) /\ Guard(q)
       THEN /\ users' = [users EXCEPT ![t] = Written(q, users[t])]
            /\ req' = [req EXCEPT ![q].pc = "written",
                                  ![q].raised = req[q].kind \in Gains /\ ~Flag(req[q].kind, users[t]),
                                  ![q].admins = {}]
       ELSE /\ req' = [req EXCEPT ![q] = Idle]
            /\ UNCHANGED users
    /\ holder' = Released(q)

\* The statement fails (connection lost, deadlock detected) and rolls back.
Fail(q) ==
    /\ req[q].pc = "locking"
    /\ req' = [req EXCEPT ![q] = Idle]
    /\ holder' = Released(q)
    /\ UNCHANGED users

\* Whether SetUserAdmin and SetUserEnabled record their event: not when the row
\* they read first already had the flag as asked.
Recorded(q) == req[q].prior # (req[q].kind \in Gains)

\* The event is recorded, or not, and the request answered.
Answer(q) ==
    /\ req[q].pc = "written"
    /\ req' = [req EXCEPT ![q] = Idle]
    /\ UNCHANGED <<users, holder>>

Next ==
    \/ \E u \in Users, admin, on \in BOOLEAN : InsertUser(u, admin, on)
    \/ \E q \in Requests :
        \/ \E a, t \in Users, k \in Kinds : Authorize(q, a, k, t)
        \/ Snapshot(q)
        \/ \E u \in Users : LockAdmin(q, u)
        \/ Write(q)
        \/ Fail(q)
        \/ Answer(q)

Spec == Init /\ [][Next]_vars

-----------------------------------------------------------------------------
\* Every variable has its type, and a row is locked only by a statement that runs:
\* locks end with it, whether it commits, matches no row or fails.
TypeOK ==
    /\ users \in [Users -> Row]
    /\ holder \in [Users -> Requests \cup {NoOne}]
    /\ req \in [Requests -> Request]
    /\ \A u \in Users : holder[u] # NoOne => req[holder[u]].pc = "locking"

\* The guard decides on facts that still hold: an administrator a statement
\* counts as remaining is locked by it and is still an enabled administrator,
\* whatever committed between the statement's snapshot and its write.
CountedAdminsRemain ==
    \A q \in Requests : \A u \in req[q].admins : holder[u] = q /\ u \in Admins(users)

\* There is an enabled administrator at all times: no order of concurrent
\* statements of DeleteUserByID, UpdateUserIsAdminByID and UpdateUserEnabledByID
\* takes the last one away.
SomeAdminEnabled == Admins(users) # {}

\* An account that loses its admin flag or its access gets another session
\* version in the same step, whatever the request had read before.
SessionsEndWithAccess ==
    [][\A u \in Users : /\ Live(users, u) /\ Live(users', u)
                        /\ \/ users[u].is_admin /\ ~users'[u].is_admin
                           \/ users[u].enabled /\ ~users'[u].enabled
                        => users'[u].session_version # users[u].session_version]_vars

\* A promotion or an approval that really gave an account a right it did not have
\* is recorded in the audit log by SetUserAdmin and SetUserEnabled.
EscalationRecorded ==
    \A q \in Requests : req[q].pc = "written" /\ req[q].raised => Recorded(q)
=============================================================================

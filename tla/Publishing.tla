----------------------------- MODULE Publishing -----------------------------
(***************************************************************************)
(* The update rows of one branch and runtime version in control-plane      *)
(* (Postgres) mode, and the requests that write them: publish, rollback,   *)
(* republish, and progressing or reverting a per-update rollout.           *)
(*                                                                         *)
(* Every SQL statement is one atomic step, evaluated against the rows it   *)
(* finds.  Between two statements of a request any other request may run,  *)
(* so whatever a request has read may be stale when it writes.  A request  *)
(* whose server dies is one that takes no further step.                    *)
(***************************************************************************)
EXTENDS Naturals, FiniteSets

CONSTANTS
    Platforms,      \* numbered in the order of their names (ORDER BY platform)
    Requests,       \* the HTTP requests, from whatever client and replica
    Percentages,    \* the percentages a rollout may be published at or moved to
    Contents,       \* what a bundle may contain
    Embedded,       \* the content of a rollback: the bundle inside the binary
    MaxNow          \* bound on the servers' millisecond clock

ASSUME PlatformsAssumption == Platforms \subseteq 1..9
ASSUME PercentagesAssumption == Percentages \subseteq 1..99
ASSUME EmbeddedAssumption == Embedded \notin Contents
ASSUME BoundsAssumption == MaxNow \in Nat

VARIABLES
    rows,           \* the updates table: id -> row
    now,            \* the servers' clock, in milliseconds
    clock,          \* the database's clock: CURRENT_TIMESTAMP
    req             \* the requests in flight

vars == <<rows, now, clock, req>>

-----------------------------------------------------------------------------
(* The updates table.  0 stands for SQL NULL in the nullable columns        *)
(* rollout_percentage, control_update_id and checked_at.                    *)

Row == [platform : Platforms, type : {"normal", "rollback"},
        percentage : 0..99, control : Nat,
        created : Nat, checked : Nat, content : Contents \cup {Embedded}]

CheckedOn(db, p) == {i \in DOMAIN db : db[i].platform = p /\ db[i].checked # 0}

\* "Active" is rollout_percentage IS NOT NULL AND checked_at IS NOT NULL.
Active(db, i) == db[i].percentage # 0 /\ db[i].checked # 0

\* HasActiveRolloutUpdate: any platform of the branch and runtime version.
HasActiveRolloutUpdate(db) == \E i \in DOMAIN db : Active(db, i)

\* GetActiveRolloutUpdates: the active rows, one per platform.
ActiveRolloutUpdates(db) == {i \in DOMAIN db : Active(db, i)}

\* i is the latest checked update of p (ORDER BY id DESC LIMIT 1), 0 when there
\* is none.  A relation, so that nothing has to be chosen.
IsLatestUpdate(db, p, i) ==
    \/ i = 0 /\ CheckedOn(db, p) = {}
    \/ i \in CheckedOn(db, p) /\ \A j \in CheckedOn(db, p) : j <= i

\* Mutant: newer is told by the id, as before updates raced their uploads.
StampAllowedById(db, i) ==
    IF db[i].percentage = 0
    THEN \A a \in CheckedOn(db, db[i].platform) : db[a].percentage = 0
    ELSE \A n \in CheckedOn(db, db[i].platform) \ {i} : n < i

\* The WHERE clause of MarkUpdateAsChecked: a plain update needs a platform
\* without an active rollout, a rollout needs that nothing else was checked
\* since its row was created.
StampAllowed(db, i) ==
    IF db[i].percentage = 0
    THEN \A a \in CheckedOn(db, db[i].platform) : db[a].percentage = 0
    ELSE \A n \in CheckedOn(db, db[i].platform) \ {i} : db[n].checked <= db[i].created

\* Mutant: no index, the WHERE clause alone.
NoUniqueIndex(db, i) == FALSE

\* The partial unique index uq_updates_active_rollout.
UniqueViolation(db, i) ==
    /\ db[i].percentage # 0
    /\ \E a \in CheckedOn(db, db[i].platform) \ {i} : Active(db, a)

\* Mutant: the monotonic guard is left to the service's earlier read.
RowsActive(db, pct) == ActiveRolloutUpdates(db)

\* SetUpdateRolloutPercentage touches the active rows below the new percentage,
\* ClearUpdateRollout every active row; both by branch and runtime version.
RowsBelow(db, pct) == {i \in ActiveRolloutUpdates(db) : db[i].percentage < pct}

SetPercentage(db, S, pct) ==
    [i \in DOMAIN db |-> IF i \in S THEN [db[i] EXCEPT !.percentage = pct] ELSE db[i]]

\* GenerateUpdateTimestamp: milliseconds, with the platform in the last digit.
GenerateUpdateTimestamp(ms, p) == 10 * ms + p

-----------------------------------------------------------------------------
(* Requests.  seen is what getActiveRolloutForMutation returned, todo those of  *)
(* them a revert still has to republish a control for.  cleared and made record *)
(* the rows a revert ended the rollout of and those it made visible; no action  *)
(* reads them.  A request keeps no more than it still needs.                    *)

Idle == [op |-> "none", pc |-> "idle", platform |-> 0, percentage |-> 0,
         content |-> Embedded, source |-> 0, id |-> 0,
         seen |-> {}, todo |-> {}, cleared |-> {}, made |-> {}]

Init ==
    /\ rows = [i \in {} |-> 0]
    /\ now = 1
    /\ clock = 1
    /\ req = [q \in Requests |-> Idle]

\* The request is answered with an error and its slot serves another one.  A
\* revert refused after its claim leaves the rows it has cleared as they are.
Refuse(q) == req' = [req EXCEPT ![q] = Idle]

\* The fail-fast guard all three publishing endpoints start with; next is the
\* request once it has passed.
Guarded(q, next) ==
    /\ req[q].pc = "idle"
    /\ IF HasActiveRolloutUpdate(rows)
       THEN Refuse(q)
       ELSE req' = [req EXCEPT ![q] = next]
    /\ UNCHANGED <<rows, now, clock>>

\* RequestUploadURLs up to its guard; pct = 0 is a publish to every device.
RequestUploadURLs(q, p, pct, c) ==
    Guarded(q, [Idle EXCEPT !.op = "publish", !.pc = "prepare", !.platform = p,
                            !.percentage = pct, !.content = c])

CreateRollback(q, p) ==
    Guarded(q, [Idle EXCEPT !.op = "rollback", !.pc = "prepare", !.platform = p])

RepublishUpdate(q, p, i) ==
    Guarded(q, [Idle EXCEPT !.op = "republish", !.pc = "prepare", !.platform = p,
                            !.source = i])

\* The request has its id.  The clock may not have moved since the last one was
\* handed out.
GenerateId(q) ==
    /\ now' \in {now, now + 1}
    /\ now' <= MaxNow
    /\ req' = [req EXCEPT ![q].pc = "insert",
                          ![q].id = GenerateUpdateTimestamp(now', req[q].platform)]

\* A rollback has no asset mapping to compare with.
IdenticalToLatest(q) ==
    \E i \in CheckedOn(rows, req[q].platform) :
        IsLatestUpdate(rows, req[q].platform, i) /\ rows[i].content = req[q].content

\* isIdenticalToLatest, which a store that cannot answer skips, then the id.
PreparePublish(q) ==
    /\ req[q].pc = "prepare" /\ req[q].op = "publish"
    /\ \/ GenerateId(q)
       \/ IdenticalToLatest(q) /\ Refuse(q) /\ UNCHANGED now
    /\ UNCHANGED <<rows, clock>>

\* createRollbackInternal
PrepareRollback(q) ==
    /\ req[q].pc = "prepare" /\ req[q].op = "rollback"
    /\ GenerateId(q)
    /\ UNCHANGED <<rows, clock>>

\* The checks of republishUpdateInternal on the update to copy.
Republishable(db, i, p) ==
    /\ i \in DOMAIN db
    /\ db[i].type = "normal" /\ db[i].checked # 0 /\ db[i].platform = p

PrepareRepublish(q) ==
    /\ req[q].pc = "prepare" /\ req[q].op = "republish"
    /\ IF Republishable(rows, req[q].source, req[q].platform)
       THEN GenerateId(q)
       ELSE Refuse(q) /\ UNCHANGED now
    /\ UNCHANGED <<rows, clock>>

\* revertSingleRolloutUpdate for the next row, in platform order: its control is
\* republished, or a rollback created when there is none or it is a rollback.
PrepareRevert(q) ==
    /\ req[q].pc = "prepare" /\ req[q].op = "revert"
    /\ \E r \in req[q].todo :
         LET c == rows[r].control
             p == rows[r].platform
             rollback == c = 0 \/ rows[c].type = "rollback"
         IN  /\ \A s \in req[q].todo : p <= rows[s].platform
             /\ IF rollback \/ Republishable(rows, c, p)
                THEN /\ now' \in {now, now + 1}
                     /\ now' <= MaxNow
                     /\ req' = [req EXCEPT ![q].pc = "insert",
                                           ![q].platform = p,
                                           ![q].source = IF rollback THEN 0 ELSE c,
                                           ![q].id = GenerateUpdateTimestamp(now', p)]
                ELSE Refuse(q) /\ UNCHANGED now
    /\ UNCHANGED <<rows, clock>>

\* Mutant: a republish copies nothing.
NothingCopied(q) == IF req[q].op = "publish" THEN req[q].content ELSE Embedded

\* What the new row carries: the uploaded bundle, the copied update's, or none.
NewContent(q) ==
    CASE req[q].op = "publish" -> req[q].content
      [] req[q].op # "publish" /\ req[q].source # 0 -> rows[req[q].source].content
      [] OTHER -> Embedded

\* InsertUpdate and InsertUpdateWithRollout.  The latter resolves the control in
\* the same statement.  The primary key refuses an id that is taken.
Insert(q) ==
    /\ req[q].pc = "insert"
    /\ IF req[q].id \in DOMAIN rows
       THEN Refuse(q) /\ UNCHANGED <<rows, clock>>
       ELSE /\ clock' = clock + 1
            /\ \E c \in DOMAIN rows \cup {0} :
                 /\ IsLatestUpdate(rows, req[q].platform, c)
                 /\ rows' = [i \in DOMAIN rows \cup {req[q].id} |->
                       IF i \in DOMAIN rows THEN rows[i]
                       ELSE [platform |-> req[q].platform,
                             type |-> IF NewContent(q) = Embedded THEN "rollback" ELSE "normal",
                             percentage |-> req[q].percentage,
                             control |-> IF req[q].percentage = 0 THEN 0 ELSE c,
                             created |-> clock', checked |-> 0,
                             content |-> NewContent(q)]]
            /\ req' = [req EXCEPT ![q].pc = IF req[q].op = "publish" THEN "uploading" ELSE "stamp",
                                  ![q].percentage = 0, ![q].content = Embedded, ![q].source = 0]
    /\ UNCHANGED now

\* The CLI has uploaded its files and calls markUpdateAsUploaded; the files are
\* complete (verified), or the publish is refused.
VerifyUploadedUpdate(q) ==
    /\ req[q].pc = "uploading"
    /\ \/ req' = [req EXCEPT ![q].pc = "stamp"]
       \/ Refuse(q)
    /\ UNCHANGED <<rows, now, clock>>

\* markUpdateAsUploaded got no answer: the CLI sends it again while the first
\* call, which a disconnect does not cancel, runs on in r.
Resend(q, r) ==
    /\ req[q].pc = "idle"
    /\ req[r].op = "publish" /\ req[r].pc \in {"uploading", "stamp"}
    /\ req' = [req EXCEPT ![q] = [req[r] EXCEPT !.pc = "uploading"]]
    /\ UNCHANGED <<rows, now, clock>>

\* Mutant: the first platform only.
NothingLeft(q) == {}

\* The rollouts a revert has not republished the control of yet.
LeftToRevert(q) == {r \in req[q].todo : rows[r].platform # rows[req[q].id].platform}

\* MarkUpdateAsChecked.  A revert goes on with its next row.
MarkUpdateAsChecked(q) ==
    LET i == req[q].id
        left == LeftToRevert(q)
    IN
    /\ req[q].pc = "stamp"
    /\ IF StampAllowed(rows, i) /\ ~UniqueViolation(rows, i)
       THEN /\ clock' = clock + 1
            /\ rows' = [rows EXCEPT ![i].checked = clock']
            /\ req' = [req EXCEPT ![q] = IF req[q].op # "revert" THEN Idle
                   ELSE [req[q] EXCEPT !.pc = IF left = {} THEN "done" ELSE "prepare",
                                       !.todo = left, !.made = req[q].made \cup {i}]]
       ELSE Refuse(q) /\ UNCHANGED <<rows, clock>>
    /\ UNCHANGED now

\* A revert that has succeeded is answered.
Answer(q) ==
    /\ req[q].pc = "done"
    /\ req' = [req EXCEPT ![q] = Idle]
    /\ UNCHANGED <<rows, now, clock>>

\* getActiveRolloutForMutation refuses: nothing is active, or not what the
\* caller saw.
StaleTab(pin) ==
    \/ ~HasActiveRolloutUpdate(rows)
    \/ pin # 0 /\ pin \notin ActiveRolloutUpdates(rows)

\* SetUpdateRolloutPercentage up to its write; 100 finishes the rollout.
ReadForProgress(q, pct, pin) ==
    /\ req[q].pc = "idle"
    /\ IF \/ StaleTab(pin)
          \/ pct # 100 /\ \E i \in ActiveRolloutUpdates(rows) : pct <= rows[i].percentage
       THEN Refuse(q)
       ELSE req' = [req EXCEPT ![q] = [Idle EXCEPT !.op = "progress", !.pc = "write",
                        !.percentage = pct, !.seen = ActiveRolloutUpdates(rows)]]
    /\ UNCHANGED <<rows, now, clock>>

\* RevertUpdateRollout up to its claim.
ReadForRevert(q, pin) ==
    /\ req[q].pc = "idle"
    /\ IF StaleTab(pin)
       THEN Refuse(q)
       ELSE req' = [req EXCEPT ![q] = [Idle EXCEPT !.op = "revert", !.pc = "write",
                        !.seen = ActiveRolloutUpdates(rows)]]
    /\ UNCHANGED <<rows, now, clock>>

\* The write of SetUpdateRolloutPercentage below 100; 0 rows is a conflict.
ProgressRollout(q) ==
    /\ req[q].pc = "write" /\ req[q].op = "progress" /\ req[q].percentage # 100
    /\ LET S == RowsBelow(rows, req[q].percentage)
       IN  IF S = {}
           THEN Refuse(q) /\ UNCHANGED rows
           ELSE /\ rows' = SetPercentage(rows, S, req[q].percentage)
                /\ req' = [req EXCEPT ![q] = Idle]
    /\ UNCHANGED <<now, clock>>

\* ClearUpdateRollout, of a finish (100 percent) or of a revert, whose claim on
\* the rollout it is.  The revert then works through the rows it has READ.
ClearUpdateRollout(q) ==
    /\ req[q].pc = "write"
    /\ req[q].op = "revert" \/ req[q].percentage = 100
    /\ LET S == ActiveRolloutUpdates(rows)
       IN  IF S = {}
           THEN Refuse(q) /\ UNCHANGED rows
           ELSE /\ rows' = SetPercentage(rows, S, 0)
                /\ req' = [req EXCEPT ![q] = IF req[q].op = "revert"
                               THEN [req[q] EXCEPT !.pc = "prepare", !.todo = req[q].seen, !.cleared = S]
                               ELSE Idle]
    /\ UNCHANGED <<now, clock>>

Next ==
    \E q \in Requests :
        \/ \E p \in Platforms, pct \in Percentages \cup {0}, c \in Contents :
              RequestUploadURLs(q, p, pct, c)
        \/ \E p \in Platforms : CreateRollback(q, p)
        \/ \E p \in Platforms, i \in DOMAIN rows : RepublishUpdate(q, p, i)
        \/ \E pct \in Percentages \cup {100}, pin \in DOMAIN rows \cup {0} :
              ReadForProgress(q, pct, pin)
        \/ \E pin \in DOMAIN rows \cup {0} : ReadForRevert(q, pin)
        \/ PreparePublish(q) \/ PrepareRollback(q) \/ PrepareRepublish(q)
        \/ PrepareRevert(q)
        \/ Insert(q) \/ VerifyUploadedUpdate(q) \/ MarkUpdateAsChecked(q)
        \/ Answer(q)
        \/ \E r \in Requests : Resend(q, r)
        \/ ProgressRollout(q) \/ ClearUpdateRollout(q)

Spec == Init /\ [][Next]_vars
-----------------------------------------------------------------------------
(* Correctness                                                              *)

RequestRecord(db) ==
    [op : {"none", "publish", "rollback", "republish", "progress", "revert"},
     pc : {"idle", "prepare", "insert", "uploading", "stamp", "write", "done"},
     platform : Platforms \cup {0}, percentage : 0..100,
     content : Contents \cup {Embedded}, source : Nat, id : Nat,
     seen : SUBSET DOMAIN db, todo : SUBSET DOMAIN db,
     cleared : SUBSET DOMAIN db, made : SUBSET DOMAIN db]

\* Every variable stays in its type; the columns keep the CHECK constraints of
\* the progressive rollouts migration.
TypeOK ==
    /\ DOMAIN rows \subseteq Nat \ {0}
    /\ rows \in [DOMAIN rows -> Row]
    /\ now \in Nat
    /\ clock \in Nat
    /\ req \in [Requests -> RequestRecord(rows)]

\* At most one rollout is active per platform of a branch and runtime version,
\* whatever publishes, retries and reverts run at once (uq_updates_active_rollout).
OneActiveRollout ==
    \A i, j \in ActiveRolloutUpdates(rows) :
        rows[i].platform = rows[j].platform => i = j

\* The devices left out of an active rollout are given the newest update there
\* is besides it: no update that reached the checked state between the upload of
\* the rollout and its activation is served to nobody (MarkUpdateAsChecked).
NoUpdateSkipped ==
    \A r \in ActiveRolloutUpdates(rows) :
        LET others == CheckedOn(rows, rows[r].platform) \ {r}
        IN  \/ rows[r].control = 0 /\ others = {}
            \/ /\ rows[r].control \in others
               /\ \A j \in others : j <= rows[r].control

\* A revert that reports success has put, above every rollout it read, a visible
\* update with the content of that rollout's control, or a rollback when there
\* was none (RevertUpdateRollout).
RevertRestores ==
    \A q \in Requests :
        req[q].op = "revert" /\ req[q].pc = "done" =>
            \A r \in req[q].seen : \E i \in req[q].made :
                /\ i > r /\ rows[i].platform = rows[r].platform /\ rows[i].checked # 0
                /\ rows[i].content = IF rows[r].control = 0 THEN Embedded
                                     ELSE rows[rows[r].control].content

\* A step never lowers the percentage of a rollout that stays active, whichever
\* of two concurrent progressions writes last (SetUpdateRolloutPercentage).
PercentageOnlyIncreases ==
    [][\A i \in ActiveRolloutUpdates(rows) :
          rows'[i].percentage # 0 => rows'[i].percentage >= rows[i].percentage]_vars

\* The exposure left by MarkUpdateAsChecked is said to be statements that
\* overlap.  Statements here never do, so an active rollout should always be
\* what the branch serves.
ActiveRolloutIsServed ==
    \A r \in ActiveRolloutUpdates(rows) : IsLatestUpdate(rows, rows[r].platform, r)

\* RevertUpdateRollout clears first as an atomic claim, so that a revert that
\* lost the race for a rollout publishes nothing in its place.
RevertPublishesOnlyItsClaim ==
    \A q \in Requests :
        req[q].op = "revert" =>
            \A r \in req[q].seen, i \in req[q].made :
                rows[i].platform = rows[r].platform => r \in req[q].cleared
=============================================================================

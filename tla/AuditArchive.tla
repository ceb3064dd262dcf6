---------------------------- MODULE AuditArchive ----------------------------
(***************************************************************************)
(* The audit log, its archive and its retention purge.  Requests record    *)
(* events with autocommitted inserts: the server stamps occurred_at when   *)
(* the statement starts, draws the BIGSERIAL id when it executes, and the  *)
(* row becomes visible when it commits.  Replicas export batches of rows   *)
(* to an object store and move a cursor past them; the purge deletes what  *)
(* is both expired and behind the cursor.  Time is a tick, and a row is as *)
(* old as the ticks since its stamp.                                       *)
(***************************************************************************)
EXTENDS Integers, FiniteSets, FiniteSetsExt

CONSTANTS
    Recorders,      \* requests recording an event at the same time
    Replicas,       \* servers running the exporter and the purge
    RecordTimeout,  \* recordTimeout: an insert is over so many ticks after its stamp
    Lag,            \* the visibility lag of the exporter's read
    BatchSize,      \* exportBatchSize
    Retention,      \* age at which the purge deletes a row
    InOrder,        \* whether ids are drawn in the order of the stamps
    MaxEvents,      \* bound on the events
    MaxExportFaults \* bound on the faults that interrupt an export

ASSUME ArchiveAssumption ==
    /\ RecordTimeout \in Nat /\ Lag \in Nat /\ Retention \in Nat
    /\ BatchSize \in Nat \ {0} /\ InOrder \in BOOLEAN

VARIABLES
    inserts,        \* the insert of each recorder
    auditSeq,       \* last id drawn from the sequence
    auditLog,       \* audit_log_events
    committed,      \* the ids of every row that was ever visible
    exportCursor,   \* audit_export_state.last_exported_id
    files,          \* the archive: what each file holds
    exportLock,     \* the replica whose session holds AuditExportLockID
    exporter,       \* the exporter of each replica
    exportFaults    \* faults so far

auditVars == <<inserts, auditSeq, auditLog, committed, exportCursor, files,
               exportLock, exporter, exportFaults>>

-----------------------------------------------------------------------------
Nobody == "nobody"
NoInsert == [pc |-> "idle", age |-> 0, id |-> 0]
NoExport == [pc |-> "idle", cursor |-> 0, batch |-> {}]

OldEnough == Max({Lag, Retention}) + 1      \* older than that makes no difference
Ids(rows) == {e.id : e \in rows}

\* What the archive holds.
Archived == UNION {f.ids : f \in files}

AuditInit ==
    /\ inserts = [w \in Recorders |-> NoInsert]
    /\ auditSeq = 0
    /\ auditLog = {}
    /\ committed = {}
    /\ exportCursor = 0
    /\ files = {}
    /\ exportLock = Nobody
    /\ exporter = [r \in Replicas |-> NoExport]
    /\ exportFaults = 0

-----------------------------------------------------------------------------
(* Recording.                                                              *)

\* Record, while events are collected: the insert starts and is stamped.
Record(w) ==
    /\ inserts[w].pc = "idle"
    /\ auditSeq + Cardinality({v \in Recorders : inserts[v].pc = "stamped"}) < MaxEvents
    /\ inserts' = [inserts EXCEPT ![w] = [NoInsert EXCEPT !.pc = "stamped"]]
    /\ UNCHANGED <<auditSeq, auditLog, committed, exportCursor, files, exportLock, exporter, exportFaults>>

\* It executes and draws its id.
DrawId(w) ==
    /\ inserts[w].pc = "stamped"
    /\ InOrder => \A v \in Recorders : inserts[v].pc = "stamped" => inserts[v].age <= inserts[w].age
    /\ auditSeq' = auditSeq + 1
    /\ inserts' = [inserts EXCEPT ![w].pc = "numbered", ![w].id = auditSeq + 1]
    /\ UNCHANGED <<auditLog, committed, exportCursor, files, exportLock, exporter, exportFaults>>

\* It commits.
Insert(w) ==
    /\ inserts[w].pc = "numbered"
    /\ auditLog' = auditLog \cup {[id |-> inserts[w].id, age |-> inserts[w].age]}
    /\ committed' = committed \cup {inserts[w].id}
    /\ inserts' = [inserts EXCEPT ![w] = NoInsert]
    /\ UNCHANGED <<auditSeq, exportCursor, files, exportLock, exporter, exportFaults>>

\* It fails or times out: logged and dropped, the id is lost.
InsertFails(w) ==
    /\ inserts[w].pc = "numbered"
    /\ inserts' = [inserts EXCEPT ![w] = NoInsert]
    /\ UNCHANGED <<auditSeq, auditLog, committed, exportCursor, files, exportLock, exporter, exportFaults>>

-----------------------------------------------------------------------------
(* Exporting: runArchive, one archiveNextBatch after the other.            *)

\* Rows after the cursor, old enough to have no uncommitted predecessor.
ListAuditLogEventsAfter(after) == {e \in auditLog : e.id > after /\ e.age > Lag}

\* The first of them, by id.
ListAfter(after) ==
    LET rows == ListAuditLogEventsAfter(after)
    IN {e \in rows : Cardinality({d \in rows : d.id < e.id}) < BatchSize}

ExporterBecomes(r, x) == exporter' = [exporter EXCEPT ![r] = x]

\* Mutant: the lock is not released.
LockKept(r) == ExporterBecomes(r, NoExport) /\ UNCHANGED exportLock

\* The tick ends: the deferred release unlocks, unless the session is gone already.
Release(r) ==
    /\ ExporterBecomes(r, NoExport)
    /\ exportLock' = IF exportLock = r THEN Nobody ELSE exportLock

Faulty == exportFaults < MaxExportFaults /\ exportFaults' = exportFaults + 1

\* TryAdvisoryLock elects this replica; the others skip their tick.
TryExportLock(r) ==
    /\ exporter[r].pc = "idle"
    /\ exportLock = Nobody
    /\ exportLock' = r
    /\ ExporterBecomes(r, [NoExport EXCEPT !.pc = "cursor"])
    /\ UNCHANGED <<inserts, auditSeq, auditLog, committed, exportCursor, files, exportFaults>>

\* The connection that holds the lock breaks; the export goes on unlocked.
LoseLock ==
    /\ exportLock # Nobody /\ Faulty
    /\ exportLock' = Nobody
    /\ UNCHANGED <<inserts, auditSeq, auditLog, committed, exportCursor, files, exporter>>

\* archiveNextBatch reads the cursor.
ReadCursor(r) ==
    /\ exporter[r].pc = "cursor"
    /\ ExporterBecomes(r, [exporter[r] EXCEPT !.pc = "list", !.cursor = exportCursor])
    /\ UNCHANGED <<inserts, auditSeq, auditLog, committed, exportCursor, files, exportLock, exportFaults>>

\* It lists a batch; nothing to export ends the tick.
ListBatch(r) ==
    LET batch == ListAfter(exporter[r].cursor) IN
    /\ exporter[r].pc = "list"
    /\ IF batch = {}
       THEN Release(r)
       ELSE /\ ExporterBecomes(r, [exporter[r] EXCEPT !.pc = "put", !.batch = batch])
            /\ UNCHANGED exportLock
    /\ UNCHANGED <<inserts, auditSeq, auditLog, committed, exportCursor, files, exportFaults>>

\* The file is named after its first and last id, and replaces one of that name.
PutBatch(r) ==
    LET ids == Ids(exporter[r].batch)
        file == [first |-> Min(ids), last |-> Max(ids), ids |-> ids]
    IN /\ exporter[r].pc = "put"
       /\ files' = {f \in files : f.first # file.first \/ f.last # file.last} \cup {file}
       /\ ExporterBecomes(r, [exporter[r] EXCEPT !.pc = "advance"])
       /\ UNCHANGED <<inserts, auditSeq, auditLog, committed, exportCursor, exportLock, exportFaults>>

\* UPDATE ... WHERE last_exported_id = from.
AdvanceAuditExportCursor(from, to) == IF exportCursor = from THEN to ELSE exportCursor

\* The cursor moves past the batch.  A full batch means more may be waiting; a cursor
\* another replica moved ends the tick.
AdvanceExportCursor(r) ==
    LET x == exporter[r]
        advanced == exportCursor = x.cursor
    IN /\ x.pc = "advance"
       /\ exportCursor' = AdvanceAuditExportCursor(x.cursor, Max(Ids(x.batch)))
       /\ IF advanced /\ Cardinality(x.batch) = BatchSize
          THEN ExporterBecomes(r, [NoExport EXCEPT !.pc = "cursor"]) /\ UNCHANGED exportLock
          ELSE Release(r)
       /\ UNCHANGED <<inserts, auditSeq, auditLog, committed, files, exportFaults>>

\* A statement or the upload fails, the five minutes are up, or the process dies: the
\* tick ends where it is.
AbandonExport(r) ==
    /\ exporter[r].pc # "idle" /\ Faulty
    /\ Release(r)
    /\ UNCHANGED <<inserts, auditSeq, auditLog, committed, exportCursor, files>>

-----------------------------------------------------------------------------
(* Retention.                                                              *)

\* Mutant: the purge of a deployment that archives nothing.
PurgeAuditLogEventsBefore == {e \in auditLog : e.age > Retention}

\* Expired rows the exporter has passed.
PurgeExportedAuditLogEventsBefore ==
    {e \in auditLog : e.age > Retention /\ e.id <= exportCursor}

\* runPurge, on any replica, with archiving enabled.
PurgeOlderThan ==
    /\ PurgeExportedAuditLogEventsBefore # {}
    /\ auditLog' = auditLog \ PurgeExportedAuditLogEventsBefore
    /\ UNCHANGED <<inserts, auditSeq, committed, exportCursor, files, exportLock, exporter, exportFaults>>

\* Time passes, as long as no insert is at the end of the time it may take.
AuditTick ==
    /\ \A w \in Recorders : inserts[w].pc # "idle" => inserts[w].age < RecordTimeout
    /\ inserts' = [w \in Recorders |-> IF inserts[w].pc = "idle" THEN inserts[w]
                                       ELSE [inserts[w] EXCEPT !.age = @ + 1]]
    /\ auditLog' = {[e EXCEPT !.age = Min({e.age + 1, OldEnough})] : e \in auditLog}
    /\ UNCHANGED <<auditSeq, committed, exportCursor, files, exportLock, exporter, exportFaults>>

ExportStep(r) ==
    TryExportLock(r) \/ ReadCursor(r) \/ ListBatch(r) \/ PutBatch(r) \/ AdvanceExportCursor(r)

AuditNext ==
    \/ \E w \in Recorders : Record(w) \/ DrawId(w) \/ Insert(w) \/ InsertFails(w)
    \/ \E r \in Replicas : ExportStep(r) \/ AbandonExport(r)
    \/ LoseLock \/ PurgeOlderThan \/ AuditTick

\* Inserts end, and the tickers fire as long as a replica lives.
AuditFairness ==
    /\ WF_auditVars(AuditTick)
    /\ \A w \in Recorders : WF_auditVars(DrawId(w) \/ Insert(w) \/ InsertFails(w))
    /\ \A r \in Replicas : WF_auditVars(ExportStep(r))

AuditSpec == AuditInit /\ [][AuditNext]_auditVars /\ AuditFairness

-----------------------------------------------------------------------------
AuditTypeOK ==
    /\ inserts \in [Recorders -> [pc : {"idle", "stamped", "numbered"},
                                  age : 0..RecordTimeout, id : 0..MaxEvents]]
    /\ auditSeq \in 0..MaxEvents
    /\ auditLog \subseteq [id : committed, age : 0..OldEnough]
    /\ committed \subseteq 1..auditSeq
    /\ exportCursor \in 0..auditSeq
    /\ \A f \in files : f.ids \subseteq committed /\ f.first = Min(f.ids) /\ f.last = Max(f.ids)
    /\ exportLock \in Replicas \cup {Nobody}
    /\ \A r \in Replicas : /\ exporter[r].pc \in {"idle", "cursor", "list", "put", "advance"}
                           /\ exporter[r].cursor \in 0..exportCursor
                           /\ Ids(exporter[r].batch) \subseteq committed

\* No recorded event is lost to the archive: the cursor never passes a row, committed
\* or still to commit, that no file holds (the visibility lag of
\* ListAuditLogEventsAfter, the order of Put and AdvanceExportCursor, the comparison in
\* AdvanceAuditExportCursor).
NoEventSkipped ==
    /\ \A id \in committed : id <= exportCursor => id \in Archived
    /\ \A w \in Recorders : inserts[w].pc = "numbered" => inserts[w].id > exportCursor

\* "Purged rows live on in the archive" (PurgeExportedAuditLogEventsBefore): what the
\* retention purge removed is in some file.
PurgedRowsArchived == committed \ Ids(auditLog) \subseteq Archived

Trail == INSTANCE ArchivedLog WITH
    recorded <- committed,
    archived <- Archived,
    purged <- committed \ Ids(auditLog)

\* The table, its exporters and its purge implement an archived log: a file another
\* replica rewrites under the same name never drops an event, and the table gives up
\* only what a file holds.
ImplementsArchivedLog == Trail!LogSpec

\* An exporter that lost its lock and runs late never moves the cursor back, and so
\* never makes the purge keep, or the next batch repeat, what is exported.
CursorNeverMovesBack == [][exportCursor' >= exportCursor]_auditVars

\* Every event that was recorded reaches the archive, whatever crashes, lost locks and
\* failed uploads interrupt the exports (the cursor stays put until a file is written,
\* and the next tick resumes from it).
EventsAreArchived == \A id \in 1..MaxEvents : id \in committed ~> id \in Archived
=============================================================================

-------------------------- MODULE SourcemapIndexes --------------------------
(***************************************************************************)
(* The indexes of source maps and the error groups made with them.  A      *)
(* publish queues one index job per update; the job writes the index of    *)
(* the update's map, which updates of the same map share, and keeps the    *)
(* record the dashboard reads.  A sweep opens the indexes to group the     *)
(* errors devices reported, and an index it finds unusable is built again. *)
(* StackTraces models what an index and a group contain.                   *)
(***************************************************************************)
EXTENDS Naturals, Sequences, FiniteSets, SequencesExt

CONSTANTS
    PublishedUpdates,   \* updates devices report errors of
    MapHashes,          \* hashes of source maps
    HashOf,             \* the map of an update, or "nomap" or "unknown" (no such update)
    ErrorIds,           \* the errors, 1..n: the order of their fingerprints
    UpdateOf,           \* the update an error is counted under
    IndexAttempts,      \* MaxAttempts of the index job
    IndexCacheSize,     \* indexes that fit in maxIndexCacheBytes
    PerSweep,           \* errorGroupsPerSweep
    WriteEvery,         \* errorGroupsWriteEvery
    MaxCount,           \* bound on the occurrences of one error
    MaxPublishes,       \* bound on the publishes of one update
    MaxTrouble          \* bound on failures, crashes and losses

ASSUME SourcemapAssumption ==
    /\ HashOf \in [PublishedUpdates -> MapHashes \cup {"nomap", "unknown"}]
    /\ ErrorIds \subseteq Nat /\ UpdateOf \in [ErrorIds -> PublishedUpdates]
    /\ {IndexAttempts, IndexCacheSize, PerSweep, WriteEvery} \subseteq Nat \ {0}
    /\ {MaxCount, MaxPublishes, MaxTrouble} \subseteq Nat

VARIABLES
    mapFile,        \* the maps in the store
    indexFile,      \* the indexes in the store
    indexRecord,    \* the rows of sourcemap_indexes
    indexJob,       \* the index jobs that are alive
    publishes,      \* how often each update was published
    scheduling,     \* the updates whose job is recorded and not yet queued
    entitled,        \* licensing.IsEnterprise
    opened,         \* indexCache.order: the maps whose index is in memory
    occurrences,    \* error_occurrences, summed
    errorGroup,     \* error_groups
    sweep,          \* the pass of ErrorGroupsSweep
    trouble,        \* failures, crashes and losses so far
    spoilt,         \* updates whose index was lost after it was last found good
    loose           \* updates whose record a failure left without a job

sourcemapVars == <<mapFile, indexFile, indexRecord, indexJob, publishes, scheduling, entitled,
                   opened, occurrences, errorGroup, sweep, trouble, spoilt, loose>>

jobVars == <<indexFile, indexRecord, indexJob, spoilt, loose>>
sweepVars == <<opened, errorGroup, sweep>>

Mapped == {u \in PublishedUpdates : HashOf[u] \in MapHashes}

-----------------------------------------------------------------------------
(* The record, and the queue.                                               *)

NoRecord == [status |-> "none", attempts |-> 0, segments |-> FALSE]

\* UpsertSourcemapIndex: an existing row is reset.
UpsertSourcemapIndex(db, u, status, attempts) ==
    [db EXCEPT ![u] = [status |-> status, attempts |-> attempts, segments |-> FALSE]]

\* MarkPending: a job about to be queued.
MarkPending(db, u) == UpsertSourcemapIndex(db, u, "pending", 0)

\* FinishSourcemapIndex changes the row there is.
FinishSourcemapIndex(row, status) == [row EXCEPT !.status = status, !.segments = (status = "stored")]

\* Finish, which is an error when there is no row.
Finished(db, u, status) ==
    IF db[u] = NoRecord THEN db ELSE [db EXCEPT ![u] = FinishSourcemapIndex(db[u], status)]

\* The map of an update and its row, joined: by the id of the update on its
\* branch, or by the UUID devices report.
SourcemapRow(u) == [hash |-> HashOf[u], index |-> indexRecord[u]]
SourcemapRowByUUID(u) == [hash |-> HashOf[u], status |-> indexRecord[u].status]

\* GetUpdateSourcemap and GetUpdateSourcemapByUUID: a row counts only beside a map.
GetUpdateSourcemap(u) ==
    LET row == SourcemapRow(u) IN
    [hash |-> row.hash, index |-> IF row.hash \in MapHashes THEN row.index ELSE NoRecord]

GetUpdateSourcemapByUUID(u) ==
    LET row == SourcemapRowByUUID(u) IN
    [hash |-> row.hash, status |-> IF row.hash \in MapHashes THEN row.status ELSE "none"]

NoJob == [pc |-> "none", attempt |-> 0, rebuild |-> FALSE, outcome |-> "none"]
Alive(u) == indexJob[u].pc # "none"

\* Enqueue: one job of an update is alive at a time.
Queued(u, rebuild) ==
    IF Alive(u) THEN indexJob
    ELSE [indexJob EXCEPT ![u] = [NoJob EXCEPT !.pc = "waiting", !.rebuild = rebuild]]

\* A statement, a read of the store or an insert of a job fails.
Fails == trouble < MaxTrouble /\ trouble' = trouble + 1
Works == UNCHANGED trouble

\* scheduleIndex of a publish, first half: nothing happens while indexing is
\* unavailable; a failed MarkPending ends it, which the publish only logs.
\* The same update can be published again by a client that lost the answer.
ScheduleIndex(u) ==
    /\ u \in Mapped /\ publishes[u] < MaxPublishes /\ u \notin scheduling
    /\ publishes' = [publishes EXCEPT ![u] = @ + 1]
    /\ \/ ~entitled /\ Works /\ UNCHANGED <<indexRecord, scheduling>>
       \/ entitled /\ Fails /\ UNCHANGED <<indexRecord, scheduling>>
       \/ /\ entitled /\ Works
          /\ indexRecord' = MarkPending(indexRecord, u)
          /\ scheduling' = scheduling \cup {u}
    /\ UNCHANGED <<mapFile, indexFile, indexJob, entitled, occurrences, spoilt, loose, sweepVars>>

\* Second half: the job is queued, unless one is alive, with which a publish is
\* content.  One that has already written its last record settles nothing.
EnqueueIndex(u) ==
    /\ u \in scheduling
    /\ scheduling' = scheduling \ {u}
    /\ \/ /\ Works
          /\ indexJob' = Queued(u, FALSE)
          /\ loose' = IF indexJob[u].pc = "done" THEN loose \cup {u} ELSE loose \ {u}
       \/ Fails /\ loose' = loose \cup {u} /\ UNCHANGED indexJob
    /\ UNCHANGED <<mapFile, indexFile, indexRecord, publishes, entitled, occurrences, spoilt, sweepVars>>

\* Service.GetUpdateSourcemap: the update was published with a map.
HasSourcemap(u) == entitled /\ publishes[u] > 0 /\ GetUpdateSourcemap(u).hash \in MapHashes

\* Reindex: a rebuild is queued unless a job is alive; the record is left to the
\* worker.
Reindex(u) ==
    /\ HasSourcemap(u) /\ ~Alive(u)
    /\ trouble < MaxTrouble /\ trouble' = trouble + 1
    /\ indexJob' = Queued(u, TRUE)
    /\ UNCHANGED <<mapFile, indexFile, indexRecord, publishes, scheduling, entitled, occurrences,
                   spoilt, loose, sweepVars>>

-----------------------------------------------------------------------------
(* The index job.                                                           *)

\* runIndexJob, an attempt begins: MarkRunning, whose failure is only logged.
MarkRunning(u) ==
    /\ indexJob[u].pc = "waiting"
    /\ indexJob' = [indexJob EXCEPT ![u].pc = "build", ![u].attempt = @ + 1]
    /\ \/ Works /\ indexRecord' = UpsertSourcemapIndex(indexRecord, u, "running", indexJob'[u].attempt)
       \/ Fails /\ UNCHANGED indexRecord
    /\ UNCHANGED <<mapFile, indexFile, publishes, scheduling, entitled, occurrences, spoilt, loose, sweepVars>>

\* existingIndex: an index of another update of the map, in a supported format.
ExistingIndex(h) == indexFile[h] = "good"

\* buildIndex, as far as the store decides it: what retrying cannot fix cancels
\* the job.
Outcome(u) ==
    CASE ~entitled -> "cancelled"
      [] entitled /\ ~indexJob[u].rebuild /\ ExistingIndex(HashOf[u]) -> "stored"
      [] OTHER -> IF mapFile[HashOf[u]] = "good" THEN "built" ELSE "cancelled"

\* buildIndex: PutIndex when an index was built, or an error to retry.
BuildIndex(u) ==
    LET end == Outcome(u) IN
    /\ indexJob[u].pc = "build"
    /\ \/ /\ Works
          /\ indexFile' = IF end = "built" THEN [indexFile EXCEPT ![HashOf[u]] = "good"] ELSE indexFile
          /\ indexJob' = [indexJob EXCEPT ![u].pc = "finish",
                                          ![u].outcome = IF end = "built" THEN "stored" ELSE end]
          /\ spoilt' = CASE end = "built" -> {v \in spoilt : HashOf[v] # HashOf[u]}
                         [] end = "stored" -> spoilt \ {u}
                         [] OTHER -> spoilt
       \/ /\ Fails
          /\ indexJob' = [indexJob EXCEPT ![u].pc = "finish", ![u].outcome = "error"]
          /\ UNCHANGED <<indexFile, spoilt>>
    /\ UNCHANGED <<mapFile, indexRecord, publishes, scheduling, entitled, occurrences, loose, sweepVars>>

\* Mutant: a failed attempt always waits for the next one.
AlwaysPending(job) == IF job.outcome = "error" THEN "pending" ELSE job.outcome

\* The status a finished attempt records: an error River will retry waits.
FinalStatus(job) ==
    CASE job.outcome # "error" -> job.outcome
      [] job.attempt >= IndexAttempts -> "failed"
      [] OTHER -> "pending"

\* Finish: a stored index whose record cannot be written, or has no row, is an
\* error of the job; the failure of another record is only logged.
FinishRecord(u) ==
    LET job == indexJob[u] IN
    /\ job.pc = "finish"
    /\ \/ /\ Works
          /\ indexRecord' = Finished(indexRecord, u, FinalStatus(job))
          /\ indexJob' = [indexJob EXCEPT ![u].pc = "done",
                            ![u].outcome = IF indexRecord[u] = NoRecord /\ @ = "stored" THEN "error" ELSE @]
          /\ loose' = loose \ {u}
       \/ /\ Fails
          /\ indexJob' = [indexJob EXCEPT ![u].pc = "done", ![u].outcome = IF @ = "stored" THEN "error" ELSE @]
          /\ loose' = loose \cup {u}
          /\ UNCHANGED indexRecord
    /\ UNCHANGED <<mapFile, indexFile, publishes, scheduling, entitled, occurrences, spoilt, sweepVars>>

\* The job with its attempt over: River runs a failed one again, up to its limit.
AfterAttempt(job) ==
    IF job.outcome = "error" /\ job.attempt < IndexAttempts
    THEN [job EXCEPT !.pc = "waiting", !.outcome = "none"] ELSE NoJob

\* River records how the attempt ended.
EndAttempt(u) ==
    /\ indexJob[u].pc = "done"
    /\ indexJob' = [indexJob EXCEPT ![u] = AfterAttempt(@)]
    /\ UNCHANGED <<mapFile, indexFile, indexRecord, publishes, scheduling, entitled, occurrences,
                   trouble, spoilt, loose, sweepVars>>

\* The server dies, and River rescues the jobs it was running; its cache is empty.
Die ==
    LET running == {u \in PublishedUpdates : indexJob[u].pc \in {"build", "finish", "done"}} IN
    /\ Fails
    /\ \A u \in PublishedUpdates : u \notin scheduling
    /\ indexJob' = [u \in PublishedUpdates |->
                        IF u \in running THEN AfterAttempt([indexJob[u] EXCEPT !.outcome = "error"])
                        ELSE indexJob[u]]
    /\ loose' = loose \cup {u \in running : indexJob'[u] = NoJob}
    /\ opened' = <<>>
    /\ sweep' = [sweep EXCEPT !.pc = "idle", !.exhausted = FALSE]
    /\ UNCHANGED <<mapFile, indexFile, indexRecord, publishes, scheduling, entitled, occurrences,
                   errorGroup, spoilt>>

\* An index leaves the store, or a new server writes another format.
SpoilIndex(h) ==
    /\ indexFile[h] = "good" /\ Fails
    /\ \E left \in {"none", "old"} : indexFile' = [indexFile EXCEPT ![h] = left]
    /\ spoilt' = spoilt \cup {u \in PublishedUpdates : HashOf[u] = h}
    /\ UNCHANGED <<mapFile, indexRecord, indexJob, publishes, scheduling, entitled, occurrences, loose, sweepVars>>

\* The licence lapses, or is renewed.
Relicense ==
    /\ entitled' = ~entitled
    /\ IF entitled THEN Fails ELSE Works
    /\ UNCHANGED <<mapFile, jobVars, publishes, scheduling, occurrences, sweepVars>>

-----------------------------------------------------------------------------
(* Opening an index.                                                        *)

\* storedUpdateSourcemap: what the map and the row of an update allow.
StoredUpdateSourcemap(u) ==
    LET sourcemap == GetUpdateSourcemapByUUID(u) IN
    CASE sourcemap.hash \notin MapHashes -> sourcemap.hash
      [] sourcemap.hash \in MapHashes /\ sourcemap.status = "stored" -> "stored"
      [] sourcemap.hash \in MapHashes /\ sourcemap.status \in {"failed", "cancelled"} -> "failed"
      [] OTHER -> "notready"

\* indexCache.put and touch: the map becomes the most recently used one, and the
\* least recently used ones leave.
Touched(h) ==
    LET order == Append(SelectSeq(opened, LAMBDA x : x # h), h) IN
    IF Len(order) > IndexCacheSize THEN Tail(order) ELSE order

\* repairIndex: a rebuild is queued, unless a job is alive.
RepairIndex(u) == indexJob' = Queued(u, TRUE)

\* OpenUpdateIndex: from memory, or from the store; an index that is gone or of
\* another format is repaired.
OpenUpdateIndex(u, answer) ==
    LET state == StoredUpdateSourcemap(u)
        h == HashOf[u]
    IN \/ ~entitled /\ answer = "unavailable" /\ Works /\ UNCHANGED <<opened, indexJob>>
       \/ entitled /\ answer = "error" /\ Fails /\ UNCHANGED <<opened, indexJob>>
       \/ entitled /\ state # "stored" /\ answer = state /\ Works /\ UNCHANGED <<opened, indexJob>>
       \/ /\ entitled /\ state = "stored" /\ Works
          /\ IF h \in ToSet(opened) \/ indexFile[h] = "good"
             THEN answer = "index" /\ opened' = Touched(h) /\ UNCHANGED indexJob
             ELSE answer = "notready" /\ RepairIndex(u) /\ UNCHANGED opened

\* UpdateIndexState, which the dashboard asks for.
UpdateIndexState(u) ==
    /\ \E answer \in {"index", "notready"} : OpenUpdateIndex(u, answer)
    /\ UNCHANGED <<mapFile, indexFile, indexRecord, publishes, scheduling, entitled, occurrences,
                   errorGroup, sweep, spoilt, loose>>

-----------------------------------------------------------------------------
(* The error groups sweep.                                                  *)

Ungrouped == {e \in ErrorIds : occurrences[e] > 0 /\ errorGroup[e] = "none"}

MoreFrequent(d, e) ==
    \/ occurrences[d] > occurrences[e]
    \/ occurrences[d] = occurrences[e] /\ d < e

\* pendingErrorGroups: most frequent first, from the offset-th.
PendingErrorGroups(limit, offset) ==
    LET list == SetToSortSeq(Ungrouped, MoreFrequent)
    IN SubSeq(list, offset + 1, IF offset + limit < Len(list) THEN offset + limit ELSE Len(list))

\* A pass before its first page, and what it keeps of its course: the errors it
\* took, whether it took one twice, and whether one was counted meanwhile.
NewPass == [pc |-> "list", known |-> [u \in PublishedUpdates |-> "unasked"], symbolicated |-> 0,
            skipped |-> 0, head |-> 0, page |-> <<>>, short |-> FALSE, batch |-> {},
            taken |-> {}, again |-> FALSE, disturbed |-> FALSE, exhausted |-> FALSE]

\* The pass is over; it ran to the end of the list or not.
EndPass(exhausted) ==
    [NewPass EXCEPT !.pc = "idle", !.again = sweep.again, !.disturbed = sweep.disturbed,
                    !.taken = IF exhausted THEN sweep.taken ELSE {}, !.exhausted = exhausted]

sweepRest == <<mapFile, indexFile, indexRecord, publishes, scheduling, entitled, occurrences, spoilt, loose>>

\* The periodic job; River runs it on one replica.
StartPass ==
    /\ sweep.pc = "idle"
    /\ sweep' = NewPass
    /\ UNCHANGED <<sweepRest, indexJob, opened, errorGroup, trouble>>

\* Mutant: every page starts from the top.
FromTheTop == 0

\* The errors written left the list and the skipped ones lead it.
Offset == sweep.skipped

ListPage ==
    LET page == PendingErrorGroups(PerSweep, Offset)
        over == page = <<>> \/ Head(page) = sweep.head
    IN /\ sweep.pc = "list"
       /\ \/ /\ Works
             /\ sweep' = IF over THEN EndPass(TRUE)
                         ELSE [sweep EXCEPT !.pc = "work", !.page = page, !.head = Head(page),
                                            !.short = Len(page) < PerSweep, !.batch = {}]
          \/ Fails /\ sweep' = EndPass(FALSE)
       /\ UNCHANGED <<sweepRest, indexJob, opened, errorGroup>>

\* writeErrorGroups: the batch, as one insert.
GroupsWritten(batch) == [e \in ErrorIds |-> IF \E g \in {"group", "mark"} : <<e, g>> \in batch
                                      THEN CHOOSE g \in {"group", "mark"} : <<e, g>> \in batch
                                      ELSE errorGroup[e]]

\* What an answer makes of an error; "none" leaves it for a later pass.
GroupFor(answer) ==
    CASE answer = "index" -> "group"
      [] answer \in {"nomap", "unknown"} -> "mark"
      [] OTHER -> "none"

\* The pass once it has taken an error: one without a group is skipped, another
\* joins the batch, which is written when it is full.
Taken(pass, e, group, symbolicated) ==
    LET batch == pass.batch \cup {<<e, group>>}
        next == [pass EXCEPT !.page = Tail(@), !.taken = @ \cup {e}, !.again = @ \/ e \in pass.taken]
    IN IF group = "none" THEN [next EXCEPT !.skipped = @ + 1]
       ELSE [next EXCEPT !.symbolicated = @ + symbolicated,
                         !.batch = IF Cardinality(batch) = WriteEvery THEN {} ELSE batch]

\* indexOf: an update that answered with an error is not asked again in the pass.
IndexOf(u, answer) ==
    IF sweep.known[u] # "unasked"
    THEN answer = sweep.known[u] /\ Works /\ UNCHANGED <<opened, indexJob>>
    ELSE OpenUpdateIndex(u, answer)

More == sweep.pc = "work" /\ sweep.page # <<>> /\ sweep.symbolicated < PerSweep

\* One error of the page.  ErrUnavailable ends the pass with what it has.
TakeError(answer) ==
    LET e == Head(sweep.page)
        u == UpdateOf[e]
        pass == IF answer = "index" THEN sweep ELSE [sweep EXCEPT !.known[u] = answer]
        next == Taken(pass, e, GroupFor(answer), IF answer = "index" THEN 1 ELSE 0)
    IN /\ More
       /\ IndexOf(u, answer)
       /\ IF answer = "unavailable"
          THEN errorGroup' = GroupsWritten(sweep.batch) /\ sweep' = EndPass(FALSE)
          ELSE /\ sweep' = next
               /\ errorGroup' = IF GroupFor(answer) # "none" /\ next.batch = {}
                                 THEN GroupsWritten(sweep.batch \cup {<<e, GroupFor(answer)>>}) ELSE errorGroup
       /\ UNCHANGED sweepRest

\* oneTraceOf fails: the error is skipped.
SkipError ==
    LET e == Head(sweep.page) IN
    /\ More /\ Fails
    /\ entitled /\ sweep.known[UpdateOf[e]] = "unasked"
    /\ StoredUpdateSourcemap(UpdateOf[e]) = "stored" /\ indexFile[HashOf[UpdateOf[e]]] = "good"
    /\ opened' = Touched(HashOf[UpdateOf[e]])
    /\ sweep' = Taken(sweep, e, "none", 0)
    /\ UNCHANGED <<sweepRest, indexJob, errorGroup>>

\* The rest of the batch is written, and the pass goes on to the next page unless
\* this one was short or the pass has symbolicated enough.
EndPage ==
    /\ sweep.pc = "work" /\ ~More
    /\ \/ /\ Works
          /\ errorGroup' = GroupsWritten(sweep.batch)
          /\ sweep' = IF sweep.short \/ sweep.symbolicated = PerSweep
                      THEN EndPass(sweep.symbolicated < PerSweep)
                      ELSE [sweep EXCEPT !.pc = "list", !.batch = {}, !.page = <<>>]
       \/ Fails /\ sweep' = EndPass(FALSE) /\ UNCHANGED errorGroup
    /\ UNCHANGED <<sweepRest, indexJob, opened>>

\* A device reports an error: of an update that was published, or of one the
\* server does not know.
Report(e) ==
    /\ UpdateOf[e] \in Mapped => publishes[UpdateOf[e]] > 0
    /\ occurrences[e] < MaxCount
    /\ occurrences' = [occurrences EXCEPT ![e] = @ + 1]
    /\ sweep' = [sweep EXCEPT !.disturbed = TRUE]
    /\ UNCHANGED <<mapFile, jobVars, publishes, scheduling, entitled, opened, errorGroup, trouble>>

Answers == {"index", "nomap", "unknown", "failed", "notready", "unavailable", "error"}

SourcemapInit ==
    /\ mapFile \in [MapHashes -> {"good", "bad"}]
    /\ indexFile = [h \in MapHashes |-> "none"]
    /\ indexRecord = [u \in PublishedUpdates |-> NoRecord]
    /\ indexJob = [u \in PublishedUpdates |-> NoJob]
    /\ publishes = [u \in PublishedUpdates |-> 0]
    /\ scheduling = {} /\ entitled = TRUE /\ opened = <<>>
    /\ occurrences = [e \in ErrorIds |-> 0]
    /\ errorGroup = [e \in ErrorIds |-> "none"]
    /\ sweep = [NewPass EXCEPT !.pc = "idle"]
    /\ trouble = 0 /\ spoilt = {} /\ loose = {}

JobStep(u) == MarkRunning(u) \/ BuildIndex(u) \/ FinishRecord(u) \/ EndAttempt(u)
SweepStep == StartPass \/ ListPage \/ (\E a \in Answers : TakeError(a)) \/ EndPage

SourcemapNext ==
    \/ \E u \in PublishedUpdates :
          ScheduleIndex(u) \/ EnqueueIndex(u) \/ Reindex(u) \/ UpdateIndexState(u) \/ JobStep(u)
    \/ \E h \in MapHashes : SpoilIndex(h)
    \/ \E e \in ErrorIds : Report(e)
    \/ Die \/ Relicense \/ SweepStep \/ SkipError

SourcemapSpec == SourcemapInit /\ [][SourcemapNext]_sourcemapVars

\* River runs the jobs and the sweep as long as a server lives.
SourcemapFairness ==
    /\ \A u \in PublishedUpdates : WF_sourcemapVars(EnqueueIndex(u)) /\ WF_sourcemapVars(JobStep(u))
    /\ WF_sourcemapVars(SweepStep)

-----------------------------------------------------------------------------
\* Every variable has its type.
SourcemapTypeOK ==
    /\ indexFile \in [MapHashes -> {"none", "old", "good"}]
    /\ \A u \in PublishedUpdates :
          /\ indexRecord[u].status \in {"none", "pending", "running", "stored", "failed", "cancelled"}
          /\ indexJob[u].attempt \in 0..IndexAttempts
    /\ errorGroup \in [ErrorIds -> {"none", "group", "mark"}]
    /\ opened \in Seq(MapHashes) /\ Len(opened) <= IndexCacheSize
    /\ spoilt \cup loose \subseteq PublishedUpdates

\* A record that says "stored" is about an index that was in the store in a format
\* the server reads when its job looked, whichever update of the map built it:
\* unless it was spoilt since, it is there.
StoredMeansBuilt ==
    \A u \in Mapped : indexRecord[u].status = "stored" /\ u \notin spoilt => indexFile[HashOf[u]] = "good"

\* A record that waits has a job to settle it, or one about to be queued, except
\* after a lost insert, a lost last record, or a publish that met a job which had
\* written its record and not ended.
RecordsAreDriven ==
    \A u \in Mapped : indexRecord[u].status \in {"pending", "running"}
                       => Alive(u) \/ u \in scheduling \cup loose

\* ReadErrorGroup: a mark shows as no group.
ReadErrorGroup(e) == errorGroup[e] = "group"

\* An error goes without a group for good only when its update has no source map,
\* never because the index was not ready, failed, or was being repaired; and no
\* group comes from a map that has no index.
MarkedOnlyWithoutMap ==
    \A e \in ErrorIds :
        /\ errorGroup[e] = "mark" => UpdateOf[e] \notin Mapped
        /\ ReadErrorGroup(e) => UpdateOf[e] \in Mapped /\ mapFile[HashOf[UpdateOf[e]]] = "good"

\* A pass that ran to the end of the list took every error without a group once:
\* what it wrote left the list, what it skipped leads it, and the next page starts
\* right after.  An error counted meanwhile may reorder the list.
PassesMissNothing ==
    ~sweep.disturbed => /\ ~sweep.again
                        /\ sweep.pc = "idle" /\ sweep.exhausted => Ungrouped \subseteq sweep.taken

\* The safety properties of the indexes and of the sweep.
SourcemapsSound == StoredMeansBuilt /\ RecordsAreDriven /\ MarkedOnlyWithoutMap /\ PassesMissNothing

Readable(e) ==
    /\ occurrences[e] > 0 /\ entitled
    /\ UpdateOf[e] \in Mapped => indexRecord[UpdateOf[e]].status = "stored"

\* An error of an update whose index stays stored, or that has no map, is grouped
\* or marked in the end, whatever the sweep skips before it.
ErrorsGetGroups == \A e \in ErrorIds : <>[]Readable(e) => <>(errorGroup[e] # "none")
=============================================================================

---------------------------- MODULE BundlePatches ----------------------------
(***************************************************************************)
(* The binary patches toward a freshly published update: the plan of which *)
(* earlier updates get one, the record of each in bundle_patches, the job  *)
(* that computes it and the object it leaves in the bucket.  Planners (the *)
(* publish, and every recomputation asked for later) and the workers of    *)
(* the job queue run at the same time.  A patch toward the target is named *)
(* by the place of its source in the history.                              *)
(***************************************************************************)
EXTENDS Naturals, Sequences, FiniteSets

CONSTANTS
    Planners,           \* requests that plan patches
    MaxHistory,         \* bound on the updates before the target
    MaxPatchSources,    \* maxPatchSources
    MaxPages,           \* pages of the listing that are read
    MaxAttempts,        \* attempts of a job
    MaxPlans            \* bound on the plans made

VARIABLES
    history,            \* the earlier updates, newest first
    patchRow,           \* the rows of bundle_patches
    patchJob,           \* the jobs of the bsdiff queue
    patchObjects,       \* the patches in the bucket
    planner,            \* the planners
    plans               \* the number of plans begun

patchVars == <<history, patchRow, patchJob, patchObjects, planner, plans>>

-----------------------------------------------------------------------------
(* The earlier updates of the runtime version: of the target's platform, of  *)
(* another, or a rollback, which carries a label instead of a UUID.          *)

Earlier == {"same", "other", "rollback"}

Sources == 1..Len(history)
NoPatchJob == [state |-> "none", attempt |-> 0, step |-> "", outcome |-> ""]
IdlePlanner == [step |-> "idle", todo |-> <<>>]

PatchInit ==
    /\ history \in UNION {[1..n -> Earlier] : n \in 0..MaxHistory}
    /\ patchRow = [s \in {} |-> {}]
    /\ patchJob = [s \in Sources |-> NoPatchJob]
    /\ patchObjects = {}
    /\ planner = [p \in Planners |-> IdlePlanner]
    /\ plans = 0

-----------------------------------------------------------------------------
(* The plan.                                                                 *)

PatchPageSize == 2 * MaxPatchSources

\* GetUpdatesByRunTimeVersionAndBranchName: a page of updates older than the
\* cursor, newest first.
UpdatesPage(cursor) ==
    [i \in 1..(IF cursor + PatchPageSize <= Len(history) THEN PatchPageSize
               ELSE Len(history) - cursor) |-> cursor + i]

\* Rollbacks have no bundle, and a patch is made within a platform.
IsPatchSource(s) == history[s] = "same"

\* The first places of the plan are kept.
UpToMaxSources(s) == SubSeq(s, 1, IF Len(s) < MaxPatchSources THEN Len(s) ELSE MaxPatchSources)

\* ComputeBSDiffForPreviousUpdates: the sources of each page after the ones found
\* so far, until there are enough or no pages left to read.
PlanFrom[page \in 0..MaxPages] ==
    [cursor \in 0..Len(history) |-> [found \in UNION {[1..n -> Sources] : n \in 0..MaxPatchSources} |->
        IF page = MaxPages \/ Len(found) = MaxPatchSources THEN found
        ELSE LET items == UpdatesPage(cursor)
                 more == UpToMaxSources(found \o SelectSeq(items, IsPatchSource))
                 next == cursor + Len(items)
             IN IF next = Len(history) THEN more ELSE PlanFrom[page + 1][next][more]]]

ComputeBSDiffForPreviousUpdates == PlanFrom[0][0][<<>>]

\* A publish plans, or RecomputePatches plans again.
Plan(p) ==
    /\ planner[p] = IdlePlanner /\ plans < MaxPlans
    /\ ComputeBSDiffForPreviousUpdates # <<>>
    /\ plans' = plans + 1
    /\ planner' = [planner EXCEPT ![p] = [step |-> "mark", todo |-> ComputeBSDiffForPreviousUpdates]]
    /\ UNCHANGED <<history, patchRow, patchJob, patchObjects>>

PutRow(s, row) ==
    patchRow' = [r \in DOMAIN patchRow \cup {s} |-> IF r = s THEN row ELSE patchRow[r]]

\* The insert, or the reset of a row that is there.
UpsertBundlePatchPending(s) == PutRow(s, [status |-> "pending", attempts |-> 0])

\* enqueuePatch, first half: the record comes before the job, and its failure is
\* only logged.
MarkPending(p) ==
    /\ planner[p].step = "mark"
    /\ planner' = [planner EXCEPT ![p].step = "enqueue"]
    /\ UpsertBundlePatchPending(Head(planner[p].todo)) \/ UNCHANGED patchRow
    /\ UNCHANGED <<history, patchJob, patchObjects, plans>>

\* River's unique insert: skipped while a job of the pair is alive.
Enqueue(s) ==
    patchJob' = IF patchJob[s].state = "none"
                THEN [patchJob EXCEPT ![s] = [NoPatchJob EXCEPT !.state = "available"]]
                ELSE patchJob

\* enqueuePatch, second half; an insert that fails ends the plan.
EnqueuePatch(p) ==
    LET rest == Tail(planner[p].todo) IN
    /\ planner[p].step = "enqueue"
    /\ \/ /\ Enqueue(Head(planner[p].todo))
          /\ planner' = [planner EXCEPT ![p] = IF rest = <<>> THEN IdlePlanner
                                               ELSE [step |-> "mark", todo |-> rest]]
       \/ UNCHANGED patchJob /\ planner' = [planner EXCEPT ![p] = IdlePlanner]
    /\ UNCHANGED <<history, patchRow, patchObjects, plans>>

-----------------------------------------------------------------------------
(* The worker.                                                               *)

Step(s, step, outcome) ==
    patchJob' = [patchJob EXCEPT ![s].step = step, ![s].outcome = outcome]

\* River hands the job to a worker: an attempt begins.
Fetch(s) ==
    /\ patchJob[s].state \in {"available", "retryable"}
    /\ patchJob' = [patchJob EXCEPT ![s] = [state |-> "running", attempt |-> @.attempt + 1,
                                            step |-> "mark", outcome |-> ""]]
    /\ UNCHANGED <<history, patchRow, patchObjects, planner, plans>>

SetBundlePatchRunning(s) ==
    IF s \in DOMAIN patchRow
    THEN patchRow' = [patchRow EXCEPT ![s] = [status |-> "running", attempts |-> @.attempts + 1]]
    ELSE UNCHANGED patchRow

\* runPatchJob begins; a bookkeeping write that fails is only logged.
MarkRunning(s) ==
    /\ patchJob[s].step = "mark"
    /\ Step(s, "compute", "")
    /\ SetBundlePatchRunning(s) \/ UNCHANGED patchRow
    /\ UNCHANGED <<history, patchObjects, planner, plans>>

\* What computeBSDiff makes of the bundles: one from before the CAS, two that are
\* the same and a patch not worth serving are skipped; a bundle that is missing or
\* too large (cancelIfPermanent) and a patch that does not rebuild the target
\* cancel the job.
Outcomes == {"stored", "skipped", "cancelled"}

\* Mutant: the outcome is settled before the patch is in the bucket.
SettledBeforePut(outcome) == "finish"

\* A patch worth serving is put first; everything else is settled.
AfterCompute(outcome) == IF outcome = "stored" THEN "put" ELSE "finish"

\* computeBSDiff up to the put; a read that fails is an error that is retried.
ComputeBSDiff(s) ==
    /\ patchJob[s].step = "compute"
    /\ \E outcome \in Outcomes \cup {"error"} : Step(s, AfterCompute(outcome), outcome)
    /\ UNCHANGED <<history, patchRow, patchObjects, planner, plans>>

\* patchStore.Put, which may fail.
PutPatch(s) ==
    /\ patchJob[s].step = "put"
    /\ \/ patchObjects' = patchObjects \cup {s} /\ Step(s, "finish", "stored")
       \/ UNCHANGED patchObjects /\ Step(s, "finish", "error")
    /\ UNCHANGED <<history, patchRow, planner, plans>>

\* The status an attempt is recorded with: an error that will be retried leaves
\* the patch running.
StatusOf(job) ==
    IF job.outcome # "error" THEN job.outcome
    ELSE IF job.attempt >= MaxAttempts THEN "failed" ELSE "running"

FinishBundlePatch(s, status) ==
    IF s \in DOMAIN patchRow THEN patchRow' = [patchRow EXCEPT ![s].status = status]
    ELSE UNCHANGED patchRow

\* runPatchJob ends.
FinishPatch(s) ==
    /\ patchJob[s].step = "finish"
    /\ Step(s, "return", patchJob[s].outcome)
    /\ FinishBundlePatch(s, StatusOf(patchJob[s])) \/ UNCHANGED patchRow
    /\ UNCHANGED <<history, patchObjects, planner, plans>>

\* River settles the job: completed, cancelled or discarded it is no longer alive.
SettleJob(s) ==
    /\ patchJob[s].step = "return"
    /\ patchJob' = [patchJob EXCEPT ![s] =
            IF StatusOf(@) = "running" THEN [@ EXCEPT !.state = "retryable", !.step = ""]
            ELSE NoPatchJob]
    /\ UNCHANGED <<history, patchRow, patchObjects, planner, plans>>

\* The worker's process dies; River rescues the job, or discards it after its last
\* attempt.
WorkerDies(s) ==
    /\ patchJob[s].state = "running"
    /\ patchJob' = [patchJob EXCEPT ![s] =
            IF @.attempt >= MaxAttempts THEN NoPatchJob
            ELSE [@ EXCEPT !.state = "retryable", !.step = ""]]
    /\ UNCHANGED <<history, patchRow, patchObjects, planner, plans>>

PatchNext ==
    \/ \E p \in Planners : Plan(p) \/ MarkPending(p) \/ EnqueuePatch(p)
    \/ \E s \in Sources : \/ Fetch(s) \/ MarkRunning(s) \/ ComputeBSDiff(s) \/ PutPatch(s)
                          \/ FinishPatch(s) \/ SettleJob(s) \/ WorkerDies(s)

PatchSpec == PatchInit /\ [][PatchNext]_patchVars

-----------------------------------------------------------------------------
PatchTypeOK ==
    /\ \A s \in DOMAIN patchRow : /\ s \in Sources
                                  /\ patchRow[s].status \in {"pending", "running", "stored",
                                                             "skipped", "cancelled", "failed"}
    /\ \A s \in Sources : patchJob[s].attempt <= MaxAttempts
    /\ patchObjects \subseteq Sources

\* The dashboard never shows a patch that a device could not be given: whatever
\* the planners, the retries and the crashes do to it meanwhile, a row that says
\* stored has its patch in the bucket.
StoredPatchesExist ==
    \A s \in DOMAIN patchRow : patchRow[s].status = "stored" => s \in patchObjects

\* ComputeBSDiffForPreviousUpdates plans the newest maxPatchSources updates of the
\* target's platform among those its pages reach, however many rollbacks and
\* updates of the other platform are between them, and no update twice.
PlansNewestSources ==
    LET reach == {s \in Sources : s <= MaxPages * PatchPageSize /\ history[s] = "same"}
        plan == {ComputeBSDiffForPreviousUpdates[i] : i \in DOMAIN ComputeBSDiffForPreviousUpdates}
    IN /\ plan \subseteq reach
       /\ Cardinality(plan) = Len(ComputeBSDiffForPreviousUpdates)
       /\ \A s \in reach \ plan : /\ Cardinality(plan) = MaxPatchSources
                                  /\ \A t \in plan : t < s
=============================================================================

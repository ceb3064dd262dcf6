------------------------------ MODULE CheckIns ------------------------------
(***************************************************************************)
(* CheckInRecorder: how the manifest polls and telemetry of one device     *)
(* reach the registry.  Record compares a check-in with the state cached   *)
(* for the device and enqueues a write only for a change; a pool of        *)
(* workers drains the queue; a claim in the cache keeps a second write of  *)
(* the device out while one is pending, except for a check-in that carries *)
(* a fatal error, which the device reports once.                           *)
(*                                                                         *)
(* The registry is DeviceRegistry, reduced to the newest observation on    *)
(* file and to the crash text kept with the failure.  Cache entries expire *)
(* when their lifetime ends, which the model lets happen at any moment.    *)
(* The device reports a launch failure together with the check-ins that    *)
(* follow it.  The hardware fingerprint is treated like the failed updates *)
(* and left out.                                                           *)
(***************************************************************************)
EXTENDS Naturals, Sequences

CONSTANTS Installed,        \* updates the device may come to run
          PoolWorkers,
          QueueCapacity,
          MaxMoves,         \* how often the device changes update
          MaxFaultyWrites   \* writes that fail, and check-ins that find the queue full

VARIABLES running,          \* update the device runs, with the time it last changed
          crash,            \* the one-shot fatal error: none, pending, sent or dropped, "dropped"
          failing,          \* whether the device lists a failed update
          checkInCache,     \* the debounce entry: NoCheckIn, ErrorEntry or a state
          claimed,          \* the claim
          stash,            \* whether the fatal error is stashed
          jobs,             \* queued writes
          pool,             \* what each worker does
          onFile,           \* registry: update, time of its observation, crash text kept
          writeFaults       \* faults so far

checkInVars == <<running, crash, failing, checkInCache, claimed, stash, jobs, pool,
                 onFile, writeFaults>>

NoCheckIn == [update |-> 0, failed |-> FALSE, kind |-> "none"]
ErrorEntry == [update |-> 0, failed |-> FALSE, kind |-> "error"]
Entry(u, failed) == [update |-> u, failed |-> failed, kind |-> "state"]
FreeWorker == [at |-> "free"]

CheckInInit ==
    /\ running \in [update : Installed, since : {1}]
    /\ crash = "none"
    /\ failing = FALSE
    /\ checkInCache = NoCheckIn
    /\ claimed = FALSE
    /\ stash = FALSE
    /\ jobs = <<>>
    /\ pool = [w \in PoolWorkers |-> FreeWorker]
    /\ onFile = [update |-> 0, observed |-> 0, failed |-> FALSE, fatal |-> FALSE]
    /\ writeFaults = 0

-----------------------------------------------------------------------------
(* The device. *)

\* A launch fails: the device falls back to another update and lists the failed one.
DeviceMoves ==
    /\ running.since <= MaxMoves
    /\ \E u \in Installed \ {running.update}, fails \in BOOLEAN :
         /\ running' = [update |-> u, since |-> running.since + 1]
         /\ failing' = (failing \/ fails)
         /\ crash' = IF fails /\ crash = "none" THEN "pending" ELSE crash
    /\ UNCHANGED <<checkInCache, claimed, stash, jobs, pool, onFile, writeFaults>>

\* Mutant: the entry written on an error has no TTL.
ExpiresExceptErrors ==
    /\ \/ checkInCache \notin {NoCheckIn, ErrorEntry} /\ checkInCache' = NoCheckIn /\ UNCHANGED claimed
       \/ claimed /\ claimed' = FALSE /\ UNCHANGED checkInCache
    /\ UNCHANGED <<running, crash, failing, stash, jobs, pool, onFile, writeFaults>>

Expires ==
    /\ \/ checkInCache # NoCheckIn /\ checkInCache' = NoCheckIn /\ UNCHANGED claimed
       \/ claimed /\ claimed' = FALSE /\ UNCHANGED checkInCache
    /\ UNCHANGED <<running, crash, failing, stash, jobs, pool, onFile, writeFaults>>

-----------------------------------------------------------------------------
(* Record. *)

\* A check-in as the device sends it now; a poll may not name its update.
CheckIn(named) ==
    [update |-> IF named THEN running.update ELSE 0, observed |-> running.since,
     failed |-> failing, fatal |-> crash = "pending"]

NeedsWrite(c) ==
    \/ checkInCache.kind \in {"none", "error"}
    \/ c.fatal
    \/ c.update # 0 /\ c.update # checkInCache.update
    \/ c.failed /\ ~checkInCache.failed

\* The queue is full (of other devices' writes, too): the claim is released.
DropJob(c) ==
    /\ writeFaults < MaxFaultyWrites
    /\ writeFaults' = writeFaults + 1
    /\ crash' = IF c.fatal THEN "dropped" ELSE crash
    /\ UNCHANGED <<claimed, jobs>>

Enqueue(c) ==
    \/ /\ Len(jobs) < QueueCapacity
       /\ jobs' = Append(jobs, [c |-> c, claim |-> ~c.fatal, cached |-> checkInCache])
       /\ claimed' = (claimed \/ ~c.fatal)
       /\ crash' = IF c.fatal THEN "sent" ELSE crash
       /\ UNCHANGED writeFaults
    \/ DropJob(c)

RecordCheckIn(named) ==
    LET c == CheckIn(named)
    IN  /\ checkInCache.kind = "error" => c.fatal
        /\ NeedsWrite(c)
        /\ c.fatal \/ ~claimed
        /\ Enqueue(c)
        /\ UNCHANGED <<running, failing, checkInCache, stash, pool, onFile>>

\* A refused poll (no such app or channel) leaves only its crash detail.
RecordRejected ==
    /\ crash = "pending"
    /\ crash' = "sent"
    /\ stash' = TRUE
    /\ UNCHANGED <<running, failing, checkInCache, claimed, jobs, pool, onFile, writeFaults>>

-----------------------------------------------------------------------------
(* flush and record, one access to the cache or the registry at a time. *)

TakeJob(w) ==
    /\ pool[w] = FreeWorker
    /\ jobs # <<>>
    /\ pool' = [pool EXCEPT ![w] = [at |-> IF Head(jobs).c.failed THEN "failures" ELSE "touch",
                                    job |-> Head(jobs)]]
    /\ jobs' = Tail(jobs)
    /\ UNCHANGED <<running, crash, failing, checkInCache, claimed, stash, onFile, writeFaults>>

\* The stash is read before the write that attaches it.
ReadStash(w) ==
    /\ pool[w].at = "failures"
    /\ pool' = [pool EXCEPT ![w] = [at |-> "upsert", job |-> @.job,
                                    fatal |-> @.job.c.fatal \/ stash]]
    /\ UNCHANGED <<running, crash, failing, checkInCache, claimed, stash, jobs, onFile, writeFaults>>

RecordUpdateFailures(w) ==
    /\ pool[w].at = "upsert"
    /\ pool' = [pool EXCEPT ![w] = [at |-> "unstash", job |-> @.job]]
    /\ onFile' = [onFile EXCEPT !.failed = TRUE, !.fatal = @ \/ pool[w].fatal]
    /\ UNCHANGED <<running, crash, failing, checkInCache, claimed, stash, jobs, writeFaults>>

DeleteStash(w) ==
    /\ pool[w].at = "unstash"
    /\ stash' = FALSE
    /\ pool' = [pool EXCEPT ![w] = [at |-> "touch", job |-> @.job]]
    /\ UNCHANGED <<running, crash, failing, checkInCache, claimed, jobs, onFile, writeFaults>>

TouchDevice(w) ==
    /\ pool[w].at = "touch"
    /\ LET c == pool[w].job.c
       IN  onFile' = IF c.update # 0 /\ c.observed >= onFile.observed
                     THEN [onFile EXCEPT !.update = c.update, !.observed = c.observed]
                     ELSE onFile
    /\ pool' = [pool EXCEPT ![w] = [at |-> "cache", job |-> @.job]]
    /\ UNCHANGED <<running, crash, failing, checkInCache, claimed, stash, jobs, writeFaults>>

\* The write failed or timed out; an unsaved fatal error is stashed.
WriteFails(w) ==
    /\ pool[w].at \in {"upsert", "touch"}
    /\ writeFaults < MaxFaultyWrites
    /\ writeFaults' = writeFaults + 1
    /\ stash' = (stash \/ (pool[w].at = "upsert" /\ pool[w].job.c.fatal))
    /\ pool' = [pool EXCEPT ![w] = [at |-> "backoff", job |-> @.job]]
    /\ UNCHANGED <<running, crash, failing, checkInCache, claimed, jobs, onFile>>

\* What the check-in did not know keeps its cached value.
CacheState(job) ==
    Entry(IF job.c.update = 0 THEN job.cached.update ELSE job.c.update,
          job.c.failed \/ job.cached.failed)

\* flush returns: the entry is set and the claim released.
EndFlush(w) ==
    /\ pool[w].at \in {"cache", "backoff"}
    /\ checkInCache' = IF pool[w].at = "cache" THEN CacheState(pool[w].job) ELSE ErrorEntry
    /\ claimed' = (claimed /\ ~pool[w].job.claim)
    /\ pool' = [pool EXCEPT ![w] = FreeWorker]
    /\ UNCHANGED <<running, crash, failing, stash, jobs, onFile, writeFaults>>

Flush(w) ==
    \/ TakeJob(w) \/ ReadStash(w) \/ RecordUpdateFailures(w) \/ DeleteStash(w)
    \/ TouchDevice(w) \/ EndFlush(w)

CheckInNext ==
    \/ DeviceMoves \/ Expires \/ RecordCheckIn(TRUE) \/ RecordCheckIn(FALSE) \/ RecordRejected
    \/ \E w \in PoolWorkers : Flush(w) \/ WriteFails(w)

(* Devices poll for as long as they live, so that a check-in that names the *)
(* update finds the device unclaimed sooner or later; cache entries expire, *)
(* and the workers are goroutines the runtime schedules.                    *)
CheckInFairness ==
    /\ SF_checkInVars(RecordCheckIn(TRUE))
    /\ WF_checkInVars(Expires)
    /\ \A w \in PoolWorkers : WF_checkInVars(Flush(w))

CheckInSpec == CheckInInit /\ [][CheckInNext]_checkInVars /\ CheckInFairness

-----------------------------------------------------------------------------
(* The variables have their types. *)
CheckInTypeOK ==
    /\ running \in [update : Installed, since : 1 .. (MaxMoves + 1)]
    /\ crash \in {"none", "pending", "sent", "dropped"}
    /\ {failing, claimed, stash} \subseteq BOOLEAN
    /\ checkInCache \in [update : {0} \cup Installed, failed : BOOLEAN,
                         kind : {"none", "error", "state"}]
    /\ Len(jobs) <= QueueCapacity
    /\ onFile.update \in {0} \cup Installed

\* The jobs queued or being written.
InFlight == {jobs[i] : i \in DOMAIN jobs} \cup {pool[w].job : w \in {v \in PoolWorkers : pool[v] # FreeWorker}}

(* A taken claim always has a pending write that will release it: neither a *)
(* full queue nor a failed write leaves a device claimed for nothing        *)
(* (Record's default branch, flush's deferred Delete).                      *)
ClaimHasWrite == claimed => \E job \in InFlight : job.claim

(* A device that stops changing updates ends up registered under the update *)
(* it runs, whatever was debounced, dropped, refused as claimed or delivered *)
(* late before (Record, flush).                                             *)
RegistryCatchesUp == <>[](onFile.update = running.update)

=============================================================================

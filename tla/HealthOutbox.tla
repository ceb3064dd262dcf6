---------------------------- MODULE HealthOutbox ----------------------------
(***************************************************************************)
(* HealthHistory: the projection of device health from PostgreSQL into     *)
(* ClickHouse.  Triggers put an event into device_health_outbox in the     *)
(* transaction that changes a device; ids come from a sequence, so events  *)
(* may commit out of id order.  Every replica runs a projector that drains *)
(* the outbox in batches under an advisory lock and captures a snapshot of *)
(* the fleet, under another, after a change and on a heartbeat.            *)
(*                                                                         *)
(* ClickHouse keeps one row per event id whatever is sent twice, so the    *)
(* events it holds are a set; the snapshot it shows is the last captured.  *)
(* A replica may crash and a connection may die, which frees its locks     *)
(* while the projector goes on.                                            *)
(***************************************************************************)
EXTENDS Naturals, FiniteSets

CONSTANTS DeviceWriters,    \* transactions that change devices
          Projectors,       \* replicas
          OutboxBatchSize,
          MaxHealthEvents,
          MaxOutages        \* failed or interrupted projections

VARIABLES change,           \* each writer's uncommitted event (0: none)
          eventSeq,         \* last id taken from the sequence
          health,           \* events whose change is committed
          outboxRows,       \* device_health_outbox
          shown,            \* device_health_events in ClickHouse
          snapshot,         \* the health the last snapshot was computed from
          outboxLock, snapshotLock,
          projector,        \* what each projector does
          outages

outboxVars == <<change, eventSeq, health, outboxRows, shown, snapshot, outboxLock,
                snapshotLock, projector, outages>>

LockFree == "unlocked"
Resting(pending) ==
    [at |-> "rest", ids |-> {}, seen |-> {}, delivered |-> FALSE, pending |-> pending]
\* run begins with a drain and a capture.
Starting == [Resting(TRUE) EXCEPT !.at = "lock"]

OutboxInit ==
    /\ change = [w \in DeviceWriters |-> 0]
    /\ eventSeq = 0
    /\ health = {} /\ outboxRows = {} /\ shown = {} /\ snapshot = {}
    /\ outboxLock = LockFree /\ snapshotLock = LockFree
    /\ projector = [p \in Projectors |-> Starting]
    /\ outages = 0

-----------------------------------------------------------------------------
(* Device changes. *)

ChangeDevice(w) ==
    /\ change[w] = 0
    /\ eventSeq < MaxHealthEvents
    /\ eventSeq' = eventSeq + 1
    /\ change' = [change EXCEPT ![w] = eventSeq']
    /\ UNCHANGED <<health, outboxRows, shown, snapshot, outboxLock, snapshotLock, projector, outages>>

EndChange(w) ==
    /\ change[w] # 0
    /\ change' = [change EXCEPT ![w] = 0]
    /\ \/ /\ health' = health \cup {change[w]}
          /\ outboxRows' = outboxRows \cup {change[w]}
       \/ UNCHANGED <<health, outboxRows>>
    /\ UNCHANGED <<eventSeq, shown, snapshot, outboxLock, snapshotLock, projector, outages>>

-----------------------------------------------------------------------------
(* The projector. *)

Proceed(p, to) == projector' = [projector EXCEPT ![p].at = to]

\* drainOutbox returned: capture a change once the floor has passed, or keep it pending.
AfterDrain(p, delivered) ==
    projector' = [projector EXCEPT ![p] =
        [@ EXCEPT !.at = "drained", !.ids = {}, !.delivered = FALSE,
                  !.pending = @ \/ delivered]]

OutboxTick(p) ==
    /\ projector[p].at = "rest"
    /\ Proceed(p, "lock")
    /\ UNCHANGED <<change, eventSeq, health, outboxRows, shown, snapshot, outboxLock, snapshotLock, outages>>

LockOutbox(p) ==
    /\ projector[p].at = "lock"
    /\ IF outboxLock = LockFree
       THEN outboxLock' = p /\ Proceed(p, "list")
       ELSE UNCHANGED outboxLock /\ AfterDrain(p, projector[p].delivered)
    /\ UNCHANGED <<change, eventSeq, health, outboxRows, shown, snapshot, snapshotLock, outages>>

\* Mutant: the lock is not released.
OutboxLockKept(lock, p) == lock

\* The session that holds it unlocks, or ends.
ReleaseLock(lock, p) == IF lock = p THEN LockFree ELSE lock

\* The first rows in id order, at most a batch of them.
Batch(rows) == {i \in rows : Cardinality({j \in rows : j < i}) < OutboxBatchSize}

ListDeviceHealthOutbox(p) ==
    /\ projector[p].at = "list"
    /\ IF outboxRows = {}
       THEN /\ outboxLock' = ReleaseLock(outboxLock, p)
            /\ AfterDrain(p, projector[p].delivered)
       ELSE /\ projector' = [projector EXCEPT ![p].at = "send", ![p].ids = Batch(outboxRows)]
            /\ UNCHANGED outboxLock
    /\ UNCHANGED <<change, eventSeq, health, outboxRows, shown, snapshot, snapshotLock, outages>>

SendBatch(p) ==
    /\ projector[p].at = "send"
    /\ shown' = shown \cup projector[p].ids
    /\ Proceed(p, "delete")
    /\ UNCHANGED <<change, eventSeq, health, outboxRows, snapshot, outboxLock, snapshotLock, outages>>

\* The delivered ids are deleted.
DeleteIds(ids) == outboxRows \ ids

DeleteDeviceHealthOutbox(p) ==
    /\ projector[p].at = "delete"
    /\ outboxRows' = DeleteIds(projector[p].ids)
    /\ outboxLock' = ReleaseLock(outboxLock, p)
    /\ IF Cardinality(projector[p].ids) < OutboxBatchSize
       THEN AfterDrain(p, TRUE)
       ELSE projector' = [projector EXCEPT ![p].at = "lock", ![p].delivered = TRUE]
    /\ UNCHANGED <<change, eventSeq, health, shown, snapshot, snapshotLock, outages>>

\* A statement or the insert fails: the lock is released and the drain gives up.
DrainFails(p) ==
    /\ projector[p].at \in {"list", "send", "delete"}
    /\ outages < MaxOutages
    /\ outages' = outages + 1
    /\ outboxLock' = ReleaseLock(outboxLock, p)
    /\ AfterDrain(p, projector[p].delivered)
    /\ UNCHANGED <<change, eventSeq, health, outboxRows, shown, snapshot, snapshotLock>>

DecideCapture(p) ==
    /\ projector[p].at = "drained"
    /\ \/ projector[p].pending /\ Proceed(p, "snapshot")
       \/ projector' = [projector EXCEPT ![p] = Resting(@.pending)]
    /\ UNCHANGED <<change, eventSeq, health, outboxRows, shown, snapshot, outboxLock, snapshotLock, outages>>

\* The heartbeat captures without being asked.
Heartbeat(p) ==
    /\ projector[p].at = "rest"
    /\ Proceed(p, "snapshot")
    /\ UNCHANGED <<change, eventSeq, health, outboxRows, shown, snapshot, outboxLock, snapshotLock, outages>>

LockSnapshot(p) ==
    /\ projector[p].at = "snapshot"
    /\ IF snapshotLock = LockFree
       THEN snapshotLock' = p /\ Proceed(p, "read")
       ELSE /\ projector' = [projector EXCEPT ![p] = Resting(FALSE)]
            /\ UNCHANGED snapshotLock
    /\ UNCHANGED <<change, eventSeq, health, outboxRows, shown, snapshot, outboxLock, outages>>

ListCurrentUpdateHealthSnapshots(p) ==
    /\ projector[p].at = "read"
    /\ projector' = [projector EXCEPT ![p].at = "write", ![p].seen = health]
    /\ UNCHANGED <<change, eventSeq, health, outboxRows, shown, snapshot, outboxLock, snapshotLock, outages>>

\* Sent, or lost with an error that is only logged; pending either way.
WriteSnapshot(p) ==
    /\ projector[p].at = "write"
    /\ \/ snapshot' = projector[p].seen /\ UNCHANGED outages
       \/ /\ outages < MaxOutages /\ outages' = outages + 1
          /\ UNCHANGED snapshot
    /\ snapshotLock' = ReleaseLock(snapshotLock, p)
    /\ projector' = [projector EXCEPT ![p] = Resting(FALSE)]
    /\ UNCHANGED <<change, eventSeq, health, outboxRows, shown, outboxLock>>

CrashProjector(p) ==
    /\ outages < MaxOutages
    /\ outages' = outages + 1
    /\ projector' = [projector EXCEPT ![p] = Starting]
    /\ outboxLock' = ReleaseLock(outboxLock, p)
    /\ snapshotLock' = ReleaseLock(snapshotLock, p)
    /\ UNCHANGED <<change, eventSeq, health, outboxRows, shown, snapshot>>

LoseConnection(p) ==
    /\ outages < MaxOutages
    /\ p \in {outboxLock, snapshotLock}
    /\ outages' = outages + 1
    /\ \/ outboxLock' = ReleaseLock(outboxLock, p) /\ UNCHANGED snapshotLock
       \/ snapshotLock' = ReleaseLock(snapshotLock, p) /\ UNCHANGED outboxLock
    /\ UNCHANGED <<change, eventSeq, health, outboxRows, shown, snapshot, projector>>

Project(p) ==
    \/ OutboxTick(p) \/ LockOutbox(p) \/ ListDeviceHealthOutbox(p) \/ SendBatch(p)
    \/ DeleteDeviceHealthOutbox(p) \/ DecideCapture(p) \/ LockSnapshot(p)
    \/ ListCurrentUpdateHealthSnapshots(p) \/ WriteSnapshot(p)

OutboxNext ==
    \/ \E w \in DeviceWriters : ChangeDevice(w) \/ EndChange(w)
    \/ \E p \in Projectors : \/ Project(p) \/ DrainFails(p) \/ Heartbeat(p)
                             \/ CrashProjector(p) \/ LoseConnection(p)

(* A transaction ends, a projector's goroutine goes on, and neither of its  *)
(* two tickers starves the other: select picks at random among those ready. *)
OutboxFairness ==
    /\ \A w \in DeviceWriters : WF_outboxVars(EndChange(w))
    /\ \A p \in Projectors : /\ WF_outboxVars(Project(p))
                            /\ SF_outboxVars(OutboxTick(p)) /\ SF_outboxVars(Heartbeat(p))

OutboxSpec == OutboxInit /\ [][OutboxNext]_outboxVars /\ OutboxFairness

-----------------------------------------------------------------------------
(* The variables have their types. *)
OutboxTypeOK ==
    /\ change \in [DeviceWriters -> 0 .. MaxHealthEvents]
    /\ eventSeq \in 0 .. MaxHealthEvents
    /\ {health, outboxRows, shown, snapshot} \subseteq SUBSET (1 .. MaxHealthEvents)
    /\ {outboxLock, snapshotLock} \subseteq {LockFree} \cup Projectors
    /\ outages \in 0 .. MaxOutages

(* A committed health event is in the outbox until ClickHouse has it,       *)
(* although events commit out of id order, batches are sent twice and two   *)
(* projectors may drain at once (deliverOutboxBatch deletes the ids it      *)
(* sent, and only after sending them).                                      *)
NoHealthEventLost == health = outboxRows \cup (health \cap shown)

(* Once devices stop changing, ClickHouse holds every event, the outbox is  *)
(* empty and the snapshot on show is that of the fleet as it is, whatever   *)
(* captures were skipped because another replica held the lock (run).       *)
HistoryCatchesUp == <>[](shown = health /\ outboxRows = {} /\ snapshot = health)

=============================================================================

------------------------------ MODULE MCWorkers ------------------------------
(***************************************************************************)
(* What the servers do behind the requests, for TLC: the caches of the     *)
(* update endpoints, the check-in pool, the health outbox, the audit       *)
(* exporter, the bucket migration, the licence loops, and the source-map   *)
(* jobs with the error-group sweep.  The parts share nothing, so a         *)
(* behaviour runs one of them, chosen at the start, and the others rest;   *)
(* fairness is that of the part that runs.  Without symmetry: the run      *)
(* checks liveness.                                                        *)
(***************************************************************************)
EXTENDS Serving, CheckIns, HealthOutbox, AuditArchive, BucketMigration, Licensing,
        SourcemapIndexes

VARIABLE part

allVars == <<part, vars, checkInVars, outboxVars, auditVars, migrationVars, licenceVars,
             sourcemapVars>>

Parts == {"serving", "checkIns", "outbox", "audit", "migration", "licence", "sourcemaps"}

WorkersInit ==
    /\ part \in Parts
    /\ Init /\ CheckInInit /\ OutboxInit /\ AuditInit /\ MigrationInit /\ LicenceInit
    /\ SourcemapInit
    /\ part # "checkIns" => running.update = 1
    /\ part # "migration" => ~local /\ ~collides
    /\ part # "sourcemaps" => \A h \in MapHashes : mapFile[h] = "good"

WorkersNext ==
    \/ /\ part = "serving" /\ Next
       /\ UNCHANGED <<part, checkInVars, outboxVars, auditVars, migrationVars, licenceVars, sourcemapVars>>
    \/ /\ part = "checkIns" /\ CheckInNext
       /\ UNCHANGED <<part, vars, outboxVars, auditVars, migrationVars, licenceVars, sourcemapVars>>
    \/ /\ part = "outbox" /\ OutboxNext
       /\ UNCHANGED <<part, vars, checkInVars, auditVars, migrationVars, licenceVars, sourcemapVars>>
    \/ /\ part = "audit" /\ AuditNext
       /\ UNCHANGED <<part, vars, checkInVars, outboxVars, migrationVars, licenceVars, sourcemapVars>>
    \/ /\ part = "migration" /\ MigrationNext
       /\ UNCHANGED <<part, vars, checkInVars, outboxVars, auditVars, licenceVars, sourcemapVars>>
    \/ /\ part = "licence" /\ LicenceNext
       /\ UNCHANGED <<part, vars, checkInVars, outboxVars, auditVars, migrationVars, sourcemapVars>>
    \/ /\ part = "sourcemaps" /\ SourcemapNext
       /\ UNCHANGED <<part, vars, checkInVars, outboxVars, auditVars, migrationVars, licenceVars>>

WorkersSpec == WorkersInit /\ [][WorkersNext]_allVars

MCHashOf == [u \in {"u1", "u3"} |-> IF u = "u3" THEN "nomap" ELSE "h1"]
MCUpdateOf == <<"u1", "u3">>

-----------------------------------------------------------------------------
\* Serving: once publishes stop, every replica comes to serve the last one.
ServingSettles == part = "serving" /\ Fairness => ConvergesToLatest

\* CheckIns: every claim has a pending write that releases it, and the registry
\* comes to name the update the device runs (Record, flush).
CheckInsSettle ==
    [](CheckInTypeOK /\ ClaimHasWrite) /\ (part = "checkIns" /\ CheckInFairness => RegistryCatchesUp)

\* HealthOutbox: a committed event is in the outbox until ClickHouse has it, and
\* ClickHouse comes to hold every event and the snapshot of the fleet as it is
\* (deliverOutboxBatch, run).
HistorySettles == [](OutboxTypeOK /\ NoHealthEventLost) /\ (part = "outbox" /\ OutboxFairness => HistoryCatchesUp)

\* AuditArchive: the cursor passes no row that no file holds, the purge takes only
\* what is archived, and every recorded event reaches the archive, whatever crashes,
\* lost locks and failed uploads interrupt the exports (runArchive, archiveNextBatch).
ArchiveSettles ==
    /\ [](AuditTypeOK /\ NoEventSkipped /\ PurgedRowsArchived)
    /\ part = "audit" /\ AuditFairness => EventsAreArchived

\* BucketMigration: a retry finds every file an interrupted move left, no instance
\* serves a half-migrated bucket, and the move converges (EnsureMigrations).
MigrationSettles ==
    /\ [](MigrationTypeOK /\ RetryFindsTheRest /\ ServesMigratedBucket)
    /\ part = "migration" /\ MigrationFairness => MigrationConverges

\* Licensing: features are suspended only after the grace, and every server comes to
\* have the features the row stands for (applyStatus, syncFromStore).
LicenceSettles ==
    [](LicenceTypeOK /\ SuspendedOnlyAfterGrace) /\ (part = "licence" /\ LicenceFairness => InstancesFollowTheRow)

\* SourcemapIndexes: an error of an update whose index stays stored, or that has no
\* map, is grouped or marked in the end, whatever the sweep skips before it.
SourcemapsSettle == part = "sourcemaps" /\ SourcemapFairness => ErrorsGetGroups
=============================================================================

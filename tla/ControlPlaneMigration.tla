------------------------ MODULE ControlPlaneMigration ------------------------
(***************************************************************************)
(* A stateless deployment, whose updates are folders of the bucket and     *)
(* whose channels are Expo's, moves to the control plane: replicas boot    *)
(* behind the migration lock and run the Go migrations (the infrastructure *)
(* with its signing keys, the first administrator, the asset mappings),    *)
(* any of which can be cut short, while stateless replicas still publish;  *)
(* and every replica settles the id of the deployment.                     *)
(***************************************************************************)
EXTENDS Naturals, FiniteSets, FiniteSetsExt

CONSTANTS
    Replicas, NoReplica,
    LegacyBranches, NoLegacyBranch,
    LegacyChannels,
    LegacyPlatforms,
    LegacyMappings,     \* what the channels may map to at first
    FolderKinds,        \* the updates published before the move
    MaxFolders,         \* bound on updates
    MaxMishaps,         \* bound on failures, crashes and edits of the channels
    KeyModes            \* keys modes of the flat environment

ASSUME MigrationAssumption ==
    /\ NoReplica \notin Replicas /\ NoLegacyBranch \notin LegacyBranches
    /\ LegacyMappings \subseteq [LegacyChannels -> LegacyBranches \cup {NoLegacyBranch}]
    /\ \A k \in FolderKinds : k.kind = "rollback" => k.meta = "ok"
    /\ MaxFolders \in Nat /\ MaxMishaps \in Nat
    /\ KeyModes \subseteq {"local", "environment", "aws-secrets-manager"}

VARIABLES
    legacyFolder,         \* the updates in the bucket, by id
    expoMapping,    \* the channels at Expo
    environment,    \* what the environment provides
    tables,         \* the database
    recorded,       \* the versions goose has recorded
    migrationLock,  \* the holder of the advisory lock
    replica,        \* the replicas
    deploymentId,   \* the id in the bucket, the id in the database
    mishaps,        \* failures so far
    late,           \* the bucket or Expo changed after the scan (history)
    lossy           \* a read that failed counted as nothing found (history)

migrationVars == <<legacyFolder, expoMapping, environment, tables, recorded, migrationLock, replica,
                   deploymentId, mishaps, late, lossy>>
deployment == <<legacyFolder, expoMapping>>

-----------------------------------------------------------------------------
Folders == 1..MaxFolders
NoFolder == [branch |-> NoLegacyBranch]
Present == {i \in Folders : legacyFolder[i] # NoFolder}
NoTables == [key |-> "none", branches |-> {}, updates |-> {}, channels |-> <<>>, admins |-> 0]
NoId == 0

Down == [pc |-> "down", tx |-> NoTables, todo |-> {}, id |-> NoId]
Boot(r, x) == replica' = [replica EXCEPT ![r] = x]
GoTo(r, pc) == Boot(r, [replica[r] EXCEPT !.pc = pc])
MayMishap == mishaps < MaxMishaps

MoveInit ==
    /\ legacyFolder = [i \in Folders |-> NoFolder]
    /\ expoMapping \in LegacyMappings
    /\ \E mode \in KeyModes, ready \in BOOLEAN :
          environment = [mode |-> mode, keys |-> ready, masterKey |-> TRUE, admin |-> ready]
    /\ tables = NoTables /\ recorded = {} /\ migrationLock = NoReplica
    /\ replica = [r \in Replicas |-> Down]
    /\ deploymentId = [bucket |-> NoId, database |-> NoId, lock |-> NoReplica]
    /\ mishaps = 0 /\ late = FALSE /\ lossy = FALSE

-----------------------------------------------------------------------------
(* The stateless deployment.                                                 *)

Stateless == \E r \in Replicas : replica[r].pc = "stateless"
Scanned == "infra" \in recorded \/ \E r \in Replicas : replica[r].pc \in {"branches", "channels", "commit", "record"}
Changed == late' = (late \/ Scanned)

\* The repository of stateless mode: update-metadata.json, or that and the rollback
\* marker; metadata.json comes with the upload, and may be damaged.
CreateFolder(b, p, k) ==
    /\ Stateless
    /\ \E i \in Folders : /\ legacyFolder[i] = NoFolder /\ \A j \in 1..(i - 1) : legacyFolder[j] # NoFolder
                          /\ legacyFolder' = [legacyFolder EXCEPT ![i] =
                                [branch |-> b, platform |-> p, kind |-> k.kind, meta |-> k.meta,
                                 mapping |-> k.mapping, checked |-> FALSE]]
    /\ UNCHANGED <<expoMapping, environment, tables, recorded, migrationLock, replica, deploymentId,
                   mishaps, late, lossy>>

\* MarkUpdateAsChecked: the .check file.
CheckFolder(i) ==
    /\ Stateless /\ i \in Present /\ ~legacyFolder[i].checked
    /\ legacyFolder' = [legacyFolder EXCEPT ![i].checked = TRUE]
    /\ Changed
    /\ UNCHANGED <<expoMapping, environment, tables, recorded, migrationLock, replica, deploymentId,
                   mishaps, lossy>>

\* UpdateChannelBranchMapping, at Expo.
RemapAtExpo(c, b) ==
    /\ Stateless /\ MayMishap /\ expoMapping[c] # b
    /\ expoMapping' = [expoMapping EXCEPT ![c] = b]
    /\ mishaps' = mishaps + 1
    /\ Changed
    /\ UNCHANGED <<legacyFolder, environment, tables, recorded, migrationLock, replica, deploymentId, lossy>>

\* isUpdateValid.
IsUpdateValid(i) == legacyFolder[i].checked

\* GetLatestUpdate of the bucket: the newest of the platform that is complete.  An
\* update whose metadata.json is damaged cannot be served.
LatestFolder(b, p) ==
    LET complete == {i \in Present : /\ legacyFolder[i].branch = b /\ legacyFolder[i].platform = p
                                     /\ IsUpdateValid(i) /\ legacyFolder[i].meta = "ok"} IN
    IF complete = {} THEN 0 ELSE Max(complete)

-----------------------------------------------------------------------------
(* The id of the deployment.                                                 *)

FreshId == 1 + Max({deploymentId.bucket, deploymentId.database} \cup {replica[r].id : r \in Replicas})

BootsAs(r, pc, id) == Boot(r, [replica[r] EXCEPT !.pc = pc, !.id = id])

\* BucketServerInstanceRepository.GetOrCreateInstanceID: an id that is there is taken.
\* Bound: no stateless replica boots once the infrastructure is migrated.
StartStateless(r) ==
    /\ replica[r].pc = "down" /\ recorded = {}
    /\ IF deploymentId.bucket # NoId THEN BootsAs(r, "stateless", deploymentId.bucket)
       ELSE GoTo(r, "wait")
    /\ UNCHANGED <<deployment, environment, tables, recorded, migrationLock, deploymentId, mishaps,
                   late, lossy>>

\* Under the lock of the cache, or after five polls without it, the bucket is read again.
LockInstanceId(r) ==
    /\ replica[r].pc = "wait"
    /\ \/ /\ deploymentId.lock = NoReplica
          /\ deploymentId' = [deploymentId EXCEPT !.lock = r]
          /\ UNCHANGED <<mishaps, lossy>>
       \/ /\ deploymentId.lock # NoReplica /\ MayMishap
          /\ mishaps' = mishaps + 1 /\ lossy' = TRUE
          /\ UNCHANGED deploymentId
    /\ GoTo(r, "look")
    /\ UNCHANGED <<deployment, environment, tables, recorded, migrationLock, late>>

ReadAgain(r) ==
    /\ replica[r].pc = "look"
    /\ IF deploymentId.bucket # NoId
       THEN /\ BootsAs(r, "stateless", deploymentId.bucket)
            /\ deploymentId' = [deploymentId EXCEPT !.lock = IF @ = r THEN NoReplica ELSE @]
       ELSE BootsAs(r, "persist", FreshId) /\ UNCHANGED deploymentId
    /\ UNCHANGED <<deployment, environment, tables, recorded, migrationLock, mishaps, late, lossy>>

\* Persist, and the lock is released.
PersistInstanceId(r) ==
    /\ replica[r].pc = "persist"
    /\ deploymentId' = [deploymentId EXCEPT !.bucket = replica[r].id,
                                            !.lock = IF @ = r THEN NoReplica ELSE @]
    /\ GoTo(r, "stateless")
    /\ lossy' = (lossy \/ deploymentId.database # NoId \/ \E s \in Replicas : replica[s].pc = "mint")
    /\ UNCHANGED <<deployment, environment, tables, recorded, migrationLock, mishaps, late>>

\* PostgresServerInstanceRepository.GetOrCreateInstanceID: the id of the bucket is
\* adopted before one is minted.
SeedId == IF deploymentId.bucket # NoId THEN deploymentId.bucket ELSE FreshId

\* GetServerInstanceID.  A bucket that cannot be read counts as one without an id.
ReadInstanceId(r) ==
    /\ replica[r].pc = "id"
    /\ IF deploymentId.database # NoId
       THEN BootsAs(r, "serving", deploymentId.database) /\ UNCHANGED <<mishaps, lossy>>
       ELSE \/ BootsAs(r, "mint", SeedId) /\ UNCHANGED <<mishaps, lossy>>
            \/ MayMishap /\ mishaps' = mishaps + 1 /\ lossy' = TRUE /\ BootsAs(r, "mint", FreshId)
    /\ UNCHANGED <<deployment, environment, tables, recorded, migrationLock, deploymentId, late>>

\* InsertServerInstance does nothing when there is a row, and the row is read again.
InsertServerInstance(r) ==
    /\ replica[r].pc = "mint"
    /\ IF deploymentId.database = NoId
       THEN /\ deploymentId' = [deploymentId EXCEPT !.database = replica[r].id]
            /\ GoTo(r, "serving")
       ELSE BootsAs(r, "serving", deploymentId.database) /\ UNCHANGED deploymentId
    /\ UNCHANGED <<deployment, environment, tables, recorded, migrationLock, mishaps, late, lossy>>

-----------------------------------------------------------------------------
(* A replica of the control plane boots.                                     *)

\* The first migration that is not recorded yet.
NextVersion ==
    IF "infra" \notin recorded THEN "infra"
    ELSE IF "admin" \notin recorded THEN "admin"
    ELSE IF "backfill" \notin recorded THEN "backfill" ELSE "none"

\* AcquireMigrationLock: the others wait.
AcquireMigrationLock(r) ==
    /\ replica[r].pc = "down" /\ migrationLock = NoReplica
    /\ migrationLock' = r
    /\ GoTo(r, "up")
    /\ UNCHANGED <<deployment, environment, tables, recorded, deploymentId, mishaps, late, lossy>>

\* goose.Up takes the next version; when there is none, the lock is released.
StartVersion(r) ==
    /\ replica[r].pc = "up"
    /\ GoTo(r, IF NextVersion = "none" THEN "id" ELSE NextVersion)
    /\ migrationLock' = IF NextVersion = "none" THEN NoReplica ELSE migrationLock
    /\ UNCHANGED <<deployment, environment, tables, recorded, deploymentId, mishaps, late, lossy>>

\* A migration fails and log.Fatal ends the process, or it dies: the transaction is
\* rolled back and the session gives the lock back.
Fatal(r) ==
    /\ Boot(r, Down)
    /\ migrationLock' = IF migrationLock = r THEN NoReplica ELSE migrationLock

\* The lock of the cache expires with its holder.
ReplicaDies(r) ==
    /\ replica[r].pc # "down" /\ MayMishap
    /\ mishaps' = mishaps + 1
    /\ Fatal(r)
    /\ deploymentId' = [deploymentId EXCEPT !.lock = IF @ = r THEN NoReplica ELSE @]
    /\ UNCHANGED <<deployment, environment, tables, recorded, late, lossy>>

\* sealLegacyKeysIntoDB: the pair of the environment is sealed as it is; a secret
\* stays where it is.
SealLegacyKeys == IF environment.mode = "aws-secrets-manager" THEN "secret" ELSE "sealed"

\* The keys cannot be read, or there is no master key.
CannotSeal ==
    environment.mode # "aws-secrets-manager" /\ ~(environment.keys /\ environment.masterKey)

\* Branches lists the folders of the app.
BucketBranches == {legacyFolder[i].branch : i \in Present}

\* MigrateLegacyApp, on conflict all of the row.
MigrateLegacyApp(tx) == [tx EXCEPT !.key = SealLegacyKeys]

\* MigrateLegacyApp opens the transaction.
MigrateApp(r) ==
    /\ replica[r].pc = "infra"
    /\ IF CannotSeal
       THEN Fatal(r) /\ UNCHANGED late
       ELSE /\ Boot(r, [replica[r] EXCEPT !.pc = "branches", !.tx = MigrateLegacyApp(tables),
                                          !.todo = BucketBranches])
            /\ late' = FALSE
            /\ UNCHANGED migrationLock
    /\ UNCHANGED <<deployment, environment, tables, recorded, deploymentId, mishaps, lossy>>

\* The row of a legacyFolder.
RowOf(i) == [id |-> i, branch |-> legacyFolder[i].branch, platform |-> legacyFolder[i].platform,
             kind |-> legacyFolder[i].kind, mapping |-> "none"]

\* GetUpdatesByRunTimeVersionAndBranchName, page after page: what is complete, without
\* the updates whose metadata.json cannot be read.
ListedFolders(b) ==
    {i \in Present : legacyFolder[i].branch = b /\ IsUpdateValid(i)
                        /\ (legacyFolder[i].kind = "rollback" \/ legacyFolder[i].meta = "ok")}

\* MigrateLegacyBranch, on conflict nothing new.
MigrateLegacyBranch(tx, b) == [tx EXCEPT !.branches = @ \cup {b}]

\* MigrateLegacyUpdate, on conflict all of the row but its asset mapping.
MigrateLegacyUpdate(tx, listed) ==
    LET Kept(i) == {u.mapping : u \in {v \in tx.updates : v.id = i}} \cup {"none"} IN
    [tx EXCEPT !.updates = {u \in @ : u.id \notin listed} \cup
        {[RowOf(i) EXCEPT !.mapping = IF "valid" \in Kept(i) THEN "valid" ELSE "none"] : i \in listed}]

\* The rows of one branch: MigrateLegacyBranch, MigrateLegacyRuntimeVersion and
\* MigrateLegacyUpdate.  A read of metadata.json that fails leaves its update out.
MigrateBranch(r) ==
    /\ replica[r].pc = "branches" /\ replica[r].todo # {}
    /\ LET b == CHOOSE b \in replica[r].todo : TRUE
           tx == replica[r].tx IN
       \E missed \in {{}} \cup (IF MayMishap THEN {{i} : i \in {j \in ListedFolders(b) :
                                                        legacyFolder[j].kind = "update"}} ELSE {}) :
          LET listed == ListedFolders(b) \ missed IN
          /\ Boot(r, [replica[r] EXCEPT
                !.todo = @ \ {b},
                !.tx = MigrateLegacyUpdate(MigrateLegacyBranch(tx, b), listed)])
          /\ lossy' = (lossy \/ missed # {})
          /\ mishaps' = mishaps + Cardinality(missed)
    /\ UNCHANGED <<deployment, environment, tables, recorded, migrationLock, deploymentId, late>>

\* Mutant: each branch knows the first channel that maps to it.
FirstChannelOnly(c, branches) ==
    LET b == expoMapping[c] IN
    IF b \in branches /\ c = CHOOSE d \in LegacyChannels : expoMapping[d] = b
    THEN b ELSE NoLegacyBranch

\* The branch of a channel, by the channel's own mapping.
ChannelBranch(c, branches) ==
    IF expoMapping[c] \in branches THEN expoMapping[c] ELSE NoLegacyBranch

\* MigrateLegacyChannel, on conflict the branch.
MigrateLegacyChannel(tx) ==
    [tx EXCEPT !.channels = [c \in LegacyChannels |-> ChannelBranch(c, tx.branches)]]

\* Every channel at Expo.
MigrateChannels(r) ==
    /\ replica[r].pc = "branches" /\ replica[r].todo = {}
    /\ Boot(r, [replica[r] EXCEPT !.pc = "commit", !.tx = MigrateLegacyChannel(@)])
    /\ UNCHANGED <<deployment, environment, tables, recorded, migrationLock, deploymentId, mishaps,
                   late, lossy>>

\* The engine's own transaction commits, before goose's.
CommitInfra(r) ==
    /\ replica[r].pc = "commit"
    /\ tables' = replica[r].tx
    /\ Boot(r, [Down EXCEPT !.pc = "record"])
    /\ UNCHANGED <<deployment, environment, recorded, migrationLock, deploymentId, mishaps, late, lossy>>

\* goose records a version.
RecordVersion(r, version) == recorded' = recorded \cup {version} /\ GoTo(r, "up")

RecordInfra(r) ==
    /\ replica[r].pc = "record"
    /\ RecordVersion(r, "infra")
    /\ UNCHANGED <<deployment, environment, tables, migrationLock, deploymentId, mishaps, late, lossy>>

\* UpSeedFirstAdminUser, in the transaction of goose: without credentials the server
\* does not boot.
SeedFirstAdminUser(r) ==
    /\ replica[r].pc = "admin"
    /\ IF tables.admins = 0 /\ ~environment.admin
       THEN Fatal(r) /\ UNCHANGED <<tables, recorded>>
       ELSE /\ tables' = [tables EXCEPT !.admins = IF @ = 0 THEN 1 ELSE @]
            /\ RecordVersion(r, "admin")
            /\ UNCHANGED migrationLock
    /\ UNCHANGED <<deployment, environment, deploymentId, mishaps, late, lossy>>

\* ListUpdatesWithoutAssetMapping.
ListUpdatesWithoutAssetMapping == {u.id : u \in {v \in tables.updates : v.mapping = "none" /\ v.kind = "update"}}

StartBackfill(r) ==
    /\ replica[r].pc = "backfill"
    /\ Boot(r, [replica[r] EXCEPT !.pc = "copy", !.todo = ListUpdatesWithoutAssetMapping])
    /\ UNCHANGED <<deployment, environment, tables, recorded, migrationLock, deploymentId, mishaps,
                   late, lossy>>

\* A storage error aborts the migration.
StorageFails(r) == Fatal(r)

\* UpBackfillUpdateAssetMapping, committed row by row: SetUpdateAssetMapping, unless
\* the legacyFolder has no mapping or one that cannot be parsed.
BackfillUpdate(r) ==
    /\ replica[r].pc = "copy" /\ replica[r].todo # {}
    /\ LET i == Min(replica[r].todo) IN
       \/ /\ tables' = IF legacyFolder[i].mapping = "valid"
                       THEN [tables EXCEPT !.updates =
                                {IF u.id = i THEN [u EXCEPT !.mapping = "valid"] ELSE u : u \in @}]
                       ELSE tables
          /\ Boot(r, [replica[r] EXCEPT !.todo = @ \ {i}])
          /\ UNCHANGED <<migrationLock, mishaps>>
       \/ /\ MayMishap /\ mishaps' = mishaps + 1
          /\ StorageFails(r)
          /\ UNCHANGED tables
    /\ UNCHANGED <<deployment, environment, recorded, deploymentId, late, lossy>>

RecordBackfill(r) ==
    /\ replica[r].pc = "copy" /\ replica[r].todo = {}
    /\ RecordVersion(r, "backfill")
    /\ UNCHANGED <<deployment, environment, tables, migrationLock, deploymentId, mishaps, late, lossy>>

\* The operator sets what was missing.
FixEnvironment ==
    /\ ~(environment.keys /\ environment.admin)
    /\ environment' = [environment EXCEPT !.keys = TRUE, !.admin = TRUE]
    /\ UNCHANGED <<deployment, tables, recorded, migrationLock, replica, deploymentId, mishaps, late, lossy>>

MoveNext ==
    \/ \E b \in LegacyBranches, p \in LegacyPlatforms :
          \E k \in FolderKinds : CreateFolder(b, p, k)
    \/ \E i \in Folders : CheckFolder(i)
    \/ \E c \in LegacyChannels, b \in LegacyBranches : RemapAtExpo(c, b)
    \/ \E r \in Replicas :
          \/ StartStateless(r) \/ LockInstanceId(r) \/ ReadAgain(r) \/ PersistInstanceId(r)
          \/ AcquireMigrationLock(r) \/ StartVersion(r) \/ ReplicaDies(r)
          \/ MigrateApp(r) \/ MigrateBranch(r) \/ MigrateChannels(r) \/ CommitInfra(r) \/ RecordInfra(r)
          \/ SeedFirstAdminUser(r) \/ StartBackfill(r) \/ BackfillUpdate(r) \/ RecordBackfill(r)
          \/ ReadInstanceId(r) \/ InsertServerInstance(r)
    \/ FixEnvironment

MoveSpec == MoveInit /\ [][MoveNext]_migrationVars

-----------------------------------------------------------------------------
\* GetLatestUpdate of the database, of the branch a channel maps to.
LatestRow(c, p) ==
    LET rows == {u \in tables.updates : u.branch = tables.channels[c] /\ u.platform = p} IN
    IF rows = {} THEN 0 ELSE Max({u.id : u \in rows})

\* The move changes nothing for devices: each channel serves the update it served
\* before, unless the bucket or Expo changed under the migration, or it took a read
\* that failed for a damaged file.
ServesTheSame ==
    "infra" \in recorded /\ ~late /\ ~lossy =>
        \A c \in LegacyChannels, p \in LegacyPlatforms :
            LatestRow(c, p) = IF expoMapping[c] = NoLegacyBranch THEN 0 ELSE LatestFolder(expoMapping[c], p)

\* "An interrupted boot resumes from the updates still missing one": once the backfill
\* is recorded, every migrated update whose legacyFolder has a mapping has it in its row.
MappingsAreBackfilled ==
    "backfill" \in recorded =>
        \A u \in tables.updates : u.kind = "update" /\ legacyFolder[u.id].mapping = "valid" => u.mapping = "valid"

\* A replica serves only a database with the keys devices have pinned, and with an
\* administrator who can sign in.
ServesWithKeys ==
    \A r \in Replicas : replica[r].pc = "serving" =>
        /\ tables.key = IF environment.mode = "aws-secrets-manager" THEN "secret" ELSE "sealed"
        /\ tables.admins = 1

\* "Concurrent replicas agree on a single one", and a deployment that moves to the
\* database "keeps its bucket-minted id": every replica has the id that is stored, and
\* the database has the bucket's, unless the bucket could not be read, a replica was
\* tired of waiting for the lock, or the move overtook the first stateless boot.
OneDeploymentId ==
    /\ \A r \in Replicas : replica[r].pc = "serving" => replica[r].id = deploymentId.database
    /\ ~lossy => /\ \A r \in Replicas : replica[r].pc = "stateless" => replica[r].id = deploymentId.bucket
                 /\ deploymentId.bucket # NoId /\ deploymentId.database # NoId
                        => deploymentId.bucket = deploymentId.database

\* What the move to the control plane promises.
MoveSound == ServesTheSame /\ MappingsAreBackfilled /\ ServesWithKeys /\ OneDeploymentId
=============================================================================

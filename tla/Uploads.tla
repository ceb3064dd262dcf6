------------------------------ MODULE Uploads -------------------------------
(***************************************************************************)
(* What a publish uploads, and what devices are then given, for one        *)
(* branch, runtime version and platform: the request for upload URLs, the  *)
(* uploads themselves, the call that verifies and publishes, republishing, *)
(* and the composition of manifests behind their cache.  The same code     *)
(* runs over two stores, which upMode chooses between: rows of updates and *)
(* a folder of files ("db"), or everything in the folder ("bucket").       *)
(* Every read or write of the store is a step of its own, calls overlap,   *)
(* and a read may fail.  Rollouts are the subject of Publishing, the cache *)
(* of the newest update that of Serving.                                   *)
(***************************************************************************)
EXTENDS Naturals, Sequences, FiniteSets

CONSTANTS
    UpdateIds,      \* the ids a publish may be given
    Publications,   \* the file lists clients publish
    KnownHashes,    \* what the app's other branches have stored
    Uploaders,      \* CLI runs
    Calls,          \* markUpdateAsUploaded and republish calls in flight
    UploadModes,    \* the stores to run over, of "db" and "bucket"
    Absent,         \* nil
    MaxFailedReads  \* bound on reads of the store that fail

ASSUME UploadsAssumption ==
    /\ UpdateIds \subseteq Nat \ {0}
    /\ \A p \in Publications : p.config \in {"good", "bad", "none"} /\ p.map \in BOOLEAN
    /\ UploadModes \subseteq {"db", "bucket"}
    /\ MaxFailedReads \in Nat

VARIABLES
    upMode,         \* the store
    row,            \* the row of an update, or what its update-metadata.json says
    folder,         \* the files of an update folder
    stored,         \* the content-addressed store: what its keys hold
    mapped,         \* the source maps in their store
    metadataCache,  \* updates whose metadata.json is cached
    manifestCache,  \* the composed manifests
    uploader,       \* the CLI runs
    call,           \* the calls in flight
    device,         \* the poll in flight
    harmed,         \* updates whose folder a failed verification deleted, and copies of them
    failed          \* failed reads so far

uploadVars == <<upMode, row, folder, stored, mapped, metadataCache, manifestCache, uploader,
                call, device, harmed, failed>>
storage == <<row, folder, stored, mapped>>
composed == <<metadataCache, manifestCache>>
clients == <<uploader, device>>

-----------------------------------------------------------------------------
(* A file list names the launch asset and the assets by content, the assets *)
(* in the order of the export; two of them may be the same content.         *)

NoRow == Absent
NoEntry == Absent             \* an update published before the mapping existed
NoManifest == Absent
EmptyFolder == [metadata |-> FALSE, config |-> "none", assets |-> FALSE, check |-> FALSE]

\* assetMapping: the manifest half of the list.
assetMapping(files) == [launch |-> files.launch, assets |-> files.assets, config |-> files.config]

HashesOf(mapping) == {mapping.launch} \cup {mapping.assets[i] : i \in DOMAIN mapping.assets}

\* AreUpdatesIdentical: every incoming asset takes one stored asset of its hash.
AreUpdatesIdentical(old, new) ==
    LET count(i) == Cardinality({j \in DOMAIN old.assets : old.assets[j] = new.assets[i]})
        taken(i) == Cardinality({j \in 1..(i - 1) : new.assets[j] = new.assets[i]}) IN
    /\ old # NoEntry
    /\ old.launch = new.launch
    /\ Len(old.assets) = Len(new.assets)
    /\ \A i \in DOMAIN new.assets : count(i) > taken(i)
    /\ old.config = new.config

Rows == {u \in UpdateIds : row[u] # NoRow}

\* Updates are checked by a column, or by a .check file beside update-metadata.json.
CheckedRows == {u \in Rows : row[u].checked}
CheckedFolders == {u \in Rows : folder[u].check}

\* IsUpdateValid.
IsLive == IF upMode = "db" THEN CheckedRows ELSE CheckedFolders

\* GetLatestUpdate: the newest checked update, nil when there is none.
Latest == {u \in IsLive : \A w \in IsLive : w <= u}

\* GetUpdateType.
NormalUpdates == {u \in Rows : ~row[u].rollback}

\* InsertUpdate.
InsertUpdate(u, rollback) ==
    [row EXCEPT ![u] = [mapping |-> NoEntry, uuid |-> FALSE, checked |-> FALSE, map |-> FALSE,
                        rollback |-> rollback]]

\* CreateUpdate: the row, or a fresh update-metadata.json.
CreateUpdate(u) == InsertUpdate(u, FALSE)

\* The columns a publish fills in one by one.
SetUpdateAssetMapping(r, mapping) == [r EXCEPT !.mapping = mapping]
SetUpdateSourcemapHash(r, map) == [r EXCEPT !.map = map]

\* Mutant: the manifest id is left out of what is written.
WithoutUUID(r) == [r EXCEPT !.checked = r.checked]

\* StoreUpdateUUID, the statement.
WithUUID(r) == [r EXCEPT !.uuid = TRUE]

\* StoreUpdateAssetMapping, and StoreUpdateSourcemapHash.
StoreUpdateAssetMapping(rows, u, mapping) == [rows EXCEPT ![u] = SetUpdateAssetMapping(@, mapping)]
StoreUpdateSourcemapHash(rows, u, map) == [rows EXCEPT ![u] = SetUpdateSourcemapHash(@, map)]

\* GenerateUpdateTimestamp.
NewUpdateId == {u \in UpdateIds \ Rows : /\ folder[u] = EmptyFolder
                                        /\ u \notin harmed
                                        /\ \A w \in Rows \cup harmed : w < u}

IdleUploader == [pc |-> "idle", files |-> NoEntry, id |-> 0, todo |-> {}, against |-> NoEntry]
IdleCall == [pc |-> "idle", id |-> 0, mapping |-> NoEntry, map |-> FALSE, from |-> 0]
IdleDevice == [pc |-> "idle", id |-> 0, row |-> NoRow]

BecomeUploader(c, x) == uploader' = [uploader EXCEPT ![c] = x]
BecomeCall(k, x) == call' = [call EXCEPT ![k] = x]
Goto(k, pc) == BecomeCall(k, [call[k] EXCEPT !.pc = pc])

\* A read of the store fails.
ReadFails == failed < MaxFailedReads /\ failed' = failed + 1

\* Before anything is published, or with one update of the layout that kept the
\* assets in the update folder.
UploadsInit ==
    /\ upMode \in UploadModes
    /\ \E legacy \in {{}, {1}} :
          /\ row = [u \in UpdateIds |->
                        IF u \in legacy
                        THEN [mapping |-> NoEntry, uuid |-> TRUE, checked |-> TRUE,
                              map |-> FALSE, rollback |-> FALSE]
                        ELSE NoRow]
          /\ folder = [u \in UpdateIds |->
                        IF u \in legacy 
                        THEN [metadata |-> TRUE, config |-> "good", assets |-> TRUE, check |-> TRUE]
                        ELSE EmptyFolder]
    /\ stored = KnownHashes /\ mapped = FALSE
    /\ metadataCache = {} /\ manifestCache = [u \in UpdateIds |-> NoManifest]
    /\ uploader = [c \in Uploaders |-> IdleUploader]
    /\ call = [k \in Calls |-> IdleCall]
    /\ device = IdleDevice
    /\ harmed = {} /\ failed = 0

-----------------------------------------------------------------------------
(* requestUploadUrl.                                                        *)

\* isIdenticalToLatest: read from the repository, not from the cached envelope; a
\* read that fails never refuses a publish.  A run may follow another.
CompareWithLatest(c, files) ==
    /\ uploader[c].pc # "request" /\ uploader[c].todo = {}
    /\ \/ LET same == {u \in Latest : AreUpdatesIdentical(row[u].mapping, assetMapping(files))} IN
          /\ BecomeUploader(c, [IdleUploader EXCEPT
                !.pc = IF same = {} THEN "request" ELSE "refused", !.files = files,
                !.against = IF same = {} THEN NoEntry ELSE row[CHOOSE u \in same : TRUE].mapping])
          /\ UNCHANGED failed
       \/ /\ ReadFails
          /\ BecomeUploader(c, [IdleUploader EXCEPT !.pc = "request", !.files = files])
    /\ UNCHANGED <<upMode, storage, composed, call, device, harmed>>

\* RequestUploadUrlsForFileUpdates: config files to the update folder, the other
\* files to the content-addressed store, each content once.
UploadRequests(files, deduped) ==
    {"metadata.json"}
        \cup (IF files.config = "none" THEN {} ELSE {"expoConfig.json"})
        \cup (HashesOf(files) \ deduped)
        \cup (IF files.map /\ ~mapped THEN {"sourcemap"} ELSE {})

\* dedupExistingUploadAssets: what is stored already, unless the store cannot tell.
Deduplicated(files, unsure) == (HashesOf(files) \cap stored) \ unsure

\* RequestUploadURLs: the URLs are signed, then the row is created and given its
\* mapping, whose blobs need not exist yet, and its source map hash.  A statement that
\* fails leaves the row of an update nobody was told of.
RequestUploadURLs(c) ==
    LET files == uploader[c].files IN
    /\ uploader[c].pc = "request"
    /\ \E u \in NewUpdateId, unsure \in SUBSET (HashesOf(files) \cap stored) :
          LET created == StoreUpdateAssetMapping(CreateUpdate(u), u, assetMapping(files)) IN
          \/ /\ IF unsure = {} THEN UNCHANGED failed ELSE ReadFails
             /\ row' = StoreUpdateSourcemapHash(created, u, files.map)
             /\ BecomeUploader(c, [uploader[c] EXCEPT !.pc = "upload", !.id = u,
                    !.todo = UploadRequests(files, Deduplicated(files, unsure))])
          \/ /\ unsure = {} /\ ReadFails
             /\ row' \in {CreateUpdate(u), created}
             /\ BecomeUploader(c, IdleUploader)
    /\ UNCHANGED <<upMode, folder, stored, mapped, composed, call, device, harmed>>

\* One PUT.  HandleUpload keeps a blob or a source map only when its bytes hash to
\* its name, and the store shows a file whole or not at all, so what is there is
\* what the list named.
PutUpload(c, f) ==
    LET u == uploader[c].id IN
    /\ uploader[c].pc = "upload"
    /\ BecomeUploader(c, [uploader[c] EXCEPT !.todo = @ \ {f}])
    /\ CASE f = "metadata.json" ->
                /\ folder' = [folder EXCEPT ![u].metadata = TRUE] /\ UNCHANGED <<stored, mapped>>
         [] f = "expoConfig.json" ->
                /\ folder' = [folder EXCEPT ![u].config = uploader[c].files.config]
                /\ UNCHANGED <<stored, mapped>>
         [] f = "sourcemap" -> mapped' = TRUE /\ UNCHANGED <<folder, stored>>
         [] OTHER -> stored' = stored \cup {f} /\ UNCHANGED <<folder, mapped>>
    /\ UNCHANGED <<upMode, row, composed, call, device, harmed, failed>>

-----------------------------------------------------------------------------
(* markUpdateAsUploaded.  A client calls it again when an answer is lost or  *)
(* is a server error, and the first call runs to its end all the same.       *)

\* GetUpdateAssetMapping, and GetUpdateSourcemapHash.
MappingOf(u) == row[u].mapping
SourcemapHashOf(u) == row[u].map

\* ProcessUploadedUpdate starts with the row and its mapping.  The server cannot tell
\* a configuration that was not uploaded from an update without one, so the client
\* uploads it first.
MarkUpdateAsUploadedHandler(k, u) ==
    /\ call[k].pc = "idle"
    /\ u \in Rows
    /\ \E c \in Uploaders : uploader[c].id = u /\ "expoConfig.json" \notin uploader[c].todo
    /\ BecomeCall(k, [IdleCall EXCEPT !.pc = "metadata", !.id = u, !.mapping = MappingOf(u),
                                      !.map = SourcemapHashOf(u)])
    /\ UNCHANGED <<upMode, storage, composed, clients, harmed, failed>>

\* GetMetadata: the cache, else the folder, which fills the cache.
MetadataKnown(u) == u \in metadataCache \/ folder[u].metadata
CacheMetadata(u) == metadataCache' = metadataCache \cup {u}

\* VerifyUploadedUpdate reads metadata.json; without it, or when the read fails, the
\* folder goes.
VerifyMetadata(k) ==
    LET u == call[k].id IN
    /\ call[k].pc = "metadata"
    /\ \/ MetadataKnown(u) /\ CacheMetadata(u) /\ Goto(k, "config") /\ UNCHANGED failed
       \/ ~MetadataKnown(u) /\ Goto(k, "clear") /\ UNCHANGED <<metadataCache, failed>>
       \/ u \notin metadataCache /\ ReadFails /\ Goto(k, "clear") /\ UNCHANGED metadataCache
    /\ UNCHANGED <<upMode, storage, manifestCache, clients, harmed>>

\* GetExpoConfig: a missing file is an empty configuration, a malformed one fails the
\* publish, and a read that fails keeps the folder for another call.
VerifyConfig(k) ==
    /\ call[k].pc = "config"
    /\ \/ /\ Goto(k, IF folder[call[k].id].config = "bad" THEN "clear" ELSE "files")
          /\ UNCHANGED failed
       \/ ReadFails /\ BecomeCall(k, IdleCall)
    /\ UNCHANGED <<upMode, storage, composed, clients, harmed>>

\* verifyFolderUploaded, for an update without a mapping.
FolderUploaded(u) == folder[u].assets

\* verifyBlobsUploaded, of each file the mapping names.
FilesUploaded(u, mapping) == IF mapping = NoEntry THEN FolderUploaded(u)
                             ELSE HashesOf(mapping) \subseteq stored

\* The files the update announces; a check that fails counts as a missing file.
VerifyFiles(k) ==
    /\ call[k].pc = "files"
    /\ \/ /\ Goto(k, IF FilesUploaded(call[k].id, call[k].mapping) THEN "map" ELSE "clear")
          /\ UNCHANGED failed
       \/ ReadFails /\ Goto(k, "clear")
    /\ UNCHANGED <<upMode, storage, composed, clients, harmed>>

\* verifySourcemapUploaded: a declared source map must be there, and a store that
\* cannot tell keeps the folder.
VerifySourcemap(k) ==
    /\ call[k].pc = "map"
    /\ \/ Goto(k, IF mapped THEN "uuid" ELSE "clear") /\ UNCHANGED failed
       \/ ReadFails /\ BecomeCall(k, IdleCall)
    /\ UNCHANGED <<upMode, storage, composed, clients, harmed>>

\* The update folder is deleted.  With everything in the bucket, the row goes with it.
ClearFolder(k) ==
    LET u == call[k].id IN
    /\ call[k].pc = "clear"
    /\ folder' = [folder EXCEPT ![u] = EmptyFolder]
    /\ row' = IF upMode = "bucket" THEN [row EXCEPT ![u] = NoRow] ELSE row
    /\ harmed' = harmed \cup {u}
    /\ BecomeCall(k, IdleCall)
    /\ UNCHANGED <<upMode, stored, mapped, composed, clients, failed>>

\* getUpdateUUIDFromMetadata finds no metadata, or cannot read it: the id is empty,
\* which the database refuses and the bucket stores.
StoreEmptyUUID(k) ==
    LET u == call[k].id IN
    /\ call[k].pc = "uuid"
    /\ \/ ~MetadataKnown(u) /\ UNCHANGED failed
       \/ u \notin metadataCache /\ ReadFails
    /\ IF upMode = "bucket" /\ u \in Rows
       THEN Goto(k, "check") /\ harmed' = harmed \cup {u}
       ELSE BecomeCall(k, IdleCall) /\ UNCHANGED harmed
    /\ UNCHANGED <<upMode, storage, composed, clients>>

\* MarkUpdateAsChecked, its first half: the manifest id, from metadata.json.  The
\* database takes it in one statement; mutateUpdateMetadataFile reads the file and
\* writes it back in another step.  An update that is gone ends the call.
StoreUpdateUUID(k) ==
    LET u == call[k].id IN
    /\ call[k].pc = "uuid" /\ MetadataKnown(u)
    /\ CacheMetadata(u)
    /\ IF u \notin Rows THEN BecomeCall(k, IdleCall) /\ UNCHANGED row
       ELSE IF upMode = "db" THEN row' = [row EXCEPT ![u] = WithUUID(@)] /\ Goto(k, "check")
       ELSE Goto(k, "write") /\ UNCHANGED row
    /\ UNCHANGED <<upMode, folder, stored, mapped, manifestCache, clients, harmed, failed>>

\* mutateUpdateMetadataFile writes the file it read, whatever became of the folder.
MutateUpdateMetadataFile(k) ==
    LET u == call[k].id IN
    /\ call[k].pc = "write"
    /\ row' = [row EXCEPT ![u] = WithUUID([mapping |-> call[k].mapping, map |-> call[k].map,
                                           checked |-> FALSE, uuid |-> FALSE, rollback |-> FALSE])]
    /\ Goto(k, "check")
    /\ UNCHANGED <<upMode, folder, stored, mapped, composed, clients, harmed, failed>>

\* MarkUpdateAsChecked, its second half: the statement, or the .check file.
MarkUpdateAsChecked(k) ==
    LET u == call[k].id IN
    /\ call[k].pc = "check"
    /\ IF upMode = "db" THEN row' = [row EXCEPT ![u].checked = TRUE] /\ UNCHANGED folder
       ELSE folder' = [folder EXCEPT ![u].check = TRUE] /\ UNCHANGED row
    /\ BecomeCall(k, IdleCall)
    /\ UNCHANGED <<upMode, stored, mapped, composed, clients, harmed, failed>>

-----------------------------------------------------------------------------
(* republish and rollback.                                                  *)

\* republishUpdateInternal reads a checked update with its mapping and source map.
RepublishUpdate(k, u) ==
    /\ call[k].pc = "idle"
    /\ u \in IsLive \cap NormalUpdates
    /\ BecomeCall(k, [pc |-> "copy", id |-> 0, mapping |-> MappingOf(u), map |-> SourcemapHashOf(u),
                      from |-> u])
    /\ UNCHANGED <<upMode, storage, composed, clients, harmed, failed>>

\* CreateFrom copies the folder under a new id, without the marks of its own, and the
\* row is created with the mapping of the source.
CreateFrom(k) ==
    LET from == call[k].from IN
    /\ call[k].pc = "copy"
    /\ \E u \in NewUpdateId :
          /\ folder' = [folder EXCEPT ![u] = [folder[from] EXCEPT !.check = FALSE]]
          /\ row' = StoreUpdateSourcemapHash(
                        StoreUpdateAssetMapping(CreateUpdate(u), u, call[k].mapping),
                        u, call[k].map)
          /\ harmed' = IF from \in harmed THEN harmed \cup {u} ELSE harmed
          /\ BecomeCall(k, [call[k] EXCEPT !.pc = "uuid", !.id = u])
    /\ UNCHANGED <<upMode, stored, mapped, composed, clients, failed>>

\* CreateRollback: a row, or a marker, with no files, which is checked next.
CreateRollback(k) ==
    /\ call[k].pc = "idle"
    /\ \E u \in NewUpdateId :
          /\ row' = InsertUpdate(u, TRUE)
          /\ BecomeCall(k, [IdleCall EXCEPT !.pc = "check", !.id = u])
    /\ UNCHANGED <<upMode, folder, stored, mapped, composed, clients, harmed, failed>>

-----------------------------------------------------------------------------
(* Polls, and the prewarming that composes as a poll would.                 *)

\* A device is served the newest update, from the cache of composed manifests.
\* cachedManifestResponse, on a miss: GetMetadata, then the row and its mapping.
PollManifest ==
    /\ device.pc = "idle"
    /\ \E u \in Latest \cap NormalUpdates :
                         /\ manifestCache[u] = NoManifest /\ MetadataKnown(u)
                         /\ CacheMetadata(u)
                         /\ device' = [pc |-> "compose", id |-> u, row |-> row[u]]
    /\ UNCHANGED <<upMode, storage, manifestCache, uploader, call, harmed, failed>>

\* manifestAssets: by the mapping, or from the files of the folder.
AssetsComposable(u, mapping) == mapping = NoEntry => folder[u].assets

\* ComposeUpdateManifest.
Manifest(u, r) == [uuid |-> r.uuid, config |-> folder[u].config, assets |-> r.mapping]

\* The configuration is read, and the manifest is composed, cached for a week and
\* served.
ComposeAndCache ==
    LET u == device.id IN
    /\ device.pc = "compose"
    /\ manifestCache' = IF folder[u].config # "bad" /\ AssetsComposable(u, device.row.mapping)
                        THEN [manifestCache EXCEPT ![u] = Manifest(u, device.row)]
                        ELSE manifestCache
    /\ device' = IdleDevice
    /\ UNCHANGED <<upMode, storage, metadataCache, uploader, call, harmed, failed>>

\* What is cached about an update expires, or the poll meets a replica that has none.
ExpireComposed(u) ==
    /\ u \in metadataCache \/ manifestCache[u] # NoManifest
    /\ metadataCache' = metadataCache \ {u}
    /\ manifestCache' = [manifestCache EXCEPT ![u] = NoManifest]
    /\ UNCHANGED <<upMode, storage, clients, call, harmed, failed>>

UploadsNext ==
    \/ \E c \in Uploaders :
        \/ \E files \in Publications : CompareWithLatest(c, files)
        \/ RequestUploadURLs(c)
        \/ \E f \in uploader[c].todo : PutUpload(c, f)
    \/ \E k \in Calls :
        \/ \E u \in UpdateIds : MarkUpdateAsUploadedHandler(k, u)
        \/ VerifyMetadata(k) \/ VerifyConfig(k) \/ VerifyFiles(k) \/ VerifySourcemap(k)
        \/ ClearFolder(k) \/ StoreEmptyUUID(k) \/ StoreUpdateUUID(k)
        \/ MutateUpdateMetadataFile(k) \/ MarkUpdateAsChecked(k)
        \/ \E u \in UpdateIds : RepublishUpdate(k, u)
        \/ CreateFrom(k) \/ CreateRollback(k)
    \/ PollManifest \/ ComposeAndCache
    \/ \E u \in UpdateIds : ExpireComposed(u)

UploadsSpec == UploadsInit /\ [][UploadsNext]_uploadVars

-----------------------------------------------------------------------------
\* The configuration an update was published with.
PublishedConfig(u) == IF row[u].mapping = NoEntry THEN "good" ELSE row[u].mapping.config

\* ProcessUploadedUpdate publishes whole updates: whatever calls overlap, a live
\* update has its manifest id, its metadata, the configuration it was published
\* with, every file it announces and its source map.  An update whose folder a
\* failed verification deleted is left out: a later call finds its metadata in the
\* cache and takes the missing configuration for an empty one.
LiveUpdatesAreWhole ==
    \A u \in (IsLive \cap NormalUpdates) \ harmed :
        /\ row[u].uuid /\ folder[u].metadata
        /\ folder[u].config = PublishedConfig(u)
        /\ IF row[u].mapping = NoEntry THEN folder[u].assets
           ELSE HashesOf(row[u].mapping) \subseteq stored
        /\ row[u].map => mapped

\* A published update is immutable, which is what lets cachedManifestResponse keep
\* its manifest for a week: every manifest that is served for it, whenever it was
\* composed, is the manifest of what was published, id included.
ManifestsNeverChange ==
    \A u \in (IsLive \cap NormalUpdates) \ harmed :
        manifestCache[u] # NoManifest =>
            manifestCache[u] = [uuid |-> TRUE, config |-> PublishedConfig(u),
                                assets |-> row[u].mapping]

\* The same content: the assets of one list are those of the other, in some order.
SameContent(old, new) ==
    /\ old # NoEntry /\ old.launch = new.launch /\ old.config = new.config
    /\ \E f \in [DOMAIN new.assets -> DOMAIN old.assets] :
          /\ Len(new.assets) = Len(old.assets)
          /\ \A i, j \in DOMAIN new.assets : f[i] = f[j] => i = j
          /\ \A i \in DOMAIN new.assets : new.assets[i] = old.assets[f[i]]

\* RequestUploadURLs refuses only a publish of what the branch already serves: one
\* more copy of an asset, or another order of other assets, is a change.
RefusedOnlyUnchanged ==
    \A c \in Uploaders :
        uploader[c].pc = "refused" => SameContent(uploader[c].against, uploader[c].files)

\* What a publish promises.
UploadsSound == LiveUpdatesAreWhole /\ ManifestsNeverChange /\ RefusedOnlyUnchanged
=============================================================================

---------------------------- MODULE DeviceAnswers ----------------------------
(***************************************************************************)
(* What a device is told and what it downloads, once the update of its     *)
(* branch is resolved: the manifest, the directives, their signature and   *)
(* the launch asset, whole or as a patch.  Between the rows and the answer *)
(* stand caches that nothing invalidates: the app configuration with its   *)
(* signing key, signatures, composed manifests, updates by uuid and the    *)
(* existence of patches.  One device polls one branch; the update embedded *)
(* in its binary is 0.                                                     *)
(***************************************************************************)
EXTENDS Naturals, Sequences, FiniteSets

CONSTANTS
    MaxPublications,    \* bound on the updates and rollbacks of the branch
    MaxKeys,            \* bound on the signing keys the app has had
    ConfigTTL,          \* appConfigCacheTTLSeconds, in ticks
    Protocols,          \* expo-protocol-version values
    Refusals,           \* branches a poll is refused, "" for none
    Focuses             \* bound: the caches a behaviour exercises, the keys
                        \* sealed in the database, keys by reference, or patches

ASSUME AnswersAssumption ==
    /\ MaxPublications \in Nat /\ MaxKeys \in Nat \ {0} /\ ConfigTTL \in Nat
    /\ Protocols \subseteq {0, 1} /\ "" \in Refusals
    /\ Focuses \subseteq {"sealed", "referenced", "patches"}

VARIABLES
    focus,          \* which of Focuses this behaviour exercises
    releases,       \* the branch: what each of its updates is, or "gone"
    patches,        \* the patch store, pairs of a source and a target
    signingKey,     \* the key of the app; 0 when the app is deleted
    retired,        \* how long ago each key was replaced
    configCache,    \* the cached configuration: its key and its age
    signatures,     \* the signature cache
    entries,        \* the composed manifests
    knownUuids,     \* cached lookups by uuid, and their outcome
    knownPatches,   \* cached existence of patches
    handset,        \* the device
    reply,          \* its poll, and the answer
    download        \* its download, and the answer

answerVars == <<focus, releases, patches, signingKey, retired, configCache, signatures,
                entries, knownUuids, knownPatches, handset, reply, download>>
server == <<focus, releases, patches, signingKey, retired>>
lookups == <<knownUuids, knownPatches>>

-----------------------------------------------------------------------------
Embedded == 0
Releases == DOMAIN releases
ReleaseGone(u) == u # Embedded /\ releases[u] = "gone"
NewestRelease == IF ReleaseGone(Len(releases)) THEN Embedded ELSE Len(releases)

NoConfig == [key |-> 0, age |-> 0]
NoSignature == [key |-> 0, content |-> <<"unsigned">>]
IdleReply == [pc |-> "idle", protocol |-> 1, refused |-> "", release |-> Embedded,
              kind |-> "none", signed |-> FALSE, content |-> <<"none">>, signature |-> NoSignature,
              age |-> 0]
IdleDownload == [pc |-> "idle", body |-> <<"none">>, redirected |-> FALSE]

\* The answers: a manifest as it is composed, perhaps stamped, and the directives.
NoUpdateAvailable == <<"noUpdateAvailable">>
RollBackToEmbedded(u) == <<"rollBackToEmbedded", u>>
ManifestOf(u, refused) == <<"manifest", u, refused>>
Error == <<"error">>

AnswersInit ==
    /\ focus \in Focuses
    /\ releases = <<>> /\ patches = {}
    /\ signingKey = 1 /\ retired = [k \in 1..MaxKeys |-> 0]
    /\ configCache = NoConfig /\ signatures = {} /\ entries = {}
    /\ knownUuids = {} /\ knownPatches = {}
    /\ handset = [current |-> Embedded, wanted |-> Embedded, by |-> "hash"]
    /\ reply = IdleReply /\ download = IdleDownload

-----------------------------------------------------------------------------
(* What operators and publishes do.                                         *)

\* A publish or a rollback goes live.  A row of an early version has no stored uuid.
Release(kind) ==
    /\ signingKey # 0 /\ Len(releases) < MaxPublications
    /\ releases' = Append(releases, kind)
    /\ UNCHANGED <<focus, patches, signingKey, retired, configCache, signatures, entries,
                   lookups, handset, reply, download>>

\* A patch job stores the patch between two updates.
StorePatch(source, target) ==
    /\ focus = "patches" /\ source < target
    /\ {releases[source], releases[target]} \subseteq {"update", "legacy"}
    /\ patches' = patches \cup {<<source, target>>}
    /\ UNCHANGED <<focus, releases, signingKey, retired, configCache, signatures, entries,
                   lookups, handset, reply, download>>

\* DeleteBranch takes the updates and the patches of the branch.
AllGone == releases' = [u \in Releases |-> "gone"] /\ patches' = {}
DropBranch ==
    /\ focus = "patches" /\ NewestRelease # Embedded
    /\ AllGone
    /\ UNCHANGED <<focus, signingKey, retired, configCache, signatures, entries, lookups, handset,
                   reply, download>>

\* The keys the app has not had yet.
NewKeys == {k \in 1..MaxKeys : k # signingKey /\ retired[k] = 0}

\* DeleteAppByID takes the app and its branches.
DeleteAppByID == signingKey' = 0 /\ AllGone

DeleteApp ==
    /\ focus = "sealed" /\ signingKey # 0
    /\ DeleteAppByID
    /\ retired' = [retired EXCEPT ![signingKey] = 1]
    /\ UNCHANGED <<focus, configCache, signatures, entries, lookups, handset, reply, download>>

\* InsertApp, of an id that is free.
InsertApp(k) == signingKey = 0 /\ signingKey' = k

\* createApp: a deleted app is created again under its id, with a key pair of its own.
CreateAppWithId ==
    /\ \E k \in NewKeys : InsertApp(k)
    /\ UNCHANGED <<focus, releases, patches, retired, configCache, signatures, entries, lookups,
                   handset, reply, download>>

\* An operator replaces the file or the secret the configuration refers to.
RotateKey ==
    /\ focus = "referenced"
    /\ \E k \in NewKeys : signingKey' = k
    /\ retired' = [retired EXCEPT ![signingKey] = 1]
    /\ UNCHANGED <<focus, releases, patches, configCache, signatures, entries, lookups, handset,
                   reply, download>>

\* A second passes: a cached configuration ages, and goes when its time is up.
TickConfig ==
    /\ focus # "patches"
    /\ configCache # NoConfig \/ \E k \in 1..MaxKeys : retired[k] \in 1..(ConfigTTL + 1)
    /\ configCache' = IF configCache = NoConfig \/ configCache.age >= ConfigTTL THEN NoConfig
                      ELSE [configCache EXCEPT !.age = @ + 1]
    /\ retired' = [k \in 1..MaxKeys |-> IF retired[k] \in 1..(ConfigTTL + 1) THEN retired[k] + 1
                                        ELSE retired[k]]
    /\ UNCHANGED <<focus, releases, patches, signingKey, signatures, entries, lookups, handset,
                   reply, download>>

-----------------------------------------------------------------------------
(* The manifest route.                                                      *)

\* GetAppByID: the row, if there is one.
GetAppByID == signingKey

\* readExpoKey unseals the key the configuration holds, or reads the file or the
\* secret it refers to.
ReadExpoKey == IF configCache # NoConfig /\ focus # "referenced" THEN configCache.key ELSE GetAppByID

\* cachedAppConfig: a hit, or the row, which is cached.
CachedAppConfig ==
    configCache' = IF configCache # NoConfig \/ GetAppByID = 0 THEN configCache
                   ELSE [key |-> GetAppByID, age |-> 0]

\* manifestParams: what a poll asks with, and the update its branch resolves to.
ManifestParams(protocol, refused, signed, u) ==
    [IdleReply EXCEPT !.pc = "answer", !.protocol = protocol, !.refused = refused, !.signed = signed,
                      !.release = u, !.kind = IF u = Embedded THEN "none" ELSE releases[u]]

\* ResolveUpdateForDevice: an unknown app is an error; else the newest update of the
\* branch, or none.
ResolveUpdateForDevice(protocol, refused, signed) ==
    /\ reply.pc = "idle" /\ download.pc = "idle"
    /\ signed = (focus # "patches") /\ (refused # "" => signed)
    /\ CachedAppConfig
    /\ reply' = IF ReadExpoKey = 0 THEN [IdleReply EXCEPT !.content = Error]
                ELSE ManifestParams(protocol, refused, signed, NewestRelease)
    /\ UNCHANGED <<server, signatures, entries, lookups, handset, download>>

\* cachedUpdateType, of the update that was resolved.
IsRollback == reply.kind = "rollback"

\* Mutant: the stamp is put into the cached manifest.
StampCachedEntry(u) ==
    entries' = IF \E e \in entries : e[2] = u THEN entries
               ELSE entries \cup {ManifestOf(u, reply.refused)}

\* cachedManifestResponse: the entry of the update, composed when it is missing.
CacheManifest(u) ==
    entries' = IF \E e \in entries : e[2] = u THEN entries ELSE entries \cup {ManifestOf(u, "")}

\* The stamp of a refused branch goes on a copy.
Stamped(e) == IF reply.refused # "" THEN ManifestOf(e[2], reply.refused) ELSE e

\* PutNoUpdateAvailableInResponse has no directive for protocol 0.
PutNoUpdateAvailable == IF reply.protocol = 0 THEN Error ELSE NoUpdateAvailable

\* PutRollbackInResponse: protocol 0 has no rollbacks, and a device on its embedded
\* update has nothing to roll back.
PutRollback(u) ==
    IF reply.protocol = 0 THEN Error
    ELSE IF handset.current = Embedded THEN PutNoUpdateAvailable ELSE RollBackToEmbedded(u)

\* PutUpdateInResponse compares what the device runs with the uuid of the row first,
\* which a legacy row does not have.
RowMatches(u) == reply.protocol = 1 /\ reply.kind # "legacy" /\ handset.current = u

\* And then with the uuid of the composed manifest.
EntryMatches(u) == reply.protocol = 1 /\ handset.current = u

\* PutUpdateInResponse.
PutUpdate(u) ==
    IF RowMatches(u) \/ EntryMatches(u) THEN PutNoUpdateAvailable
    ELSE Stamped(CHOOSE e \in entries' : e[2] = u)

\* HandleManifest chooses the answer.  An update deleted since it was resolved is
\* answered from the caches, or with an error.
HandleManifest ==
    LET u == reply.release
        composes == u # Embedded /\ ~IsRollback /\ ~RowMatches(u)
        missing == composes /\ ReleaseGone(u) /\ \A e \in entries : e[2] # u IN
    /\ reply.pc = "answer"
    /\ IF composes /\ ~missing THEN CacheManifest(u) ELSE UNCHANGED entries
    /\ reply' = [reply EXCEPT !.pc = "sign",
                    !.content = IF missing THEN Error
                                ELSE IF u = Embedded THEN PutNoUpdateAvailable
                                ELSE IF IsRollback THEN PutRollback(u) ELSE PutUpdate(u)]
    /\ UNCHANGED <<server, configCache, signatures, lookups, handset, download>>

\* signatureCacheKey: the fingerprint of the key and the hash of the content.
CachedSignature(key, content) == {s \in signatures : s.key = key /\ s.content = content}

\* SignRSASHA256: the signature of these bytes under this key.
SignRSASHA256(content, key) == [key |-> key, content |-> content]

\* signContentBytes: the configuration is read again, and the bytes of the answer are
\* signed unless their signature is cached.  Bound: of the signatures cached, the
\* newest has not expired.
SignContentBytes(key) ==
    LET hit == CachedSignature(key, reply.content)
        signature == IF hit # {} THEN CHOOSE s \in hit : TRUE ELSE SignRSASHA256(reply.content, key) IN
    /\ reply' = [reply EXCEPT !.pc = "told", !.signature = signature, !.age = retired[signature.key]]
    /\ signatures' = {signature}

\* putRawResponse: an answer that cannot be signed is an error.
PutRawResponse ==
    /\ reply.pc = "sign"
    /\ IF ~reply.signed \/ reply.content = Error
       THEN reply' = [reply EXCEPT !.pc = "told"] /\ UNCHANGED <<configCache, signatures>>
       ELSE /\ CachedAppConfig
            /\ IF ReadExpoKey = 0
               THEN reply' = [reply EXCEPT !.pc = "told", !.content = Error] /\ UNCHANGED signatures
               ELSE SignContentBytes(ReadExpoKey)
    /\ UNCHANGED <<server, entries, lookups, handset, download>>

\* The answer is lost on its way.
LoseAnswer ==
    /\ reply.pc = "told"
    /\ reply' = IdleReply
    /\ UNCHANGED <<server, configCache, signatures, entries, lookups, handset, download>>

\* The device rolls back, asks for the launch asset of the manifest, or goes on.  The
\* manifest names an asset by its hash, or by its path in the folder of a legacy update.
Obey ==
    /\ reply.pc = "told"
    /\ handset' = CASE reply.content[1] = "rollBackToEmbedded" -> [handset EXCEPT !.current = Embedded]
                    [] reply.content[1] = "manifest" ->
                            [handset EXCEPT !.wanted = reply.content[2],
                                    !.by = IF reply.kind = "legacy" THEN "path" ELSE "hash"]
                    [] OTHER -> handset
    /\ download' = IF reply.content[1] = "manifest" THEN [IdleDownload EXCEPT !.pc = "current"]
                   ELSE download
    /\ reply' = IdleReply
    /\ UNCHANGED <<server, configCache, signatures, entries, lookups>>

-----------------------------------------------------------------------------
(* The asset route, for the launch asset of a manifest: a patch when the     *)
(* device accepts one and it is there, else the blob.                        *)

\* GetUpdateByUUID, behind cachedUpdateByUUID: an update that is unknown is cached too.
LookUpUuid(u) == [id |-> u, found |-> u # Embedded /\ releases[u] \notin {"legacy", "gone"}]
CachedUpdateByUUID(u) ==
    IF \E k \in knownUuids : k.id = u THEN CHOOSE k \in knownUuids : k.id = u ELSE LookUpUuid(u)

\* cachedPatchExists.
CachedPatchExists(source, target) ==
    IF \E k \in knownPatches : k.pair = <<source, target>>
    THEN CHOOSE k \in knownPatches : k.pair = <<source, target>>
    ELSE [pair |-> <<source, target>>, exists |-> <<source, target>> \in patches]

\* resolveBlobAsset: the blob of a hash, which outlives its updates.
ResolveBlobAsset == [pc |-> "received", body |-> <<"bundle", handset.wanted>>, redirected |-> FALSE]

\* validateAssetRequest: a path is looked up in the metadata of a live update.
ValidateAssetRequest == ~ReleaseGone(handset.wanted)

Refusal == [pc |-> "received", body |-> Error, redirected |-> FALSE]

\* HandleAssetsWithFile, HandleAssetsWithURL.
HandleAssetsByPath(redirect) ==
    IF ~ValidateAssetRequest THEN Refusal
    ELSE [pc |-> "received", body |-> <<"bundle", handset.wanted>>, redirected |-> redirect]

\* resolveBSDiffAsset: both updates must be known, and the patch there; else the
\* full bundle.
ResolveBSDiffAsset ==
    LET current == CachedUpdateByUUID(handset.current)
        requested == CachedUpdateByUUID(handset.wanted)
        patch == CachedPatchExists(handset.current, handset.wanted)
        known == current.found /\ requested.found IN
    /\ knownUuids' = knownUuids \cup {current, requested}
    /\ knownPatches' = IF known THEN knownPatches \cup {patch} ELSE knownPatches
    /\ download' = IF known /\ patch.exists THEN [IdleDownload EXCEPT !.pc = "patch"]
                   ELSE ResolveBlobAsset

\* ResolveAsset: an asset of an unknown app, by its path, or by its hash with a patch
\* for a device that accepts one.
ResolveAsset(accepts, redirect) ==
    IF ReadExpoKey # 0 /\ handset.by = "hash" /\ accepts /\ handset.current # handset.wanted
    THEN ResolveBSDiffAsset
    ELSE /\ download' = IF ReadExpoKey = 0 THEN Refusal
                        ELSE IF handset.by = "path" THEN HandleAssetsByPath(redirect)
                        ELSE ResolveBlobAsset
         /\ UNCHANGED lookups

HandleAssets(accepts, redirect) ==
    /\ download.pc = "current" /\ (accepts => focus = "patches") /\ (redirect => handset.by = "path")
    /\ CachedAppConfig
    /\ ResolveAsset(accepts, redirect)
    /\ UNCHANGED <<server, signatures, entries, handset, reply>>

\* BSDiffObjectKey: the patch of a source and a target.
PatchBody(source, target) == <<"patch", source, target>>

\* The patch is redirected to, or read and served; one that is gone by now gives the
\* full bundle.
ServePatch(redirect) ==
    /\ download.pc = "patch"
    /\ download' = IF redirect \/ <<handset.current, handset.wanted>> \in patches
                   THEN [pc |-> "received", body |-> PatchBody(handset.current, handset.wanted),
                         redirected |-> redirect]
                   ELSE ResolveBlobAsset
    /\ UNCHANGED <<server, configCache, signatures, entries, lookups, handset, reply>>

\* What a redirect leads to is still stored.
Fetched ==
    \/ ~download.redirected /\ download.body # Error
    \/ download.body[1] = "bundle" /\ ~ReleaseGone(handset.wanted)
    \/ download.body[1] = "patch" /\ <<handset.current, handset.wanted>> \in patches

\* The device runs what it downloaded; a download that fails leaves it where it is.
Install ==
    /\ download.pc = "received"
    /\ handset' = [handset EXCEPT !.current = IF Fetched THEN handset.wanted ELSE @,
                                  !.wanted = Embedded, !.by = "hash"]
    /\ download' = IdleDownload
    /\ UNCHANGED <<server, configCache, signatures, entries, lookups, reply>>

\* Entries of the long-lived caches expire.
ExpireAnswers ==
    /\ \/ /\ signatures \cup entries # {}
          /\ signatures' = {} /\ entries' = {}
          /\ UNCHANGED lookups
       \/ \E k \in knownUuids :
            knownUuids' = knownUuids \ {k} /\ UNCHANGED <<signatures, entries, knownPatches>>
       \/ \E k \in knownPatches :
            knownPatches' = knownPatches \ {k} /\ UNCHANGED <<signatures, entries, knownUuids>>
    /\ UNCHANGED <<server, configCache, handset, reply, download>>

AnswersNext ==
    \/ \E kind \in {"update", "legacy", "rollback"} : Release(kind)
    \/ \E source, target \in Releases : StorePatch(source, target)
    \/ DropBranch \/ DeleteApp \/ CreateAppWithId \/ RotateKey \/ TickConfig
    \/ \E protocol \in Protocols, refused \in Refusals, signed \in BOOLEAN :
            ResolveUpdateForDevice(protocol, refused, signed)
    \/ HandleManifest \/ PutRawResponse \/ LoseAnswer \/ Obey
    \/ \E accepts, redirect \in BOOLEAN : HandleAssets(accepts, redirect)
    \/ \E redirect \in BOOLEAN : ServePatch(redirect)
    \/ Install \/ ExpireAnswers

AnswersSpec == AnswersInit /\ [][AnswersNext]_answerVars

-----------------------------------------------------------------------------
\* signContentBytes signs "the exact bytes the response body carries", so the signature
\* can never drift from what is served, and "a key rotation misses the cache": a key
\* replaced in its file or secret signs nothing more, and a key of a deleted app
\* nothing once its cached configuration is gone.
SignaturesVerify ==
    reply.pc = "told" /\ reply.signature # NoSignature =>
        /\ reply.signature.content = reply.content
        /\ reply.age <= (IF focus = "referenced" THEN 0 ELSE ConfigTTL + 1)

\* A device of protocol 1 is offered an update exactly when it does not run it, and
\* rolled back exactly when it does not run its embedded update, however old the row
\* is and whatever is cached; only a poll that is refused a branch carries its stamp.
AnswersFitTheDevice ==
    reply.pc \in {"sign", "told"} /\ reply.protocol = 1 /\ reply.content # Error =>
        LET u == reply.release IN
        /\ reply.content = NoUpdateAvailable
                <=> \/ u = Embedded
                    \/ IsRollback /\ handset.current = Embedded
                    \/ ~IsRollback /\ handset.current = u
        /\ reply.content[1] = "manifest" => reply.content = ManifestOf(u, reply.refused)

\* A device that asks for a launch asset gets the bundle it asked for, or the patch
\* from what it runs to it; as long as the update is not deleted it is not refused, and
\* a redirect leads to an object that is stored.
DownloadsYieldTheUpdate ==
    download.pc = "received" =>
        /\ download.body \in {<<"bundle", handset.wanted>>, Error,
                              <<"patch", handset.current, handset.wanted>>}
        /\ ~ReleaseGone(handset.wanted) => Fetched

\* What a device is promised.
AnswersSound == SignaturesVerify /\ AnswersFitTheDevice /\ DownloadsYieldTheUpdate
=============================================================================

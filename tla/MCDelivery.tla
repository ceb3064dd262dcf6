----------------------------- MODULE MCDelivery ------------------------------
(***************************************************************************)
(* How an update gets to where devices find it, for TLC: its upload and    *)
(* verification, the channels and branches, the plans of bundle patches,   *)
(* the local object store, and the answers to the polls of devices.  The   *)
(* parts share nothing, so a behaviour runs one of them, chosen at the     *)
(* start, and the others rest.                                             *)
(***************************************************************************)
EXTENDS Channels, BundlePatches, LocalStore, Uploads, DeviceAnswers, TLC

VARIABLE part

allVars == <<part, vars, localVars, patchVars, uploadVars, answerVars>>

PatchesRest ==
    /\ history = 0 /\ patchRow = 0 /\ patchJob = 0 /\ patchObjects = 0 /\ planner = 0
    /\ plans = 0

UploadsRest ==
    /\ upMode = 0 /\ row = 0 /\ folder = 0 /\ stored = 0 /\ mapped = 0
    /\ metadataCache = 0 /\ manifestCache = 0 /\ uploader = 0 /\ call = 0 /\ device = 0
    /\ harmed = 0 /\ failed = 0

AnswersRest ==
    /\ focus = 0 /\ releases = 0 /\ patches = 0 /\ signingKey = 0 /\ retired = 0
    /\ configCache = 0 /\ signatures = 0 /\ entries = 0 /\ knownUuids = 0 /\ knownPatches = 0
    /\ handset = 0 /\ reply = 0 /\ download = 0

MCInit ==
    /\ part \in {"channels", "store", "patches", "uploads", "answers"}
    /\ Init /\ LocalInit
    /\ part # "channels" => channel.branch = NoBranch
    /\ IF part = "patches" THEN PatchInit ELSE PatchesRest
    /\ IF part = "uploads" THEN UploadsInit ELSE UploadsRest
    /\ IF part = "answers" THEN AnswersInit ELSE AnswersRest

MCNext ==
    \/ /\ part = "channels" /\ Next
       /\ UNCHANGED <<part, localVars, patchVars, uploadVars, answerVars>>
    \/ /\ part = "store" /\ LocalNext
       /\ UNCHANGED <<part, vars, patchVars, uploadVars, answerVars>>
    \/ /\ part = "patches" /\ PatchNext
       /\ UNCHANGED <<part, vars, localVars, uploadVars, answerVars>>
    \/ /\ part = "uploads" /\ UploadsNext
       /\ UNCHANGED <<part, vars, localVars, patchVars, answerVars>>
    \/ /\ part = "answers" /\ AnswersNext
       /\ UNCHANGED <<part, vars, localVars, patchVars, uploadVars>>

MCSpec == MCInit /\ [][MCNext]_allVars

\* Branch names are interchangeable, and so are requests, whatever part they are of.
Symmetry == Permutations(Names) \cup Permutations(Requests)

MCDirOf == ("b/r/1" :> "b/r") @@ ("b/r/2" :> "b/r") @@ ("cas/x" :> "cas")
MCUp == ("b/r" :> "b") @@ ("b" :> "root") @@ ("cas" :> "root")
MCDigest == ("x" :> "cas/x") @@ ("y" :> "b/r/1")

MCPublications == {
    [launch |-> "h1", assets |-> <<"h2", "h2">>, config |-> "good", map |-> TRUE],
    [launch |-> "h1", assets |-> <<"h2">>, config |-> "good", map |-> FALSE],
    [launch |-> "h1", assets |-> <<>>, config |-> "bad", map |-> FALSE]}

-----------------------------------------------------------------------------
\* BundlePatches: a row that says "stored" has its patch in the bucket, whichever of
\* several jobs finished it, and a plan takes the newest updates devices may run.
PatchesSound == part = "patches" => PatchTypeOK /\ StoredPatchesExist /\ PlansNewestSources

\* Uploads: an update that is live has every file its manifest names, what devices get
\* for it never changes, and a publish is refused as unchanged only when it is.
UploadsAreSound == part = "uploads" => UploadsSound

\* DeviceAnswers: a signature verifies with the key it names, an answer fits the
\* device's protocol and headers, and a download yields the bytes of the update.
AnswersAreSound == part = "answers" => AnswersSound
=============================================================================

----------------------------- MODULE ExpoImport -----------------------------
(***************************************************************************)
(* The import of an Expo project: the structure read from the Expo API and *)
(* cached, the plan a preview shows, the app, branches and channels that   *)
(* ImportApp creates and rolls back, and the background job that copies    *)
(* the update history, stopped at any point by a failure, a cancel or the  *)
(* death of its worker, and tried again.  An update of the history is its  *)
(* position, oldest first.                                                 *)
(***************************************************************************)
EXTENDS Naturals, Sequences, FiniteSets, SequencesExt

CONSTANTS
    Projects,           \* the structures the Expo project may have
    NoProject,          \* an empty cache entry, and no plan
    InvalidNames,       \* names that CreateBranch and CreateChannel refuse
    NoMapping,          \* a channel without a branch
    History,            \* the updates of the project, oldest first
    Limits,             \* how many update groups an import may ask for
    PageSize, MaxPages, \* accountAppsPageSize, accountAppsMaxPages
    MaxAttempts,        \* MaxAttempts of the job
    MaxFailures,        \* bound on failures of any kind
    MaxImports          \* bound on imports and edits of the project

ASSUME ImportAssumption ==
    /\ MaxAttempts \in Nat \ {0} /\ MaxFailures \in Nat /\ MaxImports \in Nat
    /\ PageSize \in Nat \ {0} /\ MaxPages \in Nat \ {0}
    /\ NoProject \notin Projects
    /\ \A i \in DOMAIN History : History[i].kind \in {"update", "rollback", "unsupported"}

VARIABLES
    project,        \* the project, at Expo
    projectCache,   \* the cached structure
    shown,          \* the plan of the last preview, while its structure is cached
    importer,       \* the import request
    theApp,         \* the app of the project here: none, or its branches and channels
    historyJob,     \* the history job
    imported,       \* updates with a row
    folders,        \* what the update folders hold
    cas,            \* the blobs of the app
    passedOver,     \* updates some attempt skipped (history)
    unsure,         \* updates whose insert failed after it was done (history)
    budget          \* failures, and imports and edits, so far

importVars == <<project, projectCache, shown, importer, theApp, historyJob, imported, folders, cas,
                passedOver, unsure, budget>>
copied == <<imported, folders, cas, passedOver, unsure>>
structure == <<project, projectCache, shown>>

-----------------------------------------------------------------------------
Updates == DOMAIN History
NoApp == [exists |-> FALSE, branches |-> {}, channels |-> <<>>]
IdleImporter == [pc |-> "idle", plan |-> NoProject, todo |-> {}, limit |-> 0]
NoHistoryJob == [state |-> "none", groups |-> {}, before |-> {}, attempt |-> 0, at |-> 1,
          pc |-> "check", cancel |-> FALSE, processed |-> 0, succeeded |-> 0]
LiveStates == {"available", "running", "retryable"}

Answered == {"done", "failed", "stuck"}

MayFail == budget.failures < MaxFailures
CountFailure == budget' = [budget EXCEPT !.failures = @ + 1]

ImportInit ==
    /\ project \in Projects
    /\ projectCache = NoProject /\ shown = NoProject
    /\ importer = IdleImporter /\ theApp = NoApp /\ historyJob = NoHistoryJob
    /\ imported = {} /\ folders = [i \in Updates |-> "none"] /\ cas = {}
    /\ passedOver = {} /\ unsure = {}
    /\ budget = [failures |-> 0, imports |-> 0]

-----------------------------------------------------------------------------
(* The structure of the project.  A channel has a sequence of mappings to    *)
(* branch ids, plain or for a rollout.                                       *)

\* The first plain mapping.
PlainMapping(mappings) == SelectSeq(mappings, LAMBDA m : m.logic = "true")

\* fetchProjectStructure: the branch of the first plain mapping, if it is listed.
ImportedMapping(p, c) ==
    LET plain == PlainMapping(p.channels[c]) IN
    IF plain = <<>> \/ Head(plain).branch \notin p.branches THEN NoMapping ELSE Head(plain).branch

\* FetchChannelMapping: what devices of a channel are served in stateless mode.
ServedMapping(p, c) ==
    LET ids == {i \in DOMAIN p.channels[c] : p.channels[c][i].logic = "true"}
        id == IF ids = {} THEN NoMapping
              ELSE p.channels[c][CHOOSE i \in ids : \A j \in ids : i <= j].branch IN
    IF id \in p.branches THEN id ELSE NoMapping

\* FetchBranchesMapping: the channels listed with a branch on the dashboard.
ListedChannels(p, b) ==
    {c \in DOMAIN p.channels : \E i \in DOMAIN p.channels[c] :
        p.channels[c][i].branch = b /\ p.channels[c][i].logic = "true"}

\* FetchProjectStructure, cached per credential and project.
FetchedStructure == IF projectCache # NoProject THEN projectCache ELSE project
FetchProjectStructure == projectCache' = FetchedStructure

\* One page of the apps of every account, from an offset.
AppsPage(accounts, page) ==
    [a \in DOMAIN accounts |->
        SubSeq(accounts[a], page * PageSize + 1,
               Min({Len(accounts[a]), (page + 1) * PageSize}))]

\* fetchAccountApps asks for another page as long as some account fills its own.
AnyPageFull(accounts, page) ==
    \E a \in DOMAIN accounts : Len(AppsPage(accounts, page)[a]) = PageSize

\* The apps listed for each account, page after page.
FetchAccountApps(accounts) ==
    LET last == Min({MaxPages - 1} \cup
                    {page \in 0..(MaxPages - 1) : ~AnyPageFull(accounts, page)}) IN
    [a \in DOMAIN accounts |->
        FlattenSeq([n \in 1..(last + 1) |-> AppsPage(accounts, n - 1)[a]])]

\* buildImportPlan: names that would be refused are left out, and so is a mapping to
\* a branch that is.
BuildImportPlan(p) ==
    LET kept == p.branches \ InvalidNames IN
    [branches |-> kept,
     channels |-> [c \in DOMAIN p.channels \ InvalidNames |->
                    IF ImportedMapping(p, c) \in kept THEN ImportedMapping(p, c) ELSE NoMapping]]

\* PreviewImport.
PreviewImport ==
    /\ importer.pc = "idle"
    /\ FetchProjectStructure
    /\ shown' = BuildImportPlan(FetchedStructure)
    /\ UNCHANGED <<project, importer, theApp, historyJob, copied, budget>>

\* The cached structure expires, or a refresh drops it.
ExpireStructure ==
    /\ projectCache # NoProject
    /\ projectCache' = NoProject /\ shown' = NoProject
    /\ UNCHANGED <<project, importer, theApp, historyJob, copied, budget>>

\* Someone edits the project at Expo.
EditProject ==
    /\ budget.imports < MaxImports
    /\ budget' = [budget EXCEPT !.imports = @ + 1]
    /\ \E p \in Projects \ {project} : project' = p
    /\ UNCHANGED <<projectCache, shown, importer, theApp, historyJob, copied>>

-----------------------------------------------------------------------------
(* ImportApp.                                                                *)

\* The app is created under the id of the project, unless it exists.
ImportApp(limit) ==
    LET plan == BuildImportPlan(FetchedStructure) IN
    /\ importer.pc = "idle" /\ ~theApp.exists
    /\ budget.imports < MaxImports
    /\ budget' = [budget EXCEPT !.imports = @ + 1]
    /\ FetchProjectStructure
    /\ theApp' = [NoApp EXCEPT !.exists = TRUE]
    /\ importer' = [pc |-> "branches", plan |-> plan, todo |-> plan.branches, limit |-> limit]
    /\ UNCHANGED <<project, shown, historyJob, copied>>

Go(pc, todo) == importer' = [importer EXCEPT !.pc = pc, !.todo = todo]

\* CreateBranch, for each branch of the plan.
ImportBranch ==
    /\ importer.pc = "branches"
    /\ IF importer.todo = {}
       THEN Go("channels", DOMAIN importer.plan.channels) /\ UNCHANGED theApp
       ELSE LET b == CHOOSE b \in importer.todo : TRUE IN
            /\ theApp' = [theApp EXCEPT !.branches = @ \cup {b}]
            /\ Go("branches", importer.todo \ {b})
    /\ UNCHANGED <<structure, historyJob, copied, budget>>

\* CreateChannel, for each channel of the plan.
ImportChannel ==
    /\ importer.pc = "channels"
    /\ IF importer.todo = {}
       THEN Go("history", {}) /\ UNCHANGED theApp
       ELSE LET c == CHOOSE c \in importer.todo : TRUE IN
            /\ theApp' = [theApp EXCEPT !.channels =
                            [x \in DOMAIN @ \cup {c} |-> importer.plan.channels[x]]]
            /\ Go("channels", importer.todo \ {c})
    /\ UNCHANGED <<structure, historyJob, copied, budget>>

\* The app, its branches, channels and rows go.
DeleteAppRows ==
    /\ theApp' = NoApp
    /\ imported' = {}
    /\ passedOver' = Updates
    /\ UNCHANGED <<folders, cas, unsure>>

\* Mutant: what was created stays.
KeepApp == Go("failed", {}) /\ UNCHANGED <<theApp, copied>>

\* rollback, whose failure is only logged: the app then stays in place.
Rollback ==
    \/ Go("failed", {}) /\ DeleteAppRows
    \/ MayFail /\ Go("stuck", {}) /\ UNCHANGED <<theApp, copied>>

\* FetchUpdateGroups: the newest groups, of which a job keeps a snapshot.
FetchUpdateGroups(limit) ==
    {i \in Updates : Cardinality({History[j].group : j \in {k \in Updates : k >= i}}) <= limit}

\* Enqueue: a job of this app that is not over excludes another.
MayEnqueue == historyJob.state \notin LiveStates

Enqueue(limit) ==
    /\ historyJob' = [NoHistoryJob EXCEPT !.state = "available", !.groups = FetchUpdateGroups(limit),
                                   !.before = imported]
    /\ passedOver' = {}
    /\ UNCHANGED <<imported, folders, cas, unsure>>

\* The last step of an import; one that cannot start the job is rolled back.
ImportHistory ==
    /\ importer.pc = "history"
    /\ IF importer.limit = 0
       THEN Go("done", {}) /\ UNCHANGED <<historyJob, theApp, copied>>
       ELSE IF ~MayEnqueue
       THEN Rollback /\ UNCHANGED historyJob
       ELSE Enqueue(importer.limit) /\ Go("done", {}) /\ UNCHANGED theApp
    /\ UNCHANGED <<structure, budget>>

\* StartHistoryImport, for an app that is here.
StartHistoryImport(limit) ==
    /\ theApp.exists /\ limit > 0 /\ MayEnqueue
    /\ budget.imports < MaxImports
    /\ budget' = [budget EXCEPT !.imports = @ + 1]
    /\ Enqueue(limit)
    /\ UNCHANGED <<structure, importer, theApp>>

\* A step of the import fails.
FailImport ==
    /\ importer.pc \in {"branches", "channels", "history"} /\ MayFail
    /\ CountFailure
    /\ Rollback
    /\ UNCHANGED <<structure, historyJob>>

\* The answer is read; or the server died, and nobody rolls back.
EndImport ==
    /\ importer.pc # "idle"
    /\ importer.pc \in Answered \/ MayFail
    /\ budget' = IF importer.pc \in Answered THEN budget
                 ELSE [budget EXCEPT !.failures = @ + 1]
    /\ importer' = IdleImporter
    /\ UNCHANGED <<structure, theApp, historyJob, copied>>

\* An administrator deletes the app, which an import that died may need.  Bound: not
\* while an import is at work.
RemoveApp ==
    /\ importer.pc = "idle" /\ theApp.exists
    /\ DeleteAppRows
    /\ UNCHANGED <<structure, importer, historyJob, budget>>

-----------------------------------------------------------------------------
(* The history job, one update after the other.                              *)

Job(changes) == historyJob' = changes
Copying == historyJob.state = "running" /\ historyJob.at <= Len(History)
Doing(pc) == Copying /\ historyJob.pc = pc

\* copyHistory goes from the oldest group to the newest.
At == historyJob.at

\* A worker takes the job: a new attempt, from the oldest update on.
TakeJob ==
    /\ historyJob.state \in {"available", "retryable"}
    /\ Job([historyJob EXCEPT !.state = "running", !.attempt = @ + 1,
                              !.at = Min(historyJob.groups), !.pc = "check",
                              !.processed = 0, !.succeeded = 0])
    /\ UNCHANGED <<structure, importer, theApp, copied, budget>>

\* Tracker.Succeed and Tracker.Skip, and the next update; a cancel comes first.
Advance(succeeded) ==
    Job(IF historyJob.cancel THEN [historyJob EXCEPT !.state = "cancelled"]
        ELSE [historyJob EXCEPT !.at = @ + 1, !.pc = "check", !.processed = @ + 1,
                                !.succeeded = @ + succeeded])

SkipUpdate == Advance(0) /\ passedOver' = passedOver \cup {At}

\* UpdateExists.
Occupied(i) == i \in imported

\* The checks of importHistoryUpdate before it touches anything, and the branch,
\* which an app that is deleted cannot have.
CheckUpdate ==
    /\ Doing("check")
    /\ IF History[At].kind = "unsupported" \/ Occupied(At)
          \/ History[At].branch \in InvalidNames
       THEN SkipUpdate /\ UNCHANGED theApp
       ELSE /\ theApp.exists
            /\ theApp' = [theApp EXCEPT !.branches = @ \cup {History[At].branch}]
            /\ Job([historyJob EXCEPT !.pc = IF History[At].kind = "rollback" THEN "insert"
                                             ELSE "manifest"])
            /\ UNCHANGED passedOver
    /\ UNCHANGED <<structure, importer, imported, folders, cas, unsure, budget>>

\* FetchServedManifest: without it the update is skipped.
FetchServedManifest ==
    /\ Doing("manifest")
    /\ \/ Job([historyJob EXCEPT !.pc = "blobs"]) /\ UNCHANGED <<passedOver, budget>>
       \/ MayFail /\ CountFailure /\ SkipUpdate
    /\ UNCHANGED <<structure, importer, theApp, imported, folders, cas, unsure>>

\* ensureHistoryBlob downloads what is not stored under its hash.
MissingBlobs(i) == History[i].blobs \ cas

\* A blob whose bytes do not have the hash the manifest declares is not stored.
Damaged(i) == MissingBlobs(i) \cap History[i].damaged # {}

\* storeHistoryBlobs: what is missing is downloaded, checked and stored, eight at a
\* time; a download that fails or does not match its hash skips the update.
StoreHistoryBlobs ==
    /\ Doing("blobs")
    /\ \/ /\ ~Damaged(At)
          /\ cas' = cas \cup MissingBlobs(At)
          /\ Job([historyJob EXCEPT !.pc = "files"])
          /\ UNCHANGED <<passedOver, budget>>
       \/ /\ Damaged(At) \/ MayFail
          /\ budget' = IF Damaged(At) THEN budget ELSE [budget EXCEPT !.failures = @ + 1]
          /\ \E stored \in SUBSET (MissingBlobs(At) \ History[At].damaged) : cas' = cas \cup stored
          /\ SkipUpdate
    /\ UNCHANGED <<structure, importer, theApp, imported, folders, unsure>>

\* writeHistoryConfigFiles writes three files.
WriteHistoryConfigFiles ==
    /\ Doing("files")
    /\ IF folders[At] # "partial"
       THEN folders' = [folders EXCEPT ![At] = "partial"] /\ UNCHANGED historyJob
       ELSE /\ folders' = [folders EXCEPT ![At] = "whole"]
            /\ Job([historyJob EXCEPT !.pc = "insert"])
    /\ UNCHANGED <<structure, importer, theApp, imported, cas, passedOver, unsure, budget>>

\* ImportUpdate: a row, in a branch that exists, on a slot that is free; for a rollback
\* a slot that is taken goes unnoticed.
ImportUpdate ==
    /\ Doing("insert")
    /\ theApp.exists /\ History[At].branch \in theApp.branches
    /\ IF At \in imported /\ History[At].kind = "update"
       THEN SkipUpdate /\ UNCHANGED imported
       ELSE imported' = imported \cup {At} /\ Advance(1) /\ UNCHANGED passedOver
    /\ UNCHANGED <<structure, importer, theApp, folders, cas, unsure, budget>>

\* An error ends the attempt: the job is tried again until MaxAttempts, and a
\* cancelled one is over.
Errored ==
    Job([historyJob EXCEPT !.state = IF historyJob.cancel THEN "cancelled"
                                     ELSE IF historyJob.attempt < MaxAttempts THEN "retryable"
                                     ELSE "discarded"])

\* The branch or the app is gone: the statement fails.
MissingParent ==
    \/ Doing("check") /\ ~theApp.exists
    \/ Doing("insert") /\ ~(theApp.exists /\ History[At].branch \in theApp.branches)

\* deleteHistoryUpdateFolder, whose failure is only logged.
DeleteHistoryUpdateFolder ==
    \E left \in {"none", folders[At]} : folders' = [folders EXCEPT ![At] = left]

\* Something fails.  From the config files on, the folder is deleted.  A statement
\* may fail when its work is done: the connection breaks, or the cancel arrives.
FailUpdate ==
    /\ Copying
    /\ MissingParent \/ MayFail \/ historyJob.cancel
    /\ budget' = IF MayFail /\ ~MissingParent /\ ~historyJob.cancel
                 THEN [budget EXCEPT !.failures = @ + 1] ELSE budget
    /\ IF historyJob.pc \in {"files", "insert"} /\ History[At].kind = "update"
       THEN DeleteHistoryUpdateFolder ELSE UNCHANGED folders
    /\ \/ UNCHANGED <<imported, unsure>>
       \/ /\ historyJob.pc = "insert" /\ ~MissingParent /\ At \notin imported
          /\ imported' = imported \cup {At} /\ unsure' = unsure \cup {At}
    /\ Errored
    /\ UNCHANGED <<structure, importer, theApp, cas, passedOver>>

\* The worker dies; the job is rescued.
KillWorker ==
    /\ historyJob.state = "running" /\ MayFail
    /\ CountFailure
    /\ Errored
    /\ UNCHANGED <<structure, importer, theApp, copied>>

\* copyHistory comes to its end.
CompleteJob ==
    /\ historyJob.state = "running" /\ historyJob.at > Len(History)
    /\ Job([historyJob EXCEPT !.state = "completed"])
    /\ UNCHANGED <<structure, importer, theApp, copied, budget>>

\* UIState: a job that waits for a retry counts as running.
UIState(job) ==
    CASE job.state = "completed" -> "done"
      [] job.state = "cancelled" -> "canceled"
      [] job.state = "discarded" -> "failed"
      [] OTHER -> "running"

\* CancelHistoryJob: a running job finishes the update it copies.
CancelHistoryJob ==
    /\ historyJob.state \in LiveStates /\ ~historyJob.cancel
    /\ Job(IF historyJob.state = "running" THEN [historyJob EXCEPT !.cancel = TRUE]
           ELSE [historyJob EXCEPT !.state = "cancelled"])
    /\ UNCHANGED <<structure, importer, theApp, copied, budget>>

ImportNext ==
    \/ PreviewImport \/ ExpireStructure \/ EditProject
    \/ \E limit \in Limits : ImportApp(limit) \/ StartHistoryImport(limit)
    \/ ImportBranch \/ ImportChannel \/ ImportHistory \/ FailImport \/ EndImport \/ RemoveApp
    \/ TakeJob \/ CheckUpdate \/ FetchServedManifest \/ StoreHistoryBlobs \/ WriteHistoryConfigFiles \/ ImportUpdate
    \/ FailUpdate \/ KillWorker \/ CompleteJob \/ CancelHistoryJob

ImportSpec == ImportInit /\ [][ImportNext]_importVars

-----------------------------------------------------------------------------
\* ListImportableApps shows every app of every account, in order, up to the pages it
\* is ready to ask for.
ListsEveryApp ==
    \A a \in DOMAIN project.accounts :
        FetchAccountApps(project.accounts)[a]
            = SubSeq(project.accounts[a], 1, Min({Len(project.accounts[a]), MaxPages * PageSize}))

\* Devices, the dashboard and the import read one branch off a channel's mappings:
\* the plain one, with rollouts passed over, if the project lists it.
ReadersAgree ==
    \A c \in DOMAIN project.channels :
        /\ ImportedMapping(project, c) = ServedMapping(project, c)
        /\ \A b \in project.branches : c \in ListedChannels(project, b) <=> b = ServedMapping(project, c)

\* "ImportApp executes the plan PreviewImport shows": while the structure of the
\* preview is cached, whatever changes at Expo, and in the end the app is that plan.
ImportsAsShown ==
    /\ importer.pc = "branches" /\ shown # NoProject => importer.plan = shown
    /\ importer.pc = "done" => /\ importer.plan.branches \subseteq theApp.branches
                               /\ theApp.channels = importer.plan.channels

\* "Any failure past app creation, the job not starting included, rolls the app back":
\* an import that reports an error leaves no app and no row, unless deleting it failed.
FailedImportsLeaveNothing ==
    importer.pc = "failed" => ~theApp.exists /\ imported = {}

\* Every channel of the app maps to a branch it has.
ChannelsMapToBranches ==
    \A c \in DOMAIN theApp.channels : theApp.channels[c] \in theApp.branches \cup {NoMapping}

\* copyHistory: "a stopped job leaves a consistent prefix of history".  However often
\* it is stopped and tried again, an update gets a row only when every older one of
\* its groups has its own, or was skipped.
HistoryIsAPrefix ==
    \A i \in imported \ historyJob.before : \A j \in historyJob.groups :
        j < i => j \in imported \cup passedOver

\* An imported update can be served: its folder is whole and its blobs are stored,
\* unless the database did the insert and failed to say so.
ImportedUpdatesAreWhole ==
    \A i \in imported \ unsure :
        History[i].kind = "update" => folders[i] = "whole" /\ History[i].blobs \subseteq cas

\* A job is shown done only when each of its updates is there or was skipped, with the
\* counts of its last attempt, and as running as long as another attempt may come.
ShownAsItIs ==
    /\ UIState(historyJob) = "done" =>
        /\ historyJob.processed = Cardinality(historyJob.groups)
        /\ historyJob.groups \subseteq imported \cup passedOver
    /\ UIState(historyJob) = "failed" => historyJob.attempt = MaxAttempts

\* What an import promises.
ImportSound ==
    /\ ListsEveryApp /\ ReadersAgree /\ ImportsAsShown /\ FailedImportsLeaveNothing /\ ChannelsMapToBranches
    /\ HistoryIsAPrefix /\ ImportedUpdatesAreWhole /\ ShownAsItIs
=============================================================================

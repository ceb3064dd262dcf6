--------------------------- MODULE DashboardLists ---------------------------
(***************************************************************************)
(* The dashboard's cached listings (control-plane mode): apps, one app,     *)
(* branches, channels, the runtime versions of a branch, the details of an  *)
(* update.  A GET answers from the cache, or queries the database and       *)
(* caches what it read; every request that changes a row then deletes the   *)
(* entries that show it.  Entries of different keys do not affect each      *)
(* other, so a behaviour follows one of them, watched.  The statements of   *)
(* a request that other modules interleave (Channels, Publishing) are one   *)
(* step here; what is interleaved is a write, the deletion of the entries,  *)
(* and the two ends of a GET.                                               *)
(***************************************************************************)
EXTENDS Naturals, FiniteSets, FiniteSetsExt

CONSTANTS
    AppIds,         \* ids of apps
    ShownApp,       \* the app whose branches, channel and updates are modelled
    AppLabels,      \* what an app is named, and its repository URL
    BranchNames,    \* names of its branches
    NoName,         \* channels.branch_id IS NULL
    MaxRuntime,     \* its runtime versions, in the order they are created
    Splits,         \* percentages of rollouts
    MaxListed,      \* bound on the updates
    Handlers,       \* requests in flight
    NoListing,      \* the cache has no entry
    Watched,        \* keys to follow
    MaxChanges      \* bound on the requests that change something

ASSUME DashboardAssumption ==
    /\ ShownApp \in AppIds /\ NoName \notin BranchNames
    /\ Splits \subseteq 1..99 /\ Splits # {} /\ MaxRuntime \in Nat
    /\ MaxListed \in Nat /\ MaxChanges \in Nat

VARIABLES
    appRow,         \* apps
    branchRow,      \* branches of ShownApp
    channelRow,     \* its channel, with the rollout of channel_rollouts
    runtimes,       \* how many of its runtime_versions exist
    updateRows,     \* its updates
    lastId,         \* the last id given to one
    watched,        \* the key the behaviour follows
    listing,        \* the entry under that key
    behind,         \* the entry may be older than the rows, for a reason the code accepts
    handling,       \* the requests in flight
    changes

rowVars == <<appRow, branchRow, channelRow, runtimes, updateRows, lastId>>
dashboardVars == <<appRow, branchRow, channelRow, runtimes, updateRows, lastId, watched, listing, behind, handling, changes>>

-----------------------------------------------------------------------------
(* Keys, and what the queries behind them return.                            *)

UpdateKeys == {<<"details", u>> : u \in 1..MaxListed}
RuntimeKeys == {<<"runtimes", b>> : b \in BranchNames}
ListKeys == {<<"branches">>, <<"channels">>} \cup RuntimeKeys \cup UpdateKeys

NoSplit == [on |-> FALSE, branch |-> NoName, percentage |-> 0]
NoChannel == [live |-> FALSE, branch |-> NoName, surfing |-> FALSE, split |-> NoSplit]
NoUpdate == [version |-> 0, id |-> 0, percentage |-> 0]

CheckedOn(b, v) == {u \in updateRows : u.branch = b /\ u.version = v /\ u.checked}
ActiveOn(b, v) == {u \in CheckedOn(b, v) : u.percentage # 0}
Newest(rows) == CHOOSE u \in rows : \A w \in rows : w.id <= u.id

\* The common table expressions latest_runtime and current_updates, the latter of
\* at most one row a branch: the update rolling out, or the newest.
latest_runtime(b) == {v \in 1..runtimes : CheckedOn(b, v) # {} /\ \A w \in (v + 1)..runtimes : CheckedOn(b, w) = {}}
current_updates(b) ==
    {LET u == Newest(IF ActiveOn(b, v) # {} THEN ActiveOn(b, v) ELSE CheckedOn(b, v))
     IN [version |-> v, id |-> u.id, percentage |-> u.percentage] : v \in latest_runtime(b)}

GetApps == {[id |-> a, name |-> appRow[a].name] : a \in {a \in AppIds : appRow[a].live = "yes"}}

PresentApp(a) == [name |-> appRow[a].name, git |-> appRow[a].git]

GetBranchesByAppID ==
    {[name |-> b, protected |-> branchRow[b].protected,
      released |-> channelRow.live /\ channelRow.branch = b,
      current |-> current_updates(b)] : b \in {b \in BranchNames : branchRow[b].live}}

\* The columns of the outer join, or nil without a live update, or a branch.
branchUpdateState(rows) == IF rows = {} THEN NoUpdate ELSE CHOOSE r \in rows : TRUE

GetBranches == {[row EXCEPT !.current = branchUpdateState(@)] : row \in GetBranchesByAppID}

GetChannelsByAppID ==
    [channel |-> channelRow, current |-> current_updates(channelRow.branch),
     rolled |-> current_updates(channelRow.split.branch)]

\* A rollout is shown only beside the branch it departs from.
GetChannels ==
    [GetChannelsByAppID EXCEPT !.current = branchUpdateState(@), !.rolled = branchUpdateState(@),
                               !.channel.split = IF channelRow.branch = NoName THEN NoSplit ELSE @]

\* updated_at, which every branch with the runtime version shares, is left out.
GetRuntimeVersionsWithUpdateCount(b) ==
    {[version |-> v, count |-> Cardinality(CheckedOn(b, v)),
      percentages |-> {u.percentage : u \in ActiveOn(b, v)}] :
        v \in {v \in 1..runtimes : CheckedOn(b, v) # {}}}

\* MAX(rollout_percentage) is NULL without an active rollout.
GetRuntimeVersionsWithUpdateStats(b) ==
    {[version |-> row.version, count |-> row.count, activeRollout |-> row.percentages # {},
      percentage |-> IF row.percentages = {} THEN 0 ELSE Max(row.percentages)] :
        row \in GetRuntimeVersionsWithUpdateCount(b)}

GetUpdateByBranchNameAndRuntime(id) == {u \in updateRows : u.id = id}

GetUpdateDetails(id) ==
    LET u == CHOOSE u \in GetUpdateByBranchNameAndRuntime(id) : TRUE
    IN [uuid |-> u.checked, percentage |-> u.percentage, control |-> u.control]

\* AppResolverMiddleware: 404 for an app that is gone.
AppResolved(a) == appRow[a].live = "yes"
AppLives == AppResolved(ShownApp)

\* When a GET handler that misses the cache answers, and what it caches.
GetAppsHandler == [found |-> TRUE, shown |-> GetApps]
GetAppHandler(a) == [found |-> AppResolved(a), shown |-> PresentApp(a)]
GetBranchesHandler == [found |-> AppLives, shown |-> GetBranches]
GetChannelsHandler == [found |-> AppLives, shown |-> GetChannels]
GetRuntimeVersionsHandler(b) == [found |-> AppLives, shown |-> GetRuntimeVersionsWithUpdateStats(b)]
GetUpdateDetailsHandler(id) ==
    IF AppLives /\ GetUpdateByBranchNameAndRuntime(id) # {}
    THEN [found |-> TRUE, shown |-> GetUpdateDetails(id)]
    ELSE [found |-> FALSE, shown |-> NoListing]

Answered(k) ==
    CASE k[1] = "apps" -> GetAppsHandler
      [] k[1] = "app" -> GetAppHandler(k[2])
      [] k[1] = "branches" -> GetBranchesHandler
      [] k[1] = "channels" -> GetChannelsHandler
      [] k[1] = "runtimes" -> GetRuntimeVersionsHandler(k[2])
      [] k[1] = "details" -> GetUpdateDetailsHandler(k[2])

-----------------------------------------------------------------------------
Resting == [pc |-> "idle", keys |-> {}, seen |-> NoListing, overtaken |-> FALSE,
            branch |-> NoName, version |-> 0, ids |-> {}]

LiveUpdate(id, b, p, control) ==
    [id |-> id, branch |-> b, version |-> 1, checked |-> TRUE, percentage |-> p,
     control |-> control, known |-> 1..(id - 1)]

\* The channel is unmapped, mapped, or rolling out; and there are no updates, or one
\* that rolls out beside its control.
DashboardInit ==
    /\ appRow = [a \in AppIds |-> [live |-> IF a = ShownApp THEN "yes" ELSE "no",
                                   name |-> CHOOSE l \in AppLabels : TRUE,
                                   git |-> CHOOSE l \in AppLabels : TRUE]]
    /\ branchRow = [b \in BranchNames |-> [live |-> TRUE, protected |-> FALSE]]
    /\ \E b, c \in BranchNames :
          channelRow \in {[NoChannel EXCEPT !.live = TRUE],
                         [NoChannel EXCEPT !.live = TRUE, !.branch = b]} \cup
             IF b = c THEN {}
             ELSE {[live |-> TRUE, branch |-> b, surfing |-> FALSE,
                    split |-> [on |-> TRUE, branch |-> c, percentage |-> Min(Splits)]]}
    /\ runtimes = 1
    /\ \E b \in BranchNames :
          \/ lastId = 0 /\ updateRows = {}
          \/ lastId = 2 /\ updateRows = {LiveUpdate(1, b, 0, 0), LiveUpdate(2, b, Min(Splits), 1)}
    /\ watched \in Watched
    /\ listing = NoListing
    /\ behind = FALSE
    /\ handling = [h \in Handlers |-> Resting]
    /\ changes = 0

\* The reads in flight when the entries under keys are deleted, or should be.
Overtake(hs, keys) ==
    [h \in Handlers |-> IF hs[h].pc = "set" /\ watched \in keys
                        THEN [hs[h] EXCEPT !.overtaken = TRUE] ELSE hs[h]]

\* The rows changed, the entries under keys are to be deleted; those under missed
\* will not be.
RowsWritten(h, keys, missed) ==
    /\ handling' = Overtake([handling EXCEPT ![h] = [Resting EXCEPT !.pc = "drop", !.keys = keys]], missed)
    /\ behind' = (behind \/ (watched \in missed /\ listing # NoListing))
    /\ UNCHANGED <<watched, listing>>

Free(h) == handling[h].pc = "idle"

\* A request that changes something comes in.
Comes(h) == Free(h) /\ changes < MaxChanges /\ changes' = changes + 1

-----------------------------------------------------------------------------
(* A GET.                                                                    *)

\* A miss: the query.  GetAppHandler's row was read by the middleware before it
\* looked into the cache.  The details of an update that is not live yet are kept
\* without its UUID.
ReadListing(h) ==
    /\ Free(h)
    /\ Answered(watched).found
    /\ watched[1] = "app" \/ listing = NoListing
    /\ handling' = [handling EXCEPT ![h] =
            [Resting EXCEPT !.pc = "set", !.seen = Answered(watched).shown,
                            !.overtaken = /\ watched[1] = "details"
                                          /\ \E u \in GetUpdateByBranchNameAndRuntime(watched[2]) : ~u.checked]]
    /\ UNCHANGED <<rowVars, watched, listing, behind, changes>>

\* cache.Set, after the response was written.
CacheListing(h) ==
    /\ handling[h].pc = "set"
    /\ IF watched[1] = "app" /\ listing # NoListing
       THEN UNCHANGED <<listing, behind>>
       ELSE listing' = handling[h].seen /\ behind' = handling[h].overtaken
    /\ handling' = [handling EXCEPT ![h] = Resting]
    /\ UNCHANGED <<rowVars, watched, changes>>

\* The TTL passes: an hour, or a week for the details of an update.
ExpireListing ==
    /\ listing # NoListing
    /\ listing' = NoListing /\ behind' = FALSE
    /\ UNCHANGED <<rowVars, watched, handling, changes>>

\* cache.Delete of every key the handler computed.
DropListings(h) ==
    /\ handling[h].pc = "drop"
    /\ IF watched \in handling[h].keys
       THEN listing' = NoListing /\ behind' = FALSE
       ELSE UNCHANGED <<listing, behind>>
    /\ handling' = Overtake([handling EXCEPT ![h] = Resting], handling[h].keys)
    /\ UNCHANGED <<rowVars, watched, changes>>

\* The server dies after the write, or a statement after it fails and the handler
\* answers with an error: nothing is deleted.
LoseRequest(h) ==
    /\ ~Free(h)
    /\ LET missed == IF handling[h].pc \in {"drop", "republish"} THEN handling[h].keys ELSE {} IN
       /\ handling' = Overtake([handling EXCEPT ![h] = Resting], missed)
       /\ behind' = (behind \/ (watched \in missed /\ listing # NoListing))
    /\ UNCHANGED <<rowVars, watched, listing, changes>>

-----------------------------------------------------------------------------
(* Apps.                                                                     *)

InsertApp(a) == [appRow EXCEPT ![a].live = "yes"]

\* Under a new id.
CreateAppHandler(h, a) ==
    /\ Comes(h) /\ appRow[a].live = "no"
    /\ appRow' = InsertApp(a)
    /\ RowsWritten(h, {<<"apps">>}, {})
    /\ UNCHANGED <<branchRow, channelRow, runtimes, updateRows, lastId>>

\* The id is that of the Expo project, which a deleted app may have had; its
\* branches come along.
ImportExpoAppHandler(h, a) ==
    /\ Comes(h) /\ appRow[a].live = "gone"
    /\ appRow' = InsertApp(a)
    /\ branchRow' = IF a = ShownApp
                    THEN [b \in BranchNames |-> [live |-> TRUE, protected |-> FALSE]] ELSE branchRow
    /\ RowsWritten(h, {<<"apps">>}, {})
    /\ UNCHANGED <<channelRow, runtimes, updateRows, lastId>>

\* DeleteAppByID takes its rows with it; the listings of those rows stay.
DeleteAppHandler(h, a) ==
    /\ Comes(h) /\ AppResolved(a)
    /\ appRow' = [appRow EXCEPT ![a].live = "gone"]
    /\ IF a = ShownApp
       THEN /\ branchRow' = [b \in BranchNames |-> [live |-> FALSE, protected |-> FALSE]]
            /\ channelRow' = NoChannel /\ runtimes' = 0 /\ updateRows' = {}
            /\ UNCHANGED lastId
            /\ RowsWritten(h, {<<"app", a>>, <<"apps">>}, ListKeys)
       ELSE /\ UNCHANGED <<branchRow, channelRow, runtimes, updateRows, lastId>>
            /\ RowsWritten(h, {<<"app", a>>, <<"apps">>}, {})

UpdateAppNameByID(a, n) == [appRow EXCEPT ![a].name = n]

UpdateAppNameHandler(h, a, n) ==
    /\ Comes(h) /\ AppResolved(a)
    /\ appRow' = UpdateAppNameByID(a, n)
    /\ RowsWritten(h, {<<"apps">>, <<"app", a>>}, {})
    /\ UNCHANGED <<branchRow, channelRow, runtimes, updateRows, lastId>>

UpdateAppGitURLByID(a, g) == [appRow EXCEPT ![a].git = g]

\* The list of apps does not show the repository URL.
UpdateAppGitURLHandler(h, a, g) ==
    /\ Comes(h) /\ AppResolved(a)
    /\ appRow' = UpdateAppGitURLByID(a, g)
    /\ RowsWritten(h, {<<"app", a>>}, {})
    /\ UNCHANGED <<branchRow, channelRow, runtimes, updateRows, lastId>>

-----------------------------------------------------------------------------
(* Branches.                                                                 *)

InsertBranch(b) == [branchRow EXCEPT ![b] = [live |-> TRUE, protected |-> FALSE]]

CreateBranchHandler(h, b) ==
    /\ Comes(h) /\ AppLives /\ ~branchRow[b].live
    /\ branchRow' = InsertBranch(b)
    /\ RowsWritten(h, {<<"branches">>}, {})
    /\ UNCHANGED <<appRow, channelRow, runtimes, updateRows, lastId>>

\* The branch takes its updates with it.  The channels do not show it: a branch
\* that one is mapped to, or rolls out, is not deleted.
DeleteBranchHandler(h, b) ==
    /\ Comes(h) /\ branchRow[b].live /\ ~branchRow[b].protected
    /\ channelRow.branch # b /\ channelRow.split.branch # b
    /\ branchRow' = [branchRow EXCEPT ![b].live = FALSE]
    /\ updateRows' = {u \in updateRows : u.branch # b}
    /\ RowsWritten(h, {<<"branches">>, <<"runtimes", b>>}, {})
    /\ UNCHANGED <<appRow, channelRow, runtimes, lastId>>

SetBranchProtected(b, on) == [branchRow EXCEPT ![b].protected = on]

SetBranchProtectionHandler(h, b, on) ==
    /\ Comes(h) /\ branchRow[b].live
    /\ branchRow' = SetBranchProtected(b, on)
    /\ RowsWritten(h, {<<"branches">>}, {})
    /\ UNCHANGED <<appRow, channelRow, runtimes, updateRows, lastId>>

-----------------------------------------------------------------------------
(* The channel and its rollout.                                              *)

\* Both listings show which channel is mapped to which branch.
invalidateChannelCaches == {<<"channels">>, <<"branches">>}
invalidateChannelRolloutCaches == {<<"channels">>, <<"branches">>}

ChannelBecomes(h, row, keys) ==
    /\ Comes(h) /\ AppLives
    /\ channelRow' = row
    /\ RowsWritten(h, keys, {})
    /\ UNCHANGED <<appRow, branchRow, runtimes, updateRows, lastId>>

InsertChannel(b) == [NoChannel EXCEPT !.live = TRUE, !.branch = b]

CreateChannelHandler(h, b) ==
    /\ ~channelRow.live
    /\ b \in {NoName} \cup {n \in BranchNames : branchRow[n].live}
    /\ ChannelBecomes(h, InsertChannel(b), invalidateChannelCaches)

\* Its rollout goes with it.
DeleteChannelByName == NoChannel

DeleteChannelHandler(h) ==
    channelRow.live /\ ChannelBecomes(h, DeleteChannelByName, invalidateChannelCaches)

UpdateChannelBranchSurfing(on) == [channelRow EXCEPT !.surfing = on]

SetBranchSurfingHandler(h, on) ==
    channelRow.live /\ ChannelBecomes(h, UpdateChannelBranchSurfing(on), invalidateChannelCaches)

UpdateChannelBranchMappingHandler(h, b) ==
    /\ channelRow.live /\ ~channelRow.split.on /\ branchRow[b].live
    /\ ChannelBecomes(h, [channelRow EXCEPT !.branch = b], {<<"channels">>, <<"branches">>})

StartChannelRolloutHandler(h, b, p) ==
    /\ channelRow.live /\ channelRow.branch # NoName /\ ~channelRow.split.on
    /\ branchRow[b].live /\ b # channelRow.branch
    /\ ChannelBecomes(h, [channelRow EXCEPT !.split = [on |-> TRUE, branch |-> b, percentage |-> p]],
                      invalidateChannelRolloutCaches)

UpdateChannelRolloutHandler(h, p) ==
    /\ channelRow.split.on
    /\ ChannelBecomes(h, [channelRow EXCEPT !.split.percentage = p], invalidateChannelRolloutCaches)

EndChannelRolloutHandler(h, outcome) ==
    /\ channelRow.split.on
    /\ ChannelBecomes(h, [channelRow EXCEPT !.split = NoSplit,
                            !.branch = IF outcome = "promote" THEN channelRow.split.branch ELSE @],
                      invalidateChannelRolloutCaches)

-----------------------------------------------------------------------------
(* Updates.                                                                  *)

InsertRuntimeVersion(v) == Max({v, runtimes})

\* From RequestUploadUrlHandler: a publish creates the branch it names, and nothing
\* is deleted before its update is live.
UpsertBranchAndRuntimeVersion(h, b, v) ==
    /\ Comes(h) /\ AppLives
    /\ v <= runtimes + 1
    /\ branchRow' = [branchRow EXCEPT ![b].live = TRUE]
    /\ runtimes' = InsertRuntimeVersion(v)
    /\ LET missed == IF branchRow[b].live THEN {} ELSE {<<"branches">>} IN
       /\ handling' = Overtake([handling EXCEPT ![h] =
                [Resting EXCEPT !.pc = "insert", !.branch = b, !.version = v]], missed)
       /\ behind' = (behind \/ (watched \in missed /\ listing # NoListing))
    /\ UNCHANGED <<appRow, channelRow, updateRows, lastId, watched, listing>>

NewUpdate(id, b, v, p) ==
    LET live == CheckedOn(b, v) IN
    [id |-> id, branch |-> b, version |-> v, checked |-> FALSE, percentage |-> p,
     control |-> IF p # 0 /\ live # {} THEN Newest(live).id ELSE 0,
     known |-> {u.id : u \in live}]

\* InsertUpdate, with the percentage of a rollout or 0; or the branch is gone.
InsertRow(h, p) ==
    LET b == handling[h].branch  v == handling[h].version IN
    /\ handling[h].pc = "insert" /\ lastId < MaxListed
    /\ IF AppLives /\ branchRow[b].live
       THEN /\ updateRows' = updateRows \cup {NewUpdate(lastId + 1, b, v, p)}
            /\ lastId' = lastId + 1
            /\ handling' = [handling EXCEPT ![h].pc = "check", ![h].ids = {lastId + 1}]
       ELSE /\ handling' = [handling EXCEPT ![h] = Resting]
            /\ UNCHANGED <<updateRows, lastId>>
    /\ UNCHANGED <<appRow, branchRow, channelRow, runtimes, watched, listing, behind, changes>>

\* The guards of MarkUpdateAsChecked: no rollout is active, and nothing was
\* published since a rollout was inserted.
MayCheck(u) ==
    IF u.percentage = 0 THEN ActiveOn(u.branch, u.version) = {}
    ELSE {w.id : w \in CheckedOn(u.branch, u.version)} \subseteq u.known

PublishedKeys(b) == {<<"branches">>, <<"channels">>, <<"runtimes", b>>}

\* MarkUpdateAsChecked, of a publish, a rollback or a republish.
CheckRow(h) ==
    LET rows == {u \in updateRows : u.id \in handling[h].ids} IN
    /\ handling[h].pc = "check"
    /\ IF rows # {} /\ \A u \in rows : MayCheck(u)
       THEN /\ updateRows' = {[u EXCEPT !.checked = u.checked \/ u \in rows] : u \in updateRows}
            /\ RowsWritten(h, PublishedKeys(handling[h].branch), {})
       ELSE /\ handling' = [handling EXCEPT ![h] = Resting]
            /\ UNCHANGED <<updateRows, watched, listing, behind>>
    /\ UNCHANGED <<appRow, branchRow, channelRow, runtimes, lastId, changes>>

\* For a new percentage or a revert.
getActiveRolloutForMutation(h, b, v, what) ==
    /\ Comes(h) /\ AppLives /\ v <= runtimes
    /\ ActiveOn(b, v) # {}
    /\ handling' = [handling EXCEPT ![h] =
            [Resting EXCEPT !.pc = what, !.branch = b, !.version = v,
                            !.ids = UNION {{u.id, u.control} : u \in ActiveOn(b, v)}]]
    /\ UNCHANGED <<rowVars, watched, listing, behind>>

\* Mutant: the details of the rows are forgotten.
WithoutDetails(b, ids) == {<<"runtimes", b>>, <<"branches">>, <<"channels">>}

\* The rows read, and their controls, whose details show the rollout.
invalidateUpdateRolloutCaches(b, ids) ==
    {<<"runtimes", b>>, <<"branches">>, <<"channels">>} \cup {<<"details", id>> : id \in ids}

\* SetUpdateRolloutPercentage, or ClearUpdateRollout at 100: on the rows active now,
\* which need not be those read; 0 rows is an error.
WriteRollout(h, p) ==
    LET b == handling[h].branch  ids == handling[h].ids
        rows == {u \in ActiveOn(b, handling[h].version) : p = 100 \/ u.percentage < p}
    IN
    /\ IF rows # {}
       THEN /\ updateRows' = {IF u \in rows THEN [u EXCEPT !.percentage = p % 100] ELSE u :
                                u \in updateRows}
            /\ RowsWritten(h, invalidateUpdateRolloutCaches(b, ids),
                       {<<"details", u.id>> : u \in {u \in rows : u.id \notin ids}})
       ELSE /\ handling' = [handling EXCEPT ![h] = Resting]
            /\ UNCHANGED <<updateRows, watched, listing, behind>>
    /\ UNCHANGED <<appRow, branchRow, channelRow, runtimes, lastId, changes>>

SetUpdateRolloutPercentageHandler(h, p) == handling[h].pc = "progress" /\ WriteRollout(h, p)

\* Ends the rollout, and then publishes the control again.
RevertUpdateRolloutHandler(h) ==
    LET b == handling[h].branch  ids == handling[h].ids
        rows == ActiveOn(b, handling[h].version)
        missed == {<<"details", u.id>> : u \in {u \in rows : u.id \notin ids}}
    IN
    /\ handling[h].pc = "revert"
    /\ IF rows # {}
       THEN /\ updateRows' = {IF u \in rows THEN [u EXCEPT !.percentage = 0] ELSE u : u \in updateRows}
            /\ handling' = Overtake([handling EXCEPT ![h].pc = "republish",
                    ![h].keys = invalidateUpdateRolloutCaches(b, ids)], missed)
            /\ behind' = (behind \/ (watched \in missed /\ listing # NoListing))
       ELSE /\ handling' = [handling EXCEPT ![h] = Resting]
            /\ UNCHANGED <<updateRows, behind>>
    /\ UNCHANGED <<appRow, branchRow, channelRow, runtimes, lastId, watched, listing, changes>>

\* The control, or a rollback, is inserted and checked; LoseRequest is its failure,
\* which the handler answers without deleting anything.
RepublishControl(h) ==
    LET b == handling[h].branch  v == handling[h].version IN
    /\ handling[h].pc = "republish"
    /\ lastId < MaxListed /\ AppLives /\ branchRow[b].live /\ ActiveOn(b, v) = {}
    /\ updateRows' = updateRows \cup {[NewUpdate(lastId + 1, b, v, 0) EXCEPT !.checked = TRUE]}
    /\ lastId' = lastId + 1
    /\ RowsWritten(h, PublishedKeys(b) \cup handling[h].keys, {})
    /\ UNCHANGED <<appRow, branchRow, channelRow, runtimes, changes>>

-----------------------------------------------------------------------------
DashboardNext ==
    \/ \E h \in Handlers :
        \/ ReadListing(h) \/ CacheListing(h) \/ DropListings(h) \/ LoseRequest(h)
        \/ \E a \in AppIds : CreateAppHandler(h, a) \/ ImportExpoAppHandler(h, a) \/ DeleteAppHandler(h, a)
        \/ \E l \in AppLabels : UpdateAppNameHandler(h, ShownApp, l) \/ UpdateAppGitURLHandler(h, ShownApp, l)
        \/ \E b \in BranchNames : CreateBranchHandler(h, b) \/ DeleteBranchHandler(h, b)
        \/ \E b \in BranchNames, on \in BOOLEAN : SetBranchProtectionHandler(h, b, on)
        \/ \E b \in BranchNames \cup {NoName} : CreateChannelHandler(h, b)
        \/ DeleteChannelHandler(h)
        \/ \E on \in BOOLEAN : SetBranchSurfingHandler(h, on)
        \/ \E b \in BranchNames : UpdateChannelBranchMappingHandler(h, b)
        \/ \E b \in BranchNames : StartChannelRolloutHandler(h, b, Min(Splits))
        \/ \E p \in Splits : UpdateChannelRolloutHandler(h, p)
        \/ \E outcome \in {"promote", "revert"} : EndChannelRolloutHandler(h, outcome)
        \/ \E b \in BranchNames, v \in 1..MaxRuntime : UpsertBranchAndRuntimeVersion(h, b, v)
        \/ \E p \in {0, Min(Splits)} : InsertRow(h, p)
        \/ CheckRow(h)
        \/ \E b \in BranchNames, v \in 1..MaxRuntime, what \in {"progress", "revert"} :
              getActiveRolloutForMutation(h, b, v, what)
        \/ \E p \in Splits \cup {100} : SetUpdateRolloutPercentageHandler(h, p)
        \/ RevertUpdateRolloutHandler(h) \/ RepublishControl(h)
    \/ ExpireListing

DashboardSpec == DashboardInit /\ [][DashboardNext]_dashboardVars

-----------------------------------------------------------------------------
\* What the dashboard shows is what the rows say: an entry that no request in
\* flight is about to delete equals what its query would return now, whichever
\* request changed the rows last.  The exceptions are those behind marks: a GET
\* whose query ran before the change and whose cache.Set ran after the deletion, a
\* request that ended between the two, the branch a publish creates, a rollout that
\* replaced the one the request had read, and what is left of a deleted app.
ListingsFollowRows ==
    \/ listing = NoListing \/ behind \/ ~Answered(watched).found
    \/ \E h \in Handlers : handling[h].pc \in {"drop", "republish"} /\ watched \in handling[h].keys
    \/ listing = Answered(watched).shown
=============================================================================

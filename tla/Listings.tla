------------------------------ MODULE Listings ------------------------------
(***************************************************************************)
(* The paged listings of the dashboard, the REST API and the MCP tools:     *)
(* the updates and the publish groups of a branch, the update feed and its *)
(* "latest only" form, the device inventory and the audit log.  Each is a  *)
(* keyset walk: a page holds the first rows past a cursor, one more row    *)
(* than asked tells whether a next page exists, and the cursor is the key  *)
(* of the last row handed out.  Rows are published, checked, promoted,     *)
(* touched, purged and deleted between two pages of a walk.                *)
(***************************************************************************)
EXTENDS Naturals, Sequences, FiniteSets

CONSTANTS
    Branches,       \* ids of branches, positive
    Groups,         \* publish groups
    NoGroup,        \* publish_group IS NULL
    Devices,        \* eas_client_id values, as numbers
    Surfaces,       \* the listings that are walked
    DefaultLimit,   \* the page size when a client asks for none
    MaxLimit,       \* the largest page size
    MaxId,          \* bound on update and event ids, for each listing
    MaxRows,        \* bound on the rows of updates
    MaxNow          \* bound on the clock, in half seconds

ASSUME ListingsAssumption ==
    Branches \subseteq Nat \ {0} /\ NoGroup \notin Groups /\ DefaultLimit \in 1..MaxLimit

VARIABLES
    updates,        \* the rows of updates
    devices,        \* the rows of device_identity
    events,         \* the rows of audit_log_events
    clock,
    gone,           \* deleted branches and purged events, whose ids never return
    walk            \* the walk of one client

listingVars == <<updates, devices, events, clock, gone, walk>>

AnyBranch == 0
NoCursor == <<>>

\* Keys are compared as SQL compares rows.
Below(k, c) ==
    \E i \in DOMAIN k : k[i] < c[i] /\ \A j \in 1..(i - 1) : k[j] = c[j]

\* ORDER BY key DESC LIMIT n, over the rows past the cursor.
FirstPast(rows, Key(_), cursor, n) ==
    LET past == {r \in rows : cursor = NoCursor \/ Below(Key(r), cursor)} IN
    {r \in past : Cardinality({s \in past : Below(Key(r), Key(s))}) < n}

LastItem(rows, Key(_)) == CHOOSE r \in rows : \A s \in rows : s = r \/ Below(Key(r), Key(s))

MatchesFilter(filter, x) == filter = AnyBranch \/ x = filter

-----------------------------------------------------------------------------
(* The statements.                                                           *)

Listed(b) == {u \in updates : u.branch = b /\ u.checked}

ById(u) == <<u.id>>

GetUpdatesPageByBranchNameAndRuntimeVersion(b, before, n) ==
    FirstPast(Listed(b), ById, before, n)

Members(b, g) == {u \in Listed(b) : u.group = g}

\* The newest checked member of a group stands for it: NOT EXISTS newer.
NewestMembers(b) ==
    {u \in Listed(b) : u.group # NoGroup /\ ~\E v \in Members(b, u.group) : v.id > u.id}

GetPublishGroupsPage(b, before, n) == FirstPast(NewestMembers(b), ById, before, n)

FeedKey(u) == <<u.created, u.branch, u.id>>

GetUpdateFeed(filter, cursor, n) ==
    FirstPast({u \in updates : u.checked /\ MatchesFilter(filter, u.branch)}, FeedKey, cursor, n)

Heads(filter) ==
    {u \in updates : /\ u.checked /\ MatchesFilter(filter, u.branch)
                     /\ ~\E v \in Listed(u.branch) : v.platform = u.platform /\ v.id > u.id}

\* The heads, and the controls of the heads that are rolling out.
Served(filter) ==
    {u \in updates : /\ u.checked
                     /\ \/ u \in Heads(filter)
                        \/ \E h \in Heads(filter) :
                              h.rollout /\ h.branch = u.branch /\ h.control = u.id}

GetLatestUpdateFeed(filter, cursor, n) == FirstPast(Served(filter), FeedKey, cursor, n)

DeviceKey(d) == <<d.last_seen, d.id>>

ListDevices(filter, cursor, n) ==
    FirstPast({d \in devices : MatchesFilter(filter, d.branch)}, DeviceKey, cursor, n)

ListAuditLogEvents(filter, before, n) ==
    FirstPast({e \in events : MatchesFilter(filter, e.app)}, ById, before, n)

-----------------------------------------------------------------------------
(* One page: what is answered and the cursor of the next page.  A walk that *)
(* is told of no next page ends.                                            *)

Page(items, next) == [items |-> items, next |-> next]

\* Mutant: the cursor of the last item that could be converted.
AfterLastItem(rows, converted) ==
    IF converted = {} THEN NoCursor ELSE ById(LastItem(converted, ById))

\* Cursor progression follows the raw rows, not the converted items.
AfterLastRow(rows, converted) == ById(LastItem(rows, ById))

\* An update whose uuid is not stored and whose metadata cannot be read is left
\* out of its page.
GetUpdatesByRunTimeVersionAndBranchName(b, before, limit) ==
    LET found == GetUpdatesPageByBranchNameAndRuntimeVersion(b, before, limit + 1)
        rows == FirstPast(found, ById, NoCursor, limit)
        converted == {u \in rows : u.readable} IN
    Page({[what |-> u.id, as |-> u.id] : u \in converted},
         IF rows = found THEN NoCursor ELSE AfterLastRow(rows, converted))

\* A group with every checked member, newest group first.
PublishGroupsPage(b, before, limit) ==
    LET found == GetPublishGroupsPage(b, before, limit + 1)
        rows == FirstPast(found, ById, NoCursor, limit) IN
    Page({[what |-> u.group, as |-> {m.id : m \in Members(b, u.group)}] : u \in rows},
         IF rows = found THEN NoCursor ELSE ById(LastItem(rows, ById)))

\* The cursor carries the timestamp as stored.
EncodeUpdateFeedCursor(u) == FeedKey(u)

\* An incomplete cursor is refused; an empty one means the first page.
DecodeUpdateFeedCursor(c) == c = NoCursor \/ \A i \in DOMAIN c : c[i] > 0

\* The rows of the feed, or of its heads.
FeedRows(latest, filter, cursor, n) ==
    IF latest THEN GetLatestUpdateFeed(filter, cursor, n) ELSE GetUpdateFeed(filter, cursor, n)

FeedPage(latest, filter, cursor, limit) ==
    LET found == FeedRows(latest, filter, cursor, limit + 1)
        rows == FirstPast(found, FeedKey, NoCursor, limit) IN
    Page({[what |-> <<u.branch, u.id>>, as |-> u.id] : u \in rows},
         IF rows = found THEN NoCursor ELSE EncodeUpdateFeedCursor(LastItem(rows, FeedKey)))

\* RFC 3339 with nanoseconds, and the client id.
EncodeDeviceCursor(d) == DeviceKey(d)

DevicesPage(filter, cursor, limit) ==
    LET found == ListDevices(filter, cursor, limit + 1)
        rows == FirstPast(found, DeviceKey, NoCursor, limit) IN
    Page({[what |-> d.id, as |-> d.last_seen] : d \in rows},
         IF rows = found THEN NoCursor ELSE EncodeDeviceCursor(LastItem(rows, DeviceKey)))

AuditList(filter, before, limit) ==
    LET found == ListAuditLogEvents(filter, before, limit + 1)
        rows == FirstPast(found, ById, NoCursor, limit) IN
    Page({[what |-> e.id, as |-> e.id] : e \in rows},
         IF rows = found THEN NoCursor ELSE ById(LastItem(rows, ById)))

-----------------------------------------------------------------------------
(* The handlers.  A client asks for a page size, 0 when it leaves it out;    *)
(* some handlers refuse one out of range, the others clamp it.  The REST     *)
(* handlers and the MCP tools read each other's cursors.                     *)

Asked == 0..(MaxLimit + 1)

Refused == [items |-> {}, next |-> <<0>>]

InRange(asked) == asked <= MaxLimit
OrDefault(asked) == IF asked = 0 THEN DefaultLimit ELSE asked
Clamped(asked) == IF OrDefault(asked) > MaxLimit THEN MaxLimit ELSE OrDefault(asked)

GetUpdatesHandler(b, cursor, asked) ==
    IF InRange(asked) THEN GetUpdatesByRunTimeVersionAndBranchName(b, cursor, OrDefault(asked))
    ELSE Refused

GetPublishGroupsHandler(b, cursor, asked) ==
    IF InRange(asked) THEN PublishGroupsPage(b, cursor, OrDefault(asked)) ELSE Refused

GetUpdateFeedHandler(latest, filter, cursor, asked) ==
    IF InRange(asked) /\ DecodeUpdateFeedCursor(cursor)
    THEN FeedPage(latest, filter, cursor, OrDefault(asked))
    ELSE Refused

getUpdatesTool(filter, cursor, asked) ==
    IF DecodeUpdateFeedCursor(cursor) THEN FeedPage(FALSE, filter, cursor, Clamped(asked))
    ELSE Refused

ListDevicesHandler(filter, cursor, asked) == DevicesPage(filter, cursor, Clamped(asked))
searchDevicesTool(filter, cursor, asked) == DevicesPage(filter, cursor, Clamped(asked))

ListAuditLogsHandler(filter, before, asked) == AuditList(filter, before, Clamped(asked))
queryAuditLogsTool(filter, before, asked) == AuditList(filter, before, Clamped(asked))

\* The answers to one request for a page.
Answers(surface, filter, cursor, asked) ==
    CASE surface = "updates" -> {GetUpdatesHandler(filter, cursor, asked)}
      [] surface = "groups" -> {GetPublishGroupsHandler(filter, cursor, asked)}
      [] surface = "feed" -> {GetUpdateFeedHandler(FALSE, filter, cursor, asked),
                              getUpdatesTool(filter, cursor, asked)}
      [] surface = "latest" -> {GetUpdateFeedHandler(TRUE, filter, cursor, asked)}
      [] surface = "devices" -> {ListDevicesHandler(filter, cursor, asked),
                                 searchDevicesTool(filter, cursor, asked)}
      [] surface = "audit" -> {ListAuditLogsHandler(filter, cursor, asked),
                               queryAuditLogsTool(filter, cursor, asked)}

\* Everything a complete listing would answer now.
Everything(surface, filter) ==
    CASE surface = "updates" ->
            {[what |-> u.id, as |-> u.id] : u \in {v \in Listed(filter) : v.readable}}
      [] surface = "groups" ->
            {[what |-> g, as |-> {m.id : m \in Members(filter, g)}] :
                g \in {h \in Groups : Members(filter, h) # {}}}
      [] surface = "feed" ->
            {[what |-> <<u.branch, u.id>>, as |-> u.id] :
                u \in {v \in updates : v.checked /\ MatchesFilter(filter, v.branch)}}
      [] surface = "latest" ->
            {[what |-> <<u.branch, u.id>>, as |-> u.id] : u \in Served(filter)}
      [] surface = "devices" ->
            {[what |-> d.id, as |-> d.last_seen] :
                d \in {e \in devices : MatchesFilter(filter, e.branch)}}
      [] surface = "audit" ->
            {[what |-> e.id, as |-> e.id] : e \in {f \in events : MatchesFilter(filter, f.app)}}

\* The client asks for page after page; "steady" is what has been listable, in
\* the same place, at every page so far.
ReadPage(asked) ==
    LET all == Everything(walk.surface, walk.filter) IN
    /\ ~walk.done
    /\ \E page \in Answers(walk.surface, walk.filter, walk.cursor, asked) \ {Refused} :
          walk' = [walk EXCEPT
            !.cursor = page.next, !.done = page.next = NoCursor, !.begun = TRUE,
            !.repeated = @ \/ \E i \in page.items, j \in walk.seen : i.what = j.what,
            !.seen = @ \cup page.items,
            !.steady = IF walk.begun THEN @ \cap all ELSE all]
    /\ UNCHANGED <<updates, devices, events, clock, gone>>

-----------------------------------------------------------------------------
(* What happens meanwhile.                                                   *)

OverUpdates == walk.surface \in {"updates", "groups", "feed", "latest"}

\* The columns the walked listing tells apart; the others keep one value.
Over(surfaces, S, s) == IF walk.surface \in surfaces THEN S ELSE {s}
BranchesSeen == IF walk.surface \in {"updates", "groups"} THEN {walk.filter} ELSE Branches
GroupsSeen == Over({"groups"}, Groups \cup {NoGroup}, NoGroup)
PlatformsSeen == Over({"latest"}, {"ios", "android"}, "ios")
RolloutsSeen == Over({"latest"}, BOOLEAN, FALSE)

\* InsertUpdate and InsertUpdateWithRollout: a row that is not listed until it is
\* checked, with the rows checked before it and the control among them.  Ids come from the publisher's clock, created_at from the database's.
Publish(b, i, g, p, r) ==
    LET older == {v \in Listed(b) : v.platform = p} IN
    /\ OverUpdates /\ b \notin gone /\ Cardinality(updates) < MaxRows
    /\ ~\E u \in updates : u.branch = b /\ u.id = i
    /\ \E readable \in Over({"updates"}, BOOLEAN, TRUE) :
          updates' = updates \cup
             {[branch |-> b, id |-> i, created |-> clock, group |-> g, platform |-> p,
               checked |-> FALSE, readable |-> readable, rollout |-> r,
               before |-> IF r THEN {v.id : v \in older} ELSE {},
               control |-> IF r /\ older # {} THEN LastItem(older, ById).id ELSE 0]}
    /\ UNCHANGED <<devices, events, clock, gone, walk>>

\* A plain row is not checked while another of its platform is rolling out, a
\* rollout not after another row was checked since its insertion.
MarkUpdateAsChecked(u) ==
    LET others == {v \in Listed(u.branch) : v.platform = u.platform} IN
    /\ OverUpdates /\ ~u.checked
    /\ IF u.rollout THEN {v.id : v \in others} \subseteq u.before
       ELSE \A v \in others : ~v.rollout
    /\ updates' = (updates \ {u}) \cup {[u EXCEPT !.checked = TRUE]}
    /\ UNCHANGED <<devices, events, clock, gone, walk>>

\* The rollouts of a branch end at 100%: control_update_id stays.
ClearUpdateRollout(b) ==
    /\ OverUpdates /\ \E u \in Listed(b) : u.rollout
    /\ updates' = {[u EXCEPT !.rollout = @ /\ ~(u.checked /\ u.branch = b)] : u \in updates}
    /\ UNCHANGED <<devices, events, clock, gone, walk>>

DeleteBranch(b) ==
    /\ OverUpdates /\ Listed(b) # {}
    /\ updates' = {u \in updates : u.branch # b}
    /\ gone' = gone \cup {b}
    /\ UNCHANGED <<devices, events, clock, walk>>

\* A device checks in from a branch.
Touch(d, b) ==
    /\ walk.surface = "devices"
    /\ devices' = {e \in devices : e.id # d} \cup {[id |-> d, last_seen |-> clock, branch |-> b]}
    /\ devices' # devices
    /\ UNCHANGED <<updates, events, clock, gone, walk>>

\* Ids are drawn from a sequence, and rows may commit in another order.
Record(i, a) ==
    /\ walk.surface = "audit" /\ i \notin gone /\ ~\E e \in events : e.id = i
    /\ events' = events \cup {[id |-> i, app |-> a]}
    /\ UNCHANGED <<updates, devices, clock, gone, walk>>

PurgeBefore(i) ==
    /\ walk.surface = "audit" /\ \E e \in events : e.id < i
    /\ events' = {e \in events : e.id >= i}
    /\ gone' = gone \cup {e.id : e \in events \ events'}
    /\ UNCHANGED <<updates, devices, clock, walk>>

ListingTick ==
    /\ clock < MaxNow /\ walk.surface \in {"feed", "devices"}
    /\ clock' = clock + 1
    /\ UNCHANGED <<updates, devices, events, gone, walk>>

ListingsInit ==
    /\ updates = {} /\ devices = {} /\ events = {} /\ clock = 2 /\ gone = {}
    /\ \E s \in Surfaces, f \in Branches \cup {AnyBranch} :
          /\ s \in {"updates", "groups"} => f # AnyBranch
          /\ walk = [surface |-> s, filter |-> f, cursor |-> NoCursor, begun |-> FALSE,
                     done |-> FALSE, seen |-> {}, steady |-> {}, repeated |-> FALSE]

ListingsNext ==
    \/ \E asked \in Asked : ReadPage(asked)
    \/ \E b \in BranchesSeen, i \in 1..MaxId[walk.surface], g \in GroupsSeen,
          p \in PlatformsSeen, r \in RolloutsSeen :
          Publish(b, i, g, p, r)
    \/ \E u \in updates : MarkUpdateAsChecked(u)
    \/ \E b \in Branches : ClearUpdateRollout(b)
    \/ \E b \in Branches : DeleteBranch(b)
    \/ \E d \in Devices, b \in Branches : Touch(d, b)
    \/ \E i \in 1..MaxId[walk.surface], a \in Branches : Record(i, a)
    \/ \E i \in 1..MaxId[walk.surface] : PurgeBefore(i)
    \/ ListingTick

ListingsSpec == ListingsInit /\ [][ListingsNext]_listingVars

-----------------------------------------------------------------------------
\* A walk never answers one update, group, device or event twice ("without
\* splitting or repeating a publish group"), and a finished walk has answered
\* all that was listable in the same place at each of its pages, groups with all
\* their members, whatever was written between the pages.
EachRowOnce == ~walk.repeated /\ (walk.done => walk.steady \subseteq walk.seen)
=============================================================================

----------------------------- MODULE MCDashboard -----------------------------
(***************************************************************************)
(* The parts behind the dashboard, for TLC: accounts, the listings it      *)
(* caches and those it pages through.  The parts share nothing, so a       *)
(* behaviour runs one of them, chosen at the start, and the others rest.   *)
(***************************************************************************)
EXTENDS Accounts, DashboardLists, Listings, TLC

VARIABLE part

allVars == <<part, vars, dashboardVars, listingVars>>

DashboardRests ==
    /\ appRow = 0 /\ branchRow = 0 /\ channelRow = 0 /\ runtimes = 0 /\ updateRows = 0
    /\ lastId = 0 /\ watched = 0 /\ listing = 0 /\ behind = 0 /\ handling = 0
    /\ changes = 0

ListingsRest ==
    /\ updates = 0 /\ devices = 0 /\ events = 0 /\ clock = 0 /\ gone = 0
    /\ walk = 0

MCInit ==
    /\ part \in {"accounts", "dashboard", "listings"}
    /\ Init
    /\ part # "accounts" => Admins(users) = Users
    /\ IF part = "dashboard" THEN DashboardInit ELSE DashboardRests
    /\ IF part = "listings" THEN ListingsInit ELSE ListingsRest

MCNext ==
    \/ /\ part = "accounts" /\ Next
       /\ UNCHANGED <<part, dashboardVars, listingVars>>
    \/ /\ part = "dashboard" /\ DashboardNext
       /\ UNCHANGED <<part, vars, listingVars>>
    \/ /\ part = "listings" /\ ListingsNext
       /\ UNCHANGED <<part, vars, dashboardVars>>

MCSpec == MCInit /\ [][MCNext]_allVars

\* Requests are interchangeable, and so are the handlers named like them.
Symmetry == Permutations(Requests)

\* No action of Accounts reads session_version: View leaves it out.
View == <<part, [u \in Users |-> <<users[u].life, users[u].is_admin, users[u].enabled>>], holder, req,
          dashboardVars, listingVars>>

MCWatched == {<<"apps">>, <<"app", "a1">>, <<"branches">>, <<"channels">>, <<"details", 1>>, <<"details", 2>>}
             \cup RuntimeKeys
MCMaxId == [updates |-> 4, groups |-> 4, feed |-> 2, latest |-> 2, devices |-> 0, audit |-> 3]

-----------------------------------------------------------------------------
\* DashboardLists: a cached listing shows the rows as they are, once no change is being
\* made to them (the invalidations of the services).
DashboardFollowsRows == part = "dashboard" => ListingsFollowRows

\* Listings: a client that follows the cursors meets every row once (keyset pagination).
PagesShowEachRow == part = "listings" => EachRowOnce
=============================================================================

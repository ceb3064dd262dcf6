----------------------------- MODULE AppAccess ------------------------------
(***************************************************************************)
(* User roles (ee/rbac): the roles, one member's grants on the apps, the   *)
(* administrators who replace those grants concurrently, and a dashboard   *)
(* request of the account on its way through the two middlewares that      *)
(* decide it.  The enterprise licence comes and goes between any two steps.*)
(***************************************************************************)
EXTENDS Naturals, FiniteSets

CONSTANTS
    Apps,           \* ids of apps
    Roles,          \* ids of roles
    NoRole,         \* role_id IS NULL
    Admins,         \* administrators saving the member's grants
    Edits           \* the sets of grants they save: app -> [role, extra]

ASSUME RolesAssumption == NoRole \notin Roles

VARIABLES
    apps,           \* the rows of apps
    roles,          \* the rows of roles: id -> permissions
    grants,         \* the member's rows of user_app_grants: app -> [role, extra]
    licensed,       \* licensing.IsEnterprise
    saving,         \* the transactions replacing the grants
    lastSave,       \* history: the last set committed, and whether it was alone
    visit           \* the dashboard request

accessVars == <<apps, roles, grants, licensed, saving, lastSave, visit>>

-----------------------------------------------------------------------------
(* The catalog: one permission of each fallback.                             *)

AllPermissions == {"identity:read", "branch:delete"}

DefaultFallback(perm) == IF perm = "identity:read" THEN "AnyMember" ELSE "AdminOnly"

NotSaving == [pc |-> "idle", doomed |-> {}, edit |-> [a \in {} |-> 0]]
NotVisiting == [pc |-> "idle", admin |-> FALSE, app |-> CHOOSE a \in Apps : TRUE,
                perm |-> "identity:read", loaded |-> FALSE, has |-> {}, answers |-> {}]

AccessInit ==
    /\ apps = Apps
    /\ roles = [r \in {} |-> {}]
    /\ grants = [a \in {} |-> 0]
    /\ licensed = TRUE
    /\ saving = [s \in Admins |-> NotSaving]
    /\ lastSave = [edit |-> [a \in {} |-> 0], alone |-> TRUE]
    /\ visit = NotVisiting

Without(f, S) == [x \in DOMAIN f \ S |-> f[x]]

-----------------------------------------------------------------------------
(* The reads.                                                                *)

\* GetUserAppGrant: the row, its role joined; nil without a row.
GetUserAppGrant(app) ==
    IF app \in DOMAIN grants
    THEN {[rolePermissions |-> IF grants[app].role = NoRole THEN {} ELSE roles[grants[app].role],
           extraPermissions |-> grants[app].extra]}
    ELSE {}

\* ListUserAppGrants, as ListUserGrants returns it.
ListUserGrants == [a \in DOMAIN grants |-> CHOOSE g \in GetUserAppGrant(a) : TRUE]

ListAccessibleAppIDs == DOMAIN grants

Has(grant, perm) == perm \in grant.rolePermissions \/ perm \in grant.extraPermissions

Effective(grant) == {p \in AllPermissions : Has(grant, p)}

EffectivePermissionsByApp == [a \in DOMAIN ListUserGrants |-> Effective(ListUserGrants[a])]

\* grantAllows: the answer to a member whose grant is loaded.
grantAllows(grant, perm) ==
    IF grant = {} THEN "ErrNoAppAccess"
    ELSE IF \E g \in grant : Has(g, perm) THEN "ok" ELSE "ErrPermissionDenied"

Authorize(admin, app, perm, fallback) ==
    IF admin THEN "ok"
    ELSE IF ~licensed THEN IF fallback = "AnyMember" THEN "ok" ELSE "ErrRequiresValidLicense"
    ELSE grantAllows(GetUserAppGrant(app), perm)

\* DescribeAccountPermissions: the apps it lists, each with what is granted.
DescribeAccountPermissions(admin) ==
    IF admin THEN [a \in apps |-> AllPermissions]
    ELSE IF ~licensed THEN [a \in apps |-> {p \in AllPermissions : DefaultFallback(p) = "AnyMember"}]
    ELSE EffectivePermissionsByApp

HasPermissionSomewhere(admin, perm, fallback) ==
    \/ admin
    \/ ~licensed /\ fallback = "AnyMember"
    \/ licensed /\ \E a \in DOMAIN EffectivePermissionsByApp : perm \in EffectivePermissionsByApp[a]

\* VisibleGrant: whether the app is visible, and the grant that decided it.
VisibleGrant(admin, app) ==
    IF admin \/ ~licensed THEN [visible |-> TRUE, grant |-> {}]
    ELSE [visible |-> GetUserAppGrant(app) # {}, grant |-> GetUserAppGrant(app)]

VisibleApps(admin) == IF admin \/ ~licensed THEN apps ELSE ListAccessibleAppIDs

\* VisibleAppsForPrincipal, which reads the admin flag again.
VisibleAppsForPrincipal(admin) == IF ~licensed THEN apps ELSE VisibleApps(admin)

\* GetMyPermissionsHandler: the map the dashboard shows its buttons by; without
\* one, isAdmin and the fallbacks decide.
GetMyPermissionsHandler(admin) ==
    IF licensed /\ ~admin THEN EffectivePermissionsByApp
    ELSE [a \in apps |-> {p \in AllPermissions : admin \/ DefaultFallback(p) = "AnyMember"}]

\* GetUserGrantsHandler: the administrator's view of the member, which the licence
\* does not gate.
GetUserGrantsHandler == [a \in DOMAIN ListUserGrants |-> Effective(ListUserGrants[a])]

\* CountGrantsPerUser has no row for a member without grants.
GrantCountsByUser == IF grants = <<>> THEN {} ELSE {Cardinality(DOMAIN grants)}

\* The gates of the MCP tools, each declared with the fallback of its permission.
MCPAccess(perm) == [perm |-> perm, fallback |-> DefaultFallback(perm)]
MCPCanUseSomewhere(admin, access) == HasPermissionSomewhere(admin, access.perm, access.fallback)
MCPAuthorizeTool(admin, app, access) == Authorize(admin, app, access.perm, access.fallback)
MCPDescribePermissions(admin) == DescribeAccountPermissions(admin)

-----------------------------------------------------------------------------
(* The routes of administrators.                                             *)

\* requireWritable: mutations need a licence.
requireWritable == licensed

\* InsertRole and UpdateRole.  Deleting a role waits for the transactions that
\* insert a grant of it, and is then refused.
CreateRole(r, perms) ==
    /\ requireWritable /\ r \notin DOMAIN roles
    /\ roles' = [x \in DOMAIN roles \cup {r} |-> IF x = r THEN perms ELSE roles[x]]
    /\ UNCHANGED <<apps, grants, licensed, saving, lastSave>>

UpdateRole(r, perms) ==
    /\ requireWritable /\ r \in DOMAIN roles
    /\ roles' = [roles EXCEPT ![r] = perms]
    /\ UNCHANGED <<apps, grants, licensed, saving, lastSave>>

\* ON DELETE RESTRICT: ErrRoleInUse while some grant names the role.
Deletable(r) == r \in DOMAIN roles /\ \A a \in DOMAIN grants : grants[a].role # r

DeleteRole(r) ==
    /\ requireWritable /\ Deletable(r)
    /\ roles' = Without(roles, {r})
    /\ UNCHANGED <<apps, grants, licensed, saving, lastSave>>

\* DeleteAppByID: the grants cascade, once no transaction holds the row.
DeleteApp(app) ==
    /\ app \in apps
    /\ \A s \in Admins : ~(saving[s].pc = "deleted" /\ app \in saving[s].doomed)
    /\ apps' = apps \ {app}
    /\ grants' = Without(grants, {app})
    /\ saving' = [s \in Admins |-> [saving[s] EXCEPT !.doomed = @ \ {app}]]
    /\ lastSave' = [lastSave EXCEPT !.edit = Without(@, {app})]
    /\ UNCHANGED <<roles, licensed>>

\* SetUserGrants: the transaction of ReplaceUserGrants starts its DELETE, which
\* works on the rows committed by now.
SetUserGrants(s, edit) ==
    /\ requireWritable /\ saving[s].pc = "idle"
    /\ saving' = [saving EXCEPT ![s] = [pc |-> "deleting", doomed |-> DOMAIN grants, edit |-> edit]]
    /\ UNCHANGED <<apps, roles, grants, licensed, lastSave>>

\* DeleteUserAppGrantsByUser takes the row locks, after whoever holds them.
DeleteUserAppGrantsByUser(s) ==
    /\ saving[s].pc = "deleting"
    /\ \A t \in Admins : saving[t].pc = "deleted" => saving[t].doomed \cap saving[s].doomed = {}
    /\ saving' = [saving EXCEPT ![s].pc = "deleted"]
    /\ UNCHANGED <<apps, roles, grants, licensed, lastSave>>

\* The table once the doomed rows are gone and the new ones inserted.
Replaced(s) ==
    [a \in (DOMAIN grants \ saving[s].doomed) \cup DOMAIN saving[s].edit |->
        IF a \in DOMAIN saving[s].edit THEN saving[s].edit[a] ELSE grants[a]]

\* InsertUserAppGrant: the app and the role exist, and the primary key is free.
InsertUserAppGrant(s) ==
    \A a \in DOMAIN saving[s].edit :
        /\ a \in apps
        /\ saving[s].edit[a].role \in DOMAIN roles \cup {NoRole}
        /\ a \notin DOMAIN grants \ saving[s].doomed

\* The transaction commits, or a violation rolls it back: the rows it deleted
\* are then as they were.
ReplaceUserGrants(s) ==
    /\ saving[s].pc = "deleted"
    /\ IF InsertUserAppGrant(s)
       THEN /\ grants' = Replaced(s)
            /\ saving' = [t \in Admins |-> IF t = s THEN NotSaving
                                           ELSE [saving[t] EXCEPT !.doomed = @ \ saving[s].doomed]]
            /\ lastSave' = [edit |-> saving[s].edit,
                            alone |-> DOMAIN grants \subseteq saving[s].doomed]
       ELSE /\ saving' = [saving EXCEPT ![s] = NotSaving]
            /\ UNCHANGED <<grants, lastSave>>
    /\ UNCHANGED <<apps, roles, licensed>>

LicenceChanges ==
    /\ licensed' = ~licensed
    /\ UNCHANGED <<apps, roles, grants, saving, lastSave>>

-----------------------------------------------------------------------------
(* A request of the account on one app.                                      *)

\* history: what Authorize answers a request at one moment.
Answer(v) ==
    {IF Authorize(v.admin, v.app, v.perm, DefaultFallback(v.perm)) = "ok" THEN "yes" ELSE "no"}

\* The session is authenticated, and with it the account's admin flag read.
Visit(admin, app, perm) ==
    /\ visit.pc = "idle" /\ app \in apps
    /\ LET v == [NotVisiting EXCEPT !.pc = "visible", !.admin = admin, !.app = app, !.perm = perm]
       IN visit' = [v EXCEPT !.answers = Answer(v)]

\* RequireAppVisible: an invisible app is a 404; the grant goes on with the request.
RequireAppVisible ==
    LET seen == VisibleGrant(visit.admin, visit.app) IN
    /\ visit.pc = "visible"
    /\ visit' = IF ~seen.visible THEN [visit EXCEPT !.pc = "refused"]
                ELSE [visit EXCEPT !.pc = "permission", !.loaded = seen.grant # {}, !.has = seen.grant]

\* Mutant: the stored grant is not looked at, and a stale licence decides.
VisibleIsEnough(v) == IF v.loaded THEN "ok" ELSE Authorize(v.admin, v.app, v.perm, DefaultFallback(v.perm))

\* authorizeRequest: the loaded grant if there is one, else a decision of its own.
authorizeRequest(v) ==
    IF v.loaded THEN grantAllows(v.has, v.perm)
    ELSE Authorize(v.admin, v.app, v.perm, DefaultFallback(v.perm))

RequirePermission ==
    /\ visit.pc = "permission"
    /\ visit' = [visit EXCEPT !.pc = IF authorizeRequest(visit) = "ok" THEN "passed" ELSE "refused"]

Answered ==
    /\ visit.pc \in {"passed", "refused"}
    /\ visit' = NotVisiting

\* The request sees the tables move.
Observe ==
    \E v \in {visit} :
        visit' = IF v.pc \in {"visible", "permission"}
                 THEN [v EXCEPT !.answers = @ \cup Answer(v)'] ELSE v

Administration ==
    \/ \E r \in Roles : DeleteRole(r)
    \/ \E r \in Roles, perms \in SUBSET AllPermissions : CreateRole(r, perms) \/ UpdateRole(r, perms)
    \/ \E a \in Apps : DeleteApp(a)
    \/ \E s \in Admins : \/ \E edit \in Edits : SetUserGrants(s, edit)
                         \/ DeleteUserAppGrantsByUser(s) \/ ReplaceUserGrants(s)
    \/ LicenceChanges

Visits ==
    \/ \E admin \in BOOLEAN, a \in Apps, p \in AllPermissions : Visit(admin, a, p)
    \/ RequireAppVisible \/ RequirePermission \/ Answered

AccessNext ==
    \/ Visits /\ UNCHANGED <<apps, roles, grants, licensed, saving, lastSave>>
    \/ Administration /\ Observe

AccessSpec == AccessInit /\ [][AccessNext]_accessVars

-----------------------------------------------------------------------------
\* The foreign keys: every grant is on an app that exists, with a role that exists.
AccessTypeOK ==
    /\ DOMAIN grants \subseteq apps /\ apps \subseteq Apps
    /\ \A a \in DOMAIN grants : grants[a].role \in DOMAIN roles \cup {NoRole}
    /\ \A s \in Admins : saving[s].doomed \subseteq DOMAIN grants

\* Every surface tells the account the same: what whoami lists as granted is what
\* the routes allow, a tool is listed exactly when some app would allow it, and
\* the apps of the list are the apps that open.
SurfacesAgree ==
    \A admin \in BOOLEAN :
        /\ \A a \in apps, p \in AllPermissions :
              LET allowed == Authorize(admin, a, p, DefaultFallback(p)) = "ok" IN
              /\ allowed <=> /\ a \in DOMAIN MCPDescribePermissions(admin)
                             /\ p \in MCPDescribePermissions(admin)[a]
              /\ allowed <=> /\ a \in DOMAIN GetMyPermissionsHandler(admin)
                             /\ p \in GetMyPermissionsHandler(admin)[a]
              /\ allowed <=> MCPAuthorizeTool(admin, a, MCPAccess(p)) = "ok"
              /\ VisibleGrant(admin, a).visible <=> a \in VisibleAppsForPrincipal(admin)
              /\ allowed => VisibleGrant(admin, a).visible
        /\ apps # {} => \A p \in AllPermissions :
              MCPCanUseSomewhere(admin, MCPAccess(p))
                 <=> \E a \in apps : Authorize(admin, a, p, DefaultFallback(p)) = "ok"
        /\ GrantCountsByUser = {} <=> DOMAIN GetUserGrantsHandler = {}

\* The two middlewares read the grant and the licence at different moments; their
\* answer is still one that Authorize would have given at some moment of the
\* request, to the account as it was authenticated.
AnsweredAsOfSomeMoment ==
    /\ visit.pc = "passed" => "yes" \in visit.answers
    /\ visit.pc = "refused" => "no" \in visit.answers

\* A save that no other one overtakes leaves exactly the grants it was given.
SavesReplace == lastSave.alone => grants = lastSave.edit

\* What holds of roles and grants.
AccessSound == SurfacesAgree /\ AnsweredAsOfSomeMoment /\ SavesReplace
=============================================================================

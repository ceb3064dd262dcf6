--------------------------- MODULE MCControlPlane ----------------------------
(***************************************************************************)
(* Four parts for TLC beside the requests that take away from accounts:    *)
(* the import of an Expo project, the move of a stateless deployment to    *)
(* the control plane, and the source maps and stack traces of the errors   *)
(* devices report.  The parts share nothing, so a behaviour runs one of    *)
(* them, chosen at the start, and the others rest.                         *)
(***************************************************************************)
EXTENDS Accounts, ExpoImport, ControlPlaneMigration, StackTraces, SourcemapIndexes, TLC

VARIABLE part

allVars == <<part, vars, importVars, migrationVars, traceVars, sourcemapVars>>

ImportRests ==
    /\ project = 0 /\ projectCache = 0 /\ shown = 0 /\ importer = 0 /\ theApp = 0
    /\ historyJob = 0 /\ imported = 0 /\ folders = 0 /\ cas = 0 /\ passedOver = 0
    /\ unsure = 0 /\ budget = 0

MoveRests ==
    /\ legacyFolder = 0 /\ expoMapping = 0 /\ environment = 0 /\ tables = 0 /\ recorded = 0
    /\ migrationLock = 0 /\ replica = 0 /\ deploymentId = 0 /\ mishaps = 0 /\ late = 0
    /\ lossy = 0

TracesRest ==
    /\ study = 0 /\ mappings = 0 /\ contents = 0 /\ traceLines = 0 /\ spot = 0

SourcemapsRest ==
    /\ mapFile = 0 /\ indexFile = 0 /\ indexRecord = 0 /\ indexJob = 0 /\ publishes = 0
    /\ scheduling = 0 /\ entitled = 0 /\ opened = 0 /\ occurrences = 0 /\ errorGroup = 0
    /\ sweep = 0 /\ trouble = 0 /\ spoilt = 0 /\ loose = 0

MCInit ==
    /\ part \in {"accounts", "import", "move", "traces", "sourcemaps"}
    /\ Init
    /\ part # "accounts" => Admins(users) = Users
    /\ IF part = "import" THEN ImportInit ELSE ImportRests
    /\ IF part = "move" THEN MoveInit ELSE MoveRests
    /\ IF part = "traces" THEN TracesInit ELSE TracesRest
    /\ IF part = "sourcemaps" THEN SourcemapInit ELSE SourcemapsRest

MCNext ==
    \/ /\ part = "accounts" /\ Next
       /\ UNCHANGED <<part, importVars, migrationVars, traceVars, sourcemapVars>>
    \/ /\ part = "import" /\ ImportNext
       /\ UNCHANGED <<part, vars, migrationVars, traceVars, sourcemapVars>>
    \/ /\ part = "move" /\ MoveNext
       /\ UNCHANGED <<part, vars, importVars, traceVars, sourcemapVars>>
    \/ /\ part = "traces" /\ TracesNext
       /\ UNCHANGED <<part, vars, importVars, migrationVars, sourcemapVars>>
    \/ /\ part = "sourcemaps" /\ SourcemapNext
       /\ UNCHANGED <<part, vars, importVars, migrationVars, traceVars>>

MCSpec == MCInit /\ [][MCNext]_allVars

\* No action reads session_version: View leaves it out.
View == <<part, [u \in Users |-> <<users[u].life, users[u].is_admin, users[u].enabled>>], holder, req,
          importVars, migrationVars, traceVars, sourcemapVars>>

MCMap(b, l) == [branch |-> b, logic |-> l]

MCProjects == {
    [branches |-> {"main", "bad"}, accounts |-> <<<<"p">>, <<"q", "r", "s">>>>,
     channels |-> ("prod" :> <<MCMap("main", "rollout"), MCMap("bad", "true")>>)
                  @@ ("old" :> <<MCMap("gone", "true")>>)],
    [branches |-> {"main", "dev"}, accounts |-> <<<<"p", "q", "r", "s", "t">>, <<>>>>,
     channels |-> ("prod" :> <<MCMap("dev", "rollout"), MCMap("main", "true")>>)
                  @@ ("bad" :> <<MCMap("main", "true")>>)]}

MCUpdate(g, k, b, blobs, damaged) ==
    [group |-> g, kind |-> k, branch |-> b, blobs |-> blobs, damaged |-> damaged]

MCHistory == <<MCUpdate(1, "update", "main", {"x"}, {}), MCUpdate(2, "update", "dev", {"x", "y"}, {"y"}),
               MCUpdate(3, "rollback", "main", {}, {}), MCUpdate(3, "update", "dev", {"x"}, {})>>

MCFolder(k, m, a) == [kind |-> k, meta |-> m, mapping |-> a]
MCFolderKinds == {MCFolder("update", "ok", "valid"), MCFolder("update", "bad", "valid"),
                  MCFolder("rollback", "ok", "none")}
MCMappings == {"prod" :> "main" @@ "beta" :> "main", "prod" :> "dev" @@ "beta" :> "none"}

MCDeltas == {<<1>>, <<0, 1, 0, 1>>, <<1, 0, 1, 0>>, <<1, -1, 1, 0, 0>>, <<-1, 0, 0, 0>>}
MCVLQValues == (-40)..40 \cup {511, 512, -600}
MCOrigin(s, a, t, n) == [source |-> s, inApp |-> a, text |-> t, name |-> n]
MCOriginOf == [f1 |-> MCOrigin("App", TRUE, "throw", "boom"), g1 |-> MCOrigin("App", TRUE, "throw", "boom"),
               f2 |-> MCOrigin("lib", FALSE, "", "call"), g2 |-> MCOrigin("lib", FALSE, "", "call"),
               n |-> NoOrigin]
MCRenamed == [f1 |-> "g1", g1 |-> "f1", f2 |-> "g2", g2 |-> "f2", n |-> "n"]
MCTexts == {<<>>, <<1>>, <<2, 3>>}

MCHashOf == [u \in {"u1", "u3"} |-> IF u = "u3" THEN "nomap" ELSE "h1"]
MCUpdateOf == <<"u1", "u3", "u1">>

-----------------------------------------------------------------------------
\* ExpoImport: an import creates what its preview showed, or nothing; imported channels
\* map to imported branches; the imported history is a prefix of Expo's, every update
\* of it whole; and the dashboard shows the job as it is.
ImportIsSound == part = "import" => ImportSound

\* ControlPlaneMigration: a deployment moved to the control plane serves what it served,
\* with its keys and under one deployment id.
MoveIsSound == part = "move" => MoveSound

\* StackTraces: a trace is mapped through the index as through the source map, and
\* errors are grouped by where they come from.
TracesAreSound == part = "traces" => TracesSound

\* SourcemapIndexes: a record that says "stored" has its index, one that waits has a
\* job, and the sweep marks an error only when its update has no map and misses none.
SourcemapsAreSound == part = "sourcemaps" => SourcemapTypeOK /\ SourcemapsSound
=============================================================================

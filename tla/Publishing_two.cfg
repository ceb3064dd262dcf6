\* Two platforms, whose rollouts are progressed and reverted together; and a small
\* instance of the other parts.
CONSTANTS
    Platforms = {1, 2}
    Requests = {q1, q2}
    Percentages = {10}
    Contents = {a}
    Embedded = Embedded
    MaxNow = 2
    Clients = {d1, d2}
    Keys = {1}
    Values = {1, 2}
    Connections = {q1, q2}
    MaxSchemaKeys = 1
    MaxRemovals = 1
    Names = {1, 2}
    Scalars = {"x", "y"}
    MaxBatch = 2
    Published = 2
    Writers = {q1, q2}
    MaxTime = 3
    MaxReports = 3
    MaxRecords = 3
    UpdateIds = {0, 1}
    DeviceTimes = {1, 2}
    MaxRecordsPerBatch = 2
    MaxUpdateLookups = 1
    MaxRuntimeSignals = 1
    SurfBranches = {b1, b2}
    NotAsked = NotAsked
    Levels = {1}
    Draws = {0, 1}
    MaxTokens = 2
    MaxPublished = 2
    Letters = {l1, l2}
    Star = Star
    MaxPattern = 5
    MaxName = 4
SPECIFICATION MCSpec
SYMMETRY Symmetry
VIEW WholeView
INVARIANTS
    RevertRestores
    
    IdentitySound

    
CHECK_DEADLOCK FALSE

\* Requests that only take away, two at a time, on two accounts; and a small instance
\* of the other parts.
CONSTANTS
    Users = {1, 2}
    Requests = {q1, q2}
    Kinds = {"delete", "demote", "disable"}
    NoOne = NoOne
    Projects <- MCProjects
    NoProject = NoProject
    InvalidNames = {"bad"}
    NoMapping = "none"
    History <- MCHistory
    MaxAttempts = 2
    Limits = {0, 2}
    PageSize = 2
    MaxPages = 2
    MaxFailures = 1
    MaxImports = 2
    Replicas = {q1, q2}
    NoReplica = NoReplica
    LegacyBranches = {"main", "dev"}
    NoLegacyBranch = "none"
    LegacyChannels = {"prod", "beta"}
    LegacyPlatforms = {"ios"}
    MaxFolders = 2
    LegacyMappings <- MCMappings
    FolderKinds <- MCFolderKinds
    MaxMishaps = 1
    KeyModes = {"environment"}
    Studies = {"map", "texts", "trace", "line", "file"}
    Deltas <- MCDeltas
    SourceCount = 2
    NameCount = 1
    MaxSegments = 4
    MaxMapLines = 2
    FenceStride = 2
    VLQValues <- MCVLQValues
    SourceTexts <- MCTexts
    FrameNames = {"f1", "g1", "f2", "g2", "n"}
    OriginOf <- MCOriginOf
    NoOrigin = NoOrigin
    NativeFrames = {"n"}
    Renamed <- MCRenamed
    KeptRecent = 1
    KeptOldest = 2
    TraceRoom = 5
    MaxTraceLines = 5
    LineLengths = {10, 150, 151, 155, 199, 200, 300}
    FileLengths = {0, 1, 5, 11, 14}
    PublishedUpdates = {"u1", "u3"}
    MapHashes = {"h1"}
    HashOf <- MCHashOf
    ErrorIds = {1, 2, 3}
    UpdateOf <- MCUpdateOf
    IndexAttempts = 2
    IndexCacheSize = 1
    PerSweep = 2
    WriteEvery = 2
    MaxCount = 1
    MaxPublishes = 1
    MaxTrouble = 2
SPECIFICATION MCSpec
VIEW View
INVARIANTS
    SomeAdminEnabled
    ImportIsSound
    
    
    SourcemapsAreSound
CHECK_DEADLOCK FALSE

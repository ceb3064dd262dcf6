\* Statements of two requests interleave, on two branch names; two planners;
\* two requests to the local store; a publisher and a request to verify; and a device.
CONSTANTS
    Names = {b1, b2}
    Percentages = {10, 50}
    Requests = {q1, q2}
    NoOne = NoOne
    MaxIds = 2
    Planners = {q1, q2}
    MaxHistory = 4
    MaxPatchSources = 1
    MaxPages = 2
    MaxAttempts = 2
    MaxPlans = 2
    Keys = {"b/r/1", "b/r/2", "cas/x"}
    Dirs = {"b/r", "b", "cas"}
    Root = "root"
    DirOf <- MCDirOf
    Up <- MCUp
    Contents = {"x", "y"}
    NoObject = "none"
    Blobs = {"cas/x"}
    Digest <- MCDigest
    Clients = {q1, q2}
    UpdateIds = {1, 2}
    Publications <- MCPublications
    Uploaders = {c1}
    Calls = {k1}
    UploadModes = {"db", "bucket"}
    KnownHashes = {"h1"}
    Absent = Absent
    MaxFailedReads = 1
    MaxPublications = 2
    MaxKeys = 2
    ConfigTTL = 1
    Protocols = {0, 1}
    Refusals = {"", "beta"}
    Focuses = {"sealed", "referenced", "patches"}
SPECIFICATION MCSpec
SYMMETRY Symmetry
INVARIANTS
    ServedBranchesExist
    PatchesSound
    
    AnswersAreSound
    PrefixesHoldObjects
PROPERTIES
    ProtectedBranchesStay
    ImplementsObjectStore
CHECK_DEADLOCK FALSE

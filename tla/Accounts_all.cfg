\* Every kind of request, two at a time, on three accounts; and a small instance of the
\* other parts.
CONSTANTS
    Users = {1, 2, 3}
    Requests = {q1, q2}
    Kinds = {"delete", "demote", "disable", "promote", "enable"}
    NoOne = NoOne
    AppIds = {"a1", "a2"}
    ShownApp = "a1"
    AppLabels = {"x", "y"}
    BranchNames = {main, dev}
    Watched <- MCWatched
    NoName = NoName
    MaxRuntime = 1
    Splits = {10, 50}
    MaxListed = 2
    Handlers = {q1, q2}
    NoListing = NoListing
    MaxChanges = 2
    Branches = {1, 2}
    Groups = {"g1", "g2"}
    NoGroup = "none"
    Devices = {1, 2}
    Surfaces = {"updates", "groups", "feed", "latest", "devices", "audit"}
    DefaultLimit = 1
    MaxLimit = 2
    MaxId <- MCMaxId
    MaxRows = 3
    MaxNow = 3
SPECIFICATION MCSpec
SYMMETRY Symmetry
VIEW View
INVARIANTS
    CountedAdminsRemain
    
    PagesShowEachRow
PROPERTIES
    SessionsEndWithAccess
CHECK_DEADLOCK FALSE

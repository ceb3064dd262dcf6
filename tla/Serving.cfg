\* Two polls at a time and three writes, as one replica's cache sees them: a write on
\* another replica is to it a write whose delete never comes, which is one of the
\* outcomes of Invalidate, and replicas share nothing but the database.  And a small
\* instance of every background worker.
CONSTANTS
    Caches = {c1}
    Polls = {p1, p2}
    TTL = 1
    MaxDelay = 1
    MaxWrites = 3
    Installed = {1, 2}
    PoolWorkers = {w1}
    QueueCapacity = 1
    MaxMoves = 1
    MaxFaultyWrites = 1
    DeviceWriters = {t1, t2}
    Projectors = {j1, j2}
    OutboxBatchSize = 1
    MaxHealthEvents = 2
    MaxOutages = 1
    Recorders = {a1, a2}
    Replicas = {r1, r2}
    RecordTimeout = 1
    Lag = 1
    BatchSize = 1
    Retention = 2
    InOrder = TRUE
    MaxEvents = 2
    MaxExportFaults = 1
    Instances = {i1, i2}
    V1Updates = {u1}
    Files = {"asset", "check"}
    MaxFaults = 2
    Servers = {s1}
    LicenceKeys = {k1}
    NoLicence = NoLicence
    Grace = 1
    MaxNow = 2
    MaxCrashes = 1
    PublishedUpdates = {"u1", "u3"}
    MapHashes = {"h1"}
    HashOf <- MCHashOf
    ErrorIds = {1, 2}
    UpdateOf <- MCUpdateOf
    IndexAttempts = 2
    IndexCacheSize = 1
    PerSweep = 1
    WriteEvery = 2
    MaxCount = 1
    MaxPublishes = 1
    MaxTrouble = 1
SPECIFICATION WorkersSpec
INVARIANTS
    BoundedStaleness
PROPERTIES
    ServingSettles
    CheckInsSettle
    HistorySettles
    
    
    MigrationSettles
    
    SourcemapsSettle
CHECK_DEADLOCK FALSE

SPECIFICATION Spec
CONSTANTS
    FirstLedger = 2
    MaxLedger = 5
    RetentionWindows = {2, 3}
    FeeRetentions <- MCFeeRetentions
    MaxRetries = 2
    Handlers = {h1}
    FaultSites = {"migrate", "guard", "next", "get", "insert", "classic", "commit", "checkpoint"}
    MaxFaults = 2
    MaxStops = 1
INVARIANTS
    TypeOK
    CacheCoherent
    TablesAligned
    FeeWindowsTrackStore
    FeeStatsFresh
PROPERTIES
    StoreRefined
    RestartHeals

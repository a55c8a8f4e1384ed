SPECIFICATION Spec
CONSTANTS
    FirstLedger = 2
    MaxLedger = 4
    RetentionWindows = {2}
    FeeRetentions <- MCFeeRetentions
    MaxRetries = 5
    Handlers = {}
    FaultSites = {"guard"}
    MaxFaults = 1
    MaxStops = 0
PROPERTY
    MigrationAtomic

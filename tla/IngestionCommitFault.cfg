SPECIFICATION Spec
CONSTANTS
    FirstLedger = 2
    MaxLedger = 5
    RetentionWindows = {2}
    FeeRetentions <- MCFeeRetentions
    MaxRetries = 5
    Handlers = {}
    FaultSites = {"commit"}
    MaxFaults = 1
    MaxStops = 0
INVARIANT
    FatalMeansOutage

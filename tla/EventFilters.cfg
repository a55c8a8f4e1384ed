SPECIFICATION FilterSpec
CONSTANTS
    MaxTopicCount = 2
    MaxFiltersLimit = 2
    MaxTopicsLimit = 2
    MaxContractIDsLimit = 1
    Requests <- MCRequests
    Events <- MCEvents
CHECK_DEADLOCK FALSE
INVARIANTS
    WildcardsMeanWhatTheySay
    NoPanic
    UniformFiltersComplete

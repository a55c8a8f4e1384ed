SPECIFICATION Spec
CONSTANTS
    FirstLedger = 2
    MaxLedger = 6
    RetentionWindows = {2, 3}
    Requests = {r1}
    PageLimits = {0, 2}
    ScanLimit = 3
    WithDatastore = TRUE
INVARIANTS
    TypeOK
    LedgersContiguous
    RangeStored
    LatestIsFresh
    NotFoundIsTrue
    ReadsAreServed
    EventsScanned
    SentIsIncludedLater
PROPERTIES
    TrimsOnlyExpired
    RequestsAnswered

SPECIFICATION Spec
CONSTANTS
    FirstLedger = 2
    MaxLedger = 5
    Window = 3
    Contents <- MCContents
    Limit = 2
    ScanLimit = 2
    TxMax = 3
    EventMax = 3
INVARIANTS
    NothingSkipped
    NothingRepeated
PROPERTY
    ListingsComplete

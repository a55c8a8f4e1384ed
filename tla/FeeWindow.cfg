SPECIFICATION FeeSpec
CONSTANTS
    Capacity = 3
    Content <- MCContent
    TxLists <- MCTxLists
    Ledgers = {2, 3, 4, 5, 6}
    Percentiles = {10, 50, 90, 99}
INVARIANTS
    RingContiguous
    DistributionOfLatest
PROPERTY
    RingRefinesWindow

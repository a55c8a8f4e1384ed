SPECIFICATION Spec
CONSTANTS
    k1 = k1
    k2 = k2
    r1 = r1
    NotAKey = NotAKey
    Keys <- MCKeys
    Respelt <- MCRespelt
    KeyLists <- MCKeyLists
    Formats <- MCFormats
    MaxKeys = 3
    MaxLedger = 3
    SnapshotLedgers = 2
INVARIANTS
    EntriesOfTheLedger
    SimulationReadsOneLedger

SPECIFICATION Spec
CONSTANTS
    Requests = {r1, r2, r3}
    Workers = {w1}
    QueueCapacity = 1
    Limit = 2
CHECK_DEADLOCK FALSE
INVARIANTS
    TypeOK
    CallersStay
    NothingLeftBehind
    ServingWithinLimit
    PendingIsCounted
    GracefulStop
PROPERTIES
    RequestsAnswered
    SlotsReleased
    ShutdownCompletes

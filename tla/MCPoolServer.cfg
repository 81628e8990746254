SPECIFICATION ThreadSpec
CONSTANTS
    Conns = {c1, c2}
    Threads = 2
    Requests <- MCRequests
    None = None
INVARIANTS
    TypeOK
    OwnOutputIfAlone
    AbandonedOnlyKnown
PROPERTIES
    StopStops
    ImplementsExchange
CHECK_DEADLOCK FALSE

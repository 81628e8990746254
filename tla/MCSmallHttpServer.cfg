SPECIFICATION LoopSpec
CONSTANTS
    Conns = {c1, c2}
    None = None
    Requests <- MCRequests
    MaxCount = 2
INVARIANTS
    TypeOK
    NumbersInOrder
PROPERTIES
    DeadlineEnforced
    EveryConnectionReleased
    ImplementsExchange

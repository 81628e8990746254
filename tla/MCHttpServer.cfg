SPECIFICATION Spec
CONSTANTS
    Conns = {c1, c2}
    None = None
    Requests <- MCRequests
    Outputs <- MCOutputs
    MaxFaults = 1
SYMMETRY MCSymmetry
INVARIANTS
    TypeOK
    DeadlineArmed
    NothingPendingOnDeadSocket
    NoForeignScript
PROPERTIES
    ResponseFrozen
    ImplementsExchange

SPECIFICATION ClientSpec
CONSTANTS
    Words <- MCWords
    Requests <- MCRequests
    MaxFaults = 2
    Junk = Junk
    None = None
INVARIANTS
    TypeOK
    AtMostOneReply
    ResourceNeverEmpty
    ReplyConsistent
    SilentOnlyKnown
    MixedOnlyAfterKill
    AtMostOneAfterStop
PROPERTIES
    StopStops
    ImplementsExchange


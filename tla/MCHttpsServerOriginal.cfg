SPECIFICATION OriginalClientSpec
CONSTANTS
    Words <- MCWords
    Requests <- MCRequests
    MaxFaults = 1
    Junk = Junk
    None = None
INVARIANTS
    OriginalTypeOK
    AtMostOneReply
    OriginalSilentOnlyKnown
    MixedOnlyAfterKill
PROPERTIES
    StopStops
    OriginalImplementsExchange

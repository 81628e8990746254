SPECIFICATION ServerSpec
CONSTANTS
    Words <- MCWords
    Requests <- MCFewRequests
    MaxFaults = 0
    Junk = Junk
    None = None
PROPERTY
    StopStops
CHECK_DEADLOCK FALSE

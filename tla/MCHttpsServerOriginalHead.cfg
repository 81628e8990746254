SPECIFICATION OriginalSpec
CONSTANTS
    Words <- MCWords
    Requests <- MCHeadRequests
    MaxFaults = 0
    Junk = Junk
    None = None
INVARIANT
    HeadAnswered
CHECK_DEADLOCK FALSE

SPECIFICATION Spec
CONSTANTS
    Words <- MCWords
    Requests <- MCFewRequests
    MaxFaults = 0
    Junk = Junk
    None = None
INVARIANT
    MissingFileAnswered
CHECK_DEADLOCK FALSE

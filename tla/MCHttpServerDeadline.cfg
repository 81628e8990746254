SPECIFICATION LoopSpec
CONSTANTS
    Conns = {c1, c2}
    None = None
    Requests <- MCFewRequests
    Outputs <- MCOneOutput
    MaxFaults = 0
PROPERTY
    DeadlineEnforced

SPECIFICATION FairSpec
CONSTANTS
    Conns = {c1, c2}
    None = None
    Requests <- MCFewRequests
    Outputs <- MCOneOutput
    MaxFaults = 0
PROPERTIES
    EveryConnectionReleased
    AcceptsAgain
    DeadlineEnforced

SPECIFICATION Spec
CONSTANTS
    Confs <- MCConfs
    Missing = Missing
    NaN = NaN
    MaxLines = 3
INVARIANTS
    TypeOK
    PortAsConfigured
    FileObeyed
CHECK_DEADLOCK FALSE

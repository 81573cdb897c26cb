SPECIFICATION FairSpec
CONSTANTS
    Https = FALSE
    ErrCap = 2
    SigCap = 1
    MaxHUPs = 1
    MaxTERMs = 1
    MaxConns = 1
PROPERTIES
    TermEndsProcess
CHECK_DEADLOCK FALSE

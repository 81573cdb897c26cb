SPECIFICATION FairSpec
CONSTANTS
    Https = TRUE
    ErrCap = 2
    SigCap = 1
    MaxHUPs = 1
    MaxTERMs = 2
    MaxConns = 2
INVARIANTS
    TypeOK
    FailedStartServesNothing
    ReportNeverBlocks
    ExitZeroOnlyWhenAsked
    ExitZeroIsGraceful
PROPERTIES
    DeadLoopEndsProcess
    LoneTermEndsProcess
CHECK_DEADLOCK FALSE

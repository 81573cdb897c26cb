SPECIFICATION Spec
CONSTANTS
    Headers <- MCHeaders
    Sizes = {0, 3, 5, 6}
    MaxRanges = 2
    Blank = Blank
    NoDash = NoDash
    Absent = Absent
    Versions = {1, 2, 3, 4}
    SizeOf <- MCSizeOf
    MTime <- MCMTime
    MaxServeFileSize = 5
    MaxInt = 4
    EnableETags = TRUE
    ConditionalHeaders <- MCConditionalHeaders
    None = None
INVARIANTS
    TypeOK
    RangesInside
    NoAmplification
    AnswerAsRequested
    HandleClosedOnce
CHECK_DEADLOCK FALSE

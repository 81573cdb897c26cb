SPECIFICATION Spec
CONSTANTS
    A = A
    B = B
    X = X
    Star = Star
    None = None
    Origins <- MCOrigins
    MinSize = 1
    MaxCompressSize = 1
    Sites <- MCSites
    Files <- MCFiles
    Asked <- MCAsked
INVARIANT
    HeadParity

SPECIFICATION FairSpec
CONSTANTS
    Procs = {g1, g2}
    NoFile = NoFile
    NoProc = NoProc
    NoKey = NoKey
    k1 = k1
    k2 = k2
    k3 = k3
    a1 = a1
    a2 = a2
    b1 = b1
    b2 = b2
    Keys <- SiteKeys
    Objects <- SiteObjects
    Loads <- SiteLoads
    SizeOf <- SiteSize
    MaxBytes = 4
    MaxItems = 2
    TTL = 1
    Preload = TRUE
    MaxClock = 2
    MaxLookups = 2
INVARIANTS
    TypeOK
    CacheInv
    CounterCeiling
    ByteAccounting
    CeilingUntilDrift
PROPERTIES
    ImplementsStore
    ExpiryDropsOnlyExpired
    EvictsOnlyForRoom
    DriftsOnlyOnGrowth
    CallsReturn

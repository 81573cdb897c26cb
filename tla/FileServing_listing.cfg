SPECIFICATION Spec
CONSTANTS
    Procs = {g1}
    NoEntry = NoEntry
    root = root
    rootIndex = rootIndex
    docs = docs
    docsIndex = docsIndex
    dotfile = dotfile
    r1 = r1
    d1 = d1
    d2 = d2
    x = x
    Urls <- RootUrls
    Files <- RootFiles
    IndexURL <- RootIndexURL
    LinkTargets <- RootLinkTargets
    InitTarget <- RootInitTarget
    OwnUrl <- RootOwnUrl
    LastVersion <- RootVersions
    OutsideFiles = {}
    SlashDirs = {root}
    BareDirs = {}
    OutsideUrls = {}
    EmbeddedUrls = {}
    Listings = {TRUE}
    PathCaching = FALSE
    Large = {}
    Drains = {"none"}
    MaxHUPs = 0
INVARIANTS
    ListingTakesPrecedence

SPECIFICATION Spec
CONSTANTS
    Procs = {g1}
    NoEntry = NoEntry
    root = root
    rootIndex = rootIndex
    docs = docs
    docsIndex = docsIndex
    dotfile = dotfile
    r1 = r1
    d1 = d1
    d2 = d2
    x = x
    Urls <- LinkUrls
    Files <- LinkFiles
    IndexURL <- LinkIndexURL
    LinkTargets <- LinkLinkTargets
    InitTarget <- LinkInitTarget
    OwnUrl <- LinkOwnUrl
    LastVersion <- LinkVersions
    OutsideFiles = {}
    SlashDirs = {}
    BareDirs = {}
    OutsideUrls = {}
    EmbeddedUrls = {}
    Listings = {FALSE}
    PathCaching = FALSE
    Large = {}
    Drains = {"none"}
    MaxHUPs = 0
INVARIANTS
    SizeIsLenOfData

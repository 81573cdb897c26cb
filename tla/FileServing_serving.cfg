SPECIFICATION Spec
CONSTANTS
    Procs = {g1}
    NoEntry = NoEntry
    root = root
    rootIndex = rootIndex
    docs = docs
    docsIndex = docsIndex
    dotfile = dotfile
    r1 = r1
    d1 = d1
    d2 = d2
    x = x
    Urls <- TreeUrls
    Files <- TreeFiles
    IndexURL <- TreeIndexURL
    LinkTargets <- TreeLinkTargets
    InitTarget <- TreeInitTarget
    OwnUrl <- TreeOwnUrl
    LastVersion <- TreeVersions
    OutsideFiles = {x}
    SlashDirs = {root}
    BareDirs = {docs}
    OutsideUrls = {dotfile}
    EmbeddedUrls = {rootIndex}
    Listings = {TRUE, FALSE}
    PathCaching = TRUE
    Large = {2}
    Drains = {"requests", "none"}
    MaxHUPs = 1
INVARIANTS
    TypeOK
    AnsweredWithOwnFile
    FreshWhenDrained

----------------------------- MODULE FileServing -----------------------------
(***************************************************************************)
(* How a GET is answered while the served tree changes and SIGHUP flushes  *)
(* the caches: Preload and PreWarm, the path check of security.Middleware, *)
(* the file handler (HandleRequest, resolveIndexPath, serveFromDisk), the  *)
(* path cache and handleHUP.                                               *)
(*                                                                         *)
(* The file cache appears as the abstract SizedStore that FileCache        *)
(* implements: Get and Put are one step each and any entry may be dropped  *)
(* at any time (eviction, expiry, an entry Put refused for its size).      *)
(* A file content is its file and a version number; 0 is "no such file".   *)
(* Permission errors and compressed variants are left out.                 *)
(* Every system call and every cache access of a request is a step of its  *)
(* own, so that deployments, flushes and other requests fall in between.   *)
(***************************************************************************)
EXTENDS Integers, FiniteSets

CONSTANTS
    Procs,          \* goroutines serving requests
    Urls,           \* URL paths, as names in the tree
    Files,          \* real paths of regular files
    OutsideFiles,   \* those that are not inside the root
    SlashDirs,      \* URLs of directories, with the trailing slash
    BareDirs,       \* URLs of directories, without it
    OutsideUrls,    \* URLs that PathSafe rejects by their name
    EmbeddedUrls,   \* URLs that an embedded default asset stands in for
    IndexURL,       \* the index URL of each directory
    LinkTargets,    \* the files each remaining URL can be made to name
    InitTarget,     \* the file each of them names at startup
    OwnUrl,         \* the URL of a file's own path, NoEntry if it is not one of Urls
    Listings,       \* the values of security.directory_listing
    PathCaching,    \* whether there is a path cache (cache.preload)
    Large,          \* version numbers of contents above cache.max_file_size
    NoEntry,        \* nothing cached
    Drains,         \* who waits for whom around SIGHUP, see HUPReload
    LastVersion,    \* bound: versions of each file, 0 if no deployment touches it
    MaxHUPs         \* bound: SIGHUPs

DirUrls == SlashDirs \cup BareDirs
FileUrls == Urls \ (DirUrls \cup OutsideUrls)

ASSUME UrlsAssumption ==
    /\ SlashDirs \cup BareDirs \cup OutsideUrls \subseteq Urls
    /\ OutsideUrls \cap DirUrls = {}
    /\ Urls \cap Files = {}
    /\ NoEntry \notin Urls \cup Files
    /\ EmbeddedUrls \subseteq FileUrls
    /\ IndexURL \in [DirUrls -> FileUrls]
    /\ LinkTargets \in [FileUrls -> SUBSET Files]
    /\ InitTarget \in [FileUrls -> Files]
    /\ \A u \in FileUrls : InitTarget[u] \in LinkTargets[u]
ASSUME OwnUrlAssumption ==
    /\ OutsideFiles \subseteq Files
    /\ OwnUrl \in [Files -> FileUrls \cup {NoEntry}]
    /\ \A f \in Files : OwnUrl[f] # NoEntry => LinkTargets[OwnUrl[f]] = {f}
ASSUME DrainsAssumption == Drains \subseteq {"requests", "start", "none"}
ASSUME ListingsAssumption == Listings \subseteq BOOLEAN
ASSUME BoundAssumption == LastVersion \in [Files -> Nat] /\ MaxHUPs \in Nat

VARIABLES
    listing,    \* security.directory_listing, fixed at start-up
    drain,      \* what the operator does about requests around a SIGHUP
    target,     \* the file a URL names once symlinks are resolved
    content,    \* the version of each file, 0 if it does not exist
    fcache,     \* file cache
    pcache,     \* path cache
    hup,        \* what handleHUP does next
    hups,
    walk,       \* Preload and PreWarm
    req,        \* each goroutine's request
    named,      \* ghost: files each URL named since the last SIGHUP
    seen        \* ghost: versions each file had since the last SIGHUP

\* Everything but the requests.
around == <<listing, drain, target, content, fcache, pcache, hup, hups, walk, named, seen>>
vars == <<around, req>>

\* A request: where it is, its URL, the path it will open, the canonical URL,
\* the version its os.Stat saw, and its result; ghost: no SIGHUP was being
\* handled since it began.
Idle == [at |-> "idle", url |-> NoEntry, path |-> NoEntry, canon |-> NoEntry,
         info |-> 0, file |-> NoEntry, data |-> 0, post |-> TRUE]

Points == {"idle", "pathsafe", "store", "handler", "get", "stat", "index",
           "statindex", "recheck", "read", "put", "ok", "listing", "embedded",
           "missing", "failed"}

\* Answered: 200 with a file, with a directory listing or with an embedded
\* asset, 404, or 403 and 500.
Answered == {"ok", "listing", "embedded", "missing", "failed"}

-----------------------------------------------------------------------------
(* The file system, and PathSafe's view of it.                             *)

\* The file behind a path: real paths are files, other names are followed.
Deref(p) == IF p \in Files THEN p ELSE target[p]

\* What pathSafe returns for a URL: an error, for its name or because it leads to
\* a file outside the root; otherwise the resolved path and whether it existed.
\* A path that does not exist is returned unresolved.
Exists(u) == u \in DirUrls \/ content[target[u]] # 0
Rejected(u) ==
    \/ u \in OutsideUrls
    \/ u \in FileUrls /\ Exists(u) /\ target[u] \in OutsideFiles
SafePath(u) == IF u \in DirUrls \/ ~Exists(u) THEN u ELSE target[u]

\* headers.CacheKeyForPath: a trailing slash stands for the index file.
CacheKeyForPath(u) == IF u \in SlashDirs THEN IndexURL[u] ELSE u

\* Mutant of CanonicalURL: the index file of the root, whatever the directory.
CanonicalURLOfRoot(u) == IndexURL[CHOOSE d \in SlashDirs : TRUE]

\* resolveIndexPath's canonical URL of a directory.
CanonicalURL(u) == IndexURL[u]

Entry(f, v, s) == [file |-> f, data |-> v, stat |-> s]

-----------------------------------------------------------------------------
(* Start-up.                                                               *)

\* The URL whose file answers u.
NameOf(u) == IF u \in DirUrls THEN IndexURL[u] ELSE u

\* Preload: where it is, the names WalkDir has not come to, the file being read
\* and what os.Stat saw of it, and the paths PreWarm will check.
Walked == [at |-> "serving", todo |-> {}, file |-> NoEntry, info |-> 0, paths |-> {}]
Walk == [Walked EXCEPT !.at = "visit", !.todo = FileUrls]

Init ==
    /\ listing \in Listings
    /\ drain \in Drains
    /\ target = InitTarget
    /\ content = [f \in Files |-> 1]
    /\ fcache = [u \in Urls |-> NoEntry]
    /\ pcache = [u \in Urls |-> NoEntry]
    /\ walk = IF PathCaching THEN Walk ELSE Walked
    /\ hup = "idle"
    /\ hups = 0
    /\ req = [g \in Procs |-> Idle]
    /\ named = [u \in FileUrls |-> {InitTarget[u]}]
    /\ seen = [f \in Files |-> {1}]

\* Preload: WalkDir comes to a name, and EvalSymlinks finds its file.  What is
\* missing or leads outside the root is skipped.
PreloadVisit(u) ==
    LET f == target[u] IN
    /\ walk.at = "visit"
    /\ u \in walk.todo
    /\ walk' = IF content[f] = 0 \/ f \in OutsideFiles
               THEN [walk EXCEPT !.todo = @ \ {u}]
               ELSE [walk EXCEPT !.todo = @ \ {u}, !.at = "stat", !.file = f]
    /\ UNCHANGED <<listing, drain, target, content, fcache, pcache, hup, hups, req,
                   named, seen>>

\* Preload: os.Stat of the file.  What is missing or too large is skipped.
PreloadStat ==
    LET v == content[walk.file] IN
    /\ walk.at = "stat"
    /\ walk' = IF v = 0 \/ v \in Large
               THEN [walk EXCEPT !.at = "visit"]
               ELSE [walk EXCEPT !.at = "load", !.info = v]
    /\ UNCHANGED <<listing, drain, target, content, fcache, pcache, hup, hups, req,
                   named, seen>>

\* The keys of a preloaded file: the URL of its own path, whatever link WalkDir
\* came by, and the directory's if that is an index.
PreloadKeys(f) ==
    IF OwnUrl[f] = NoEntry THEN {}
    ELSE {OwnUrl[f]} \cup {d \in SlashDirs : IndexURL[d] = OwnUrl[f]}

\* Preload: os.ReadFile, and Put under every key.
PreloadRead ==
    LET f == walk.file
        v == content[f]
        keys == PreloadKeys(f)
    IN
    /\ walk.at = "load"
    /\ IF v = 0
       THEN /\ walk' = [walk EXCEPT !.at = "visit"]
            /\ UNCHANGED fcache
       ELSE /\ walk' = [walk EXCEPT !.at = "visit", !.paths = @ \cup keys]
            /\ fcache' = [k \in Urls |-> IF k \in keys THEN Entry(f, v, walk.info)
                                         ELSE fcache[k]]
    /\ UNCHANGED <<listing, drain, target, content, pcache, hup, hups, req, named, seen>>

\* PreWarm: pathSafe of a preloaded path, stored if it still exists.
PreWarm(u) ==
    /\ walk.at = "visit" /\ walk.todo = {}
    /\ u \in walk.paths
    /\ walk' = [walk EXCEPT !.paths = @ \ {u}]
    /\ pcache' = [pcache EXCEPT ![u] = IF Exists(u) /\ ~Rejected(u) THEN SafePath(u) ELSE @]
    /\ UNCHANGED <<listing, drain, target, content, fcache, hup, hups, req, named, seen>>

\* The listeners are bound.
StartServing ==
    /\ walk.at = "visit" /\ walk.todo = {} /\ walk.paths = {}
    /\ walk' = Walked
    /\ UNCHANGED <<listing, drain, target, content, fcache, pcache, hup, hups, req,
                   named, seen>>

Preload ==
    \/ \E u \in FileUrls : PreloadVisit(u)
    \/ PreloadStat \/ PreloadRead
    \/ \E u \in Urls : PreWarm(u)
    \/ StartServing

-----------------------------------------------------------------------------
(* A request.                                                              *)

Goto(g, r) == req' = [req EXCEPT ![g] = r]

\* Middleware: look the URL up in the path cache.
Begin(g, u) ==
    /\ walk.at = "serving"
    /\ req[g].at = "idle"
    /\ drain = "requests" => hup = "idle"
    /\ LET hit == PathCaching /\ pcache[u] # NoEntry
       IN Goto(g, [Idle EXCEPT !.at = IF hit THEN "handler" ELSE "pathsafe",
                               !.url = u,
                               !.path = IF hit THEN pcache[u] ELSE NoEntry,
                               !.post = hup = "idle"])
    /\ UNCHANGED around

\* Middleware: pathSafe resolves and checks the path.
MiddlewarePathSafe(g) ==
    LET u == req[g].url IN
    /\ req[g].at = "pathsafe"
    /\ Goto(g, IF Rejected(u)
               THEN [req[g] EXCEPT !.at = "failed"]
               ELSE [req[g] EXCEPT !.at = IF PathCaching /\ Exists(u)
                                          THEN "store" ELSE "handler",
                                   !.path = SafePath(u)])
    /\ UNCHANGED around

\* Middleware: remember a path that existed.
MiddlewareStore(g) ==
    /\ req[g].at = "store"
    /\ pcache' = [pcache EXCEPT ![req[g].url] = req[g].path]
    /\ Goto(g, [req[g] EXCEPT !.at = "handler"])
    /\ UNCHANGED <<listing, drain, target, content, fcache, hup, hups, walk, named, seen>>

\* HandleRequest: with a path cache the path is looked up again, and resolved
\* and checked again if it has been dropped; without one Middleware's is used.
HandlerPath(g) ==
    LET u == req[g].url
        known == ~PathCaching \/ pcache[u] # NoEntry
    IN
    /\ req[g].at = "handler"
    /\ Goto(g, IF ~known /\ Rejected(u) THEN [req[g] EXCEPT !.at = "failed"]
               ELSE [req[g] EXCEPT !.at = "get",
                                   !.path = IF ~known THEN SafePath(u)
                                            ELSE IF PathCaching THEN pcache[u]
                                            ELSE req[g].path])
    /\ UNCHANGED around

Served(r, e) == [r EXCEPT !.at = "ok", !.file = e.file, !.data = e.data]

\* HandleRequest: the first lookup in the file cache.
HandlerGet(g) ==
    LET e == fcache[CacheKeyForPath(req[g].url)] IN
    /\ req[g].at = "get"
    /\ Goto(g, IF e # NoEntry THEN Served(req[g], e)
               ELSE [req[g] EXCEPT !.at = "stat"])
    /\ UNCHANGED around

\* Mutant of Stat: a file's path stands for the canonical URL.
StatPathAsURL(g) ==
    LET r == req[g] IN
    /\ r.at = "stat"
    /\ Goto(g, IF r.path \in DirUrls THEN [r EXCEPT !.at = "listing"]
               ELSE [r EXCEPT !.at = "recheck", !.canon = r.path,
                              !.info = content[Deref(r.path)]])
    /\ UNCHANGED around

\* resolveIndexPath: os.Stat of the path; serveDirectoryListing.
Stat(g) ==
    LET r == req[g] IN
    /\ r.at = "stat"
    /\ Goto(g, IF r.path \in DirUrls /\ listing THEN [r EXCEPT !.at = "listing"]
               ELSE IF r.path \in DirUrls
               THEN [r EXCEPT !.at = "index", !.canon = CanonicalURL(r.path)]
               ELSE [r EXCEPT !.at = "recheck", !.canon = r.url,
                              !.info = content[Deref(r.path)]])
    /\ UNCHANGED around

\* resolveIndexPath: PathSafe of a directory's index file, which a link may lead
\* outside the root.
CheckIndex(g) ==
    LET i == IndexURL[req[g].path] IN
    /\ req[g].at = "index"
    /\ Goto(g, IF Rejected(i) THEN [req[g] EXCEPT !.at = "failed"]
               ELSE [req[g] EXCEPT !.at = "statindex", !.path = SafePath(i)])
    /\ UNCHANGED around

\* resolveIndexPath: os.Stat of the index file.
StatIndex(g) ==
    /\ req[g].at = "statindex"
    /\ Goto(g, [req[g] EXCEPT !.at = "recheck", !.info = content[Deref(req[g].path)]])
    /\ UNCHANGED around

\* A file that does not exist: one of the embedded default assets, which are
\* never cached, or 404, whichever page that carries.
ServeEmbedded(r) == [r EXCEPT !.at = "embedded"]
ServeNotFound(r) == [r EXCEPT !.at = "missing"]

\* serveFromDisk, with os.Stat's result.
ServeFromDisk(r) ==
    IF r.info # 0 THEN [r EXCEPT !.at = "read"]
    ELSE IF r.canon \in EmbeddedUrls THEN ServeEmbedded(r) ELSE ServeNotFound(r)

\* HandleRequest: the second lookup, under the canonical URL.
Recheck(g) ==
    LET r == req[g]
        e == fcache[r.canon]
    IN
    /\ r.at = "recheck"
    /\ Goto(g, IF r.canon # CacheKeyForPath(r.url) /\ e # NoEntry
               THEN Served(r, e)
               ELSE ServeFromDisk(r))
    /\ UNCHANGED around

\* serveFromDisk: os.ReadFile, or the uncached path for a large file.  A file
\* that has vanished since os.Stat is an internal error.
ReadFile(g) ==
    LET r == req[g]
        f == Deref(r.path)
    IN
    /\ r.at = "read"
    /\ Goto(g, IF content[f] = 0 THEN [r EXCEPT !.at = "failed"]
               ELSE [r EXCEPT !.at = IF r.info \in Large THEN "ok" ELSE "put",
                              !.file = f, !.data = content[f]])
    /\ UNCHANGED around

\* serveFromDisk: cache.Put under the canonical URL, then the response.
PutEntry(g) ==
    LET r == req[g] IN
    /\ r.at = "put"
    /\ fcache' = [fcache EXCEPT ![r.canon] = Entry(r.file, r.data, r.info)]
    /\ Goto(g, [r EXCEPT !.at = "ok"])
    /\ UNCHANGED <<listing, drain, target, content, pcache, hup, hups, walk, named, seen>>

\* The goroutine is free for the next request.
Finish(g) ==
    /\ req[g].at \in Answered
    /\ Goto(g, Idle)
    /\ UNCHANGED around

-----------------------------------------------------------------------------
(* SIGHUP.                                                                 *)

\* handleHUP re-reads the configuration.  If it is invalid nothing more
\* happens (no step of the model); otherwise the flushes follow.  drain says
\* what the operator does: "requests" keeps requests away from the server
\* until the handler is done, "start" only sends the signal while none is
\* being served, "none" takes no care.
HUPReload ==
    /\ walk.at = "serving"
    /\ hup = "idle"
    /\ hups < MaxHUPs
    /\ drain # "none" => \A g \in Procs : req[g].at = "idle"
    /\ hup' = "flushfiles"
    /\ hups' = hups + 1
    /\ named' = [u \in FileUrls |-> {target[u]}]
    /\ seen' = [f \in Files |-> {content[f]}]
    /\ req' = [g \in Procs |-> [req[g] EXCEPT !.post = req[g].at = "idle"]]
    /\ UNCHANGED <<listing, drain, target, content, fcache, pcache, walk>>

\* c.Flush()
HUPFlushFiles ==
    /\ hup = "flushfiles"
    /\ fcache' = [u \in Urls |-> NoEntry]
    /\ hup' = "flushpaths"
    /\ UNCHANGED <<listing, drain, target, content, pcache, hups, walk, req, named, seen>>

\* Mutant of HUPFlushPaths: the path cache is not flushed.
HUPKeepPaths ==
    /\ hup = "flushpaths"
    /\ hup' = "idle"
    /\ UNCHANGED <<listing, drain, target, content, fcache, pcache, hups, walk, req,
                   named, seen>>

\* pc.Flush()
HUPFlushPaths ==
    /\ hup = "flushpaths"
    /\ pcache' = [u \in Urls |-> NoEntry]
    /\ hup' = "idle"
    /\ UNCHANGED <<listing, drain, target, content, fcache, hups, walk, req, named, seen>>

-----------------------------------------------------------------------------
(* The environment: deployments, and the bound of each cache.              *)

Write(f, v) ==
    /\ content' = [content EXCEPT ![f] = v]
    /\ seen' = [seen EXCEPT ![f] = @ \cup {v}]
    /\ UNCHANGED <<listing, drain, target, fcache, pcache, hup, hups, walk, req, named>>

\* A file is replaced, or removed for good.
Edit(f) == content[f] \in 1 .. (LastVersion[f] - 1) /\ Write(f, content[f] + 1)
Delete(f) == LastVersion[f] # 0 /\ content[f] # 0 /\ Write(f, 0)

\* A symbolic link is switched to another release, or out of the root.
Retarget(u, f) ==
    /\ f \in LinkTargets[u] \ {target[u]}
    /\ target' = [target EXCEPT ![u] = f]
    /\ named' = [named EXCEPT ![u] = @ \cup {f}]
    /\ UNCHANGED <<listing, drain, content, fcache, pcache, hup, hups, walk, req, seen>>

\* An entry leaves the file cache, or the path cache.
DropEntry(u) ==
    /\ fcache[u] # NoEntry
    /\ fcache' = [fcache EXCEPT ![u] = NoEntry]
    /\ UNCHANGED <<listing, drain, target, content, pcache, hup, hups, walk, req,
                   named, seen>>

DropPath(u) ==
    /\ pcache[u] # NoEntry
    /\ pcache' = [pcache EXCEPT ![u] = NoEntry]
    /\ UNCHANGED <<listing, drain, target, content, fcache, hup, hups, walk, req,
                   named, seen>>

-----------------------------------------------------------------------------
Serve(g) ==
    \/ MiddlewarePathSafe(g)
    \/ MiddlewareStore(g)
    \/ HandlerPath(g)
    \/ HandlerGet(g)
    \/ Stat(g)
    \/ CheckIndex(g)
    \/ StatIndex(g)
    \/ Recheck(g)
    \/ ReadFile(g)
    \/ PutEntry(g)
    \/ Finish(g)

Next ==
    \/ Preload
    \/ \E g \in Procs, u \in Urls : Begin(g, u)
    \/ \E g \in Procs : Serve(g)
    \/ HUPReload \/ HUPFlushFiles \/ HUPFlushPaths
    \/ \E f \in Files : Edit(f) \/ Delete(f)
    \/ \E u \in FileUrls, f \in Files : Retarget(u, f)
    \/ \E u \in Urls : DropEntry(u) \/ DropPath(u)

Spec == Init /\ [][Next]_vars

-----------------------------------------------------------------------------
Versions == Nat

\* Every variable has its type.
TypeOK ==
    /\ listing \in BOOLEAN /\ drain \in Drains
    /\ target \in [FileUrls -> Files]
    /\ content \in [Files -> Versions]
    /\ fcache \in [Urls -> [file : Files, data : Versions, stat : Versions]
                             \cup {NoEntry}]
    /\ pcache \in [Urls -> Files \cup Urls \cup {NoEntry}]
    /\ hup \in {"idle", "flushfiles", "flushpaths"}
    /\ hups \in 0 .. MaxHUPs
    /\ walk \in [at : {"visit", "stat", "load", "serving"}, todo : SUBSET FileUrls,
                  file : Files \cup {NoEntry}, info : Versions,
                  paths : SUBSET Urls]
    /\ req \in [Procs -> [at : Points, url : Urls \cup {NoEntry},
                          path : Files \cup Urls \cup {NoEntry},
                          canon : Urls \cup {NoEntry}, info : Versions,
                          file : Files \cup {NoEntry}, data : Versions,
                          post : BOOLEAN]]
    /\ named \in [FileUrls -> SUBSET Files]
    /\ seen \in [Files -> SUBSET Versions]

\* A URL is only ever answered with a file that it can name: entries of
\* different URLs are never mixed up, whatever is flushed, evicted, relinked
\* or cached while the request runs.
AnsweredWithOwnFile ==
    \A g \in Procs : req[g].at = "ok" =>
        req[g].file \in LinkTargets[NameOf(req[g].url)]

\* "Directory listing takes precedence over index resolution when enabled": a
\* directory is answered with its listing, whatever the caches hold.
ListingTakesPrecedence ==
    \A g \in Procs :
        listing /\ req[g].url \in DirUrls /\ req[g].at \in Answered \ {"failed"}
            => req[g].at = "listing"

\* After a SIGHUP, a request that begins is answered from what was on disk
\* at that SIGHUP or later: with a version that a file named by the URL has
\* had since, or with a default asset or 404 if that file has been missing.
FreshSinceFlush ==
    \A g \in Procs :
        req[g].at \in Answered \ {"failed", "listing"} /\ req[g].post =>
            \E f \in named[NameOf(req[g].url)] :
                /\ req[g].at = "ok" => req[g].file = f
                /\ req[g].data \in seen[f]

\* The same where the operator keeps requests away from the server during the
\* SIGHUP, which is what it takes.
FreshWhenDrained == drain = "requests" => FreshSinceFlush

\* "Size is the length of Data in bytes": the metadata of an entry describes
\* the version of the file that the entry holds.
SizeIsLenOfData ==
    \A u \in Urls : fcache[u] # NoEntry => fcache[u].stat = fcache[u].data

=============================================================================

-------------------------- MODULE FileServingProofs --------------------------
(***************************************************************************)
(* Proofs about FileServing, for every tree, any number of goroutines,     *)
(* versions and SIGHUPs.                                                   *)
(*                                                                         *)
(* Two theorems have one argument.  AnsweredWithOwnFile says that a URL is *)
(* answered with a file it can name (LinkTargets) in any version;          *)
(* FreshSinceFlush that it is a file it has named, in a version the file   *)
(* has had, since the last SIGHUP (named and seen).  Sound(N, S) says of   *)
(* caches and requests that what they hold for a URL is a file in N of     *)
(* that URL and a version in S of that file; every step of a request or of *)
(* Preload keeps it, as long as what is on disk is in N and S.             *)
(***************************************************************************)
EXTENDS FileServing, TLAPS

Request == [at : Points, url : Urls \cup {NoEntry},
            path : Files \cup Urls \cup {NoEntry},
            canon : Urls \cup {NoEntry}, info : Versions,
            file : Files \cup {NoEntry}, data : Versions, post : BOOLEAN]
Entries == [file : Files, data : Versions, stat : Versions]

\* The paths that may stand for a URL: the URL itself, as long as it has not
\* been resolved, or one of its files.
PathOf(N, u, p) == IF u \in DirUrls THEN p = u ELSE p \in {u} \cup N[u]

Content(N, S, u, f, v) == f \in N[NameOf(u)] /\ v \in S[f]

SoundEntries(N, S, fc) ==
    \A u \in Urls : fc[u] # NoEntry =>
        u \in FileUrls \cup SlashDirs /\ Content(N, S, u, fc[u].file, fc[u].data)

SoundPaths(N, pc) ==
    \A u \in Urls : pc[u] # NoEntry => u \notin OutsideUrls /\ PathOf(N, u, pc[u])

\* What a request knows at each of its points.
SoundRequest(N, S, r) ==
    /\ r.at # "idle" => r.url \in Urls
    /\ r.at \notin {"idle", "pathsafe", "failed"} => r.url \notin OutsideUrls
    /\ r.at \in {"store", "handler", "get", "stat"} => PathOf(N, r.url, r.path)
    /\ r.at \in {"index", "statindex"} => r.url \in DirUrls /\ r.canon = NameOf(r.url)
    /\ r.at = "index" => r.path = r.url
    /\ r.at = "statindex" => PathOf(N, r.canon, r.path)
    /\ r.at \in {"recheck", "read", "put"} => /\ r.canon = NameOf(r.url)
                                             /\ PathOf(N, r.canon, r.path)
    /\ r.at = "recheck" => \E f \in N[NameOf(r.url)] : r.info \in S[f]
    /\ r.at \notin {"put", "ok"} => r.data = 0
    /\ r.at \in {"put", "ok"} => Content(N, S, r.url, r.file, r.data)
    /\ r.at \in {"embedded", "missing"} => \E f \in N[NameOf(r.url)] : 0 \in S[f]

Sound(N, S, fc, pc, rq) ==
    /\ SoundEntries(N, S, fc)
    /\ SoundPaths(N, pc)
    /\ \A g \in Procs : SoundRequest(N, S, rq[g])

\* N and S cover what is on disk.
Covers(N, S) ==
    /\ N \in [FileUrls -> SUBSET Files]
    /\ S \in [Files -> SUBSET Versions]
    /\ \A u \in FileUrls : target[u] \in N[u]
    /\ \A f \in Files : content[f] \in S[f]

\* A URL names one of its files, Preload reads files, and PreWarm checks paths that no
\* rule rejects by their name.
WalkInv ==
    /\ \A u \in FileUrls : target[u] \in LinkTargets[u]
    /\ walk.at \in {"stat", "load"} => walk.file \in Files
    /\ walk.paths \cap OutsideUrls = {}

Walks == [at : {"visit", "stat", "load", "serving"}, todo : SUBSET FileUrls,
          file : Files \cup {NoEntry}, info : Versions, paths : SUBSET Urls]

-----------------------------------------------------------------------------
(* Names and paths.                                                        *)

LEMMA UrlFacts ==
    /\ \A u \in Urls \ OutsideUrls : u \in DirUrls \/ u \in FileUrls
    /\ \A u \in Urls \ OutsideUrls : NameOf(u) \in FileUrls
    /\ \A u \in FileUrls : /\ NameOf(u) = u
                           /\ u \in Urls
                           /\ u \notin DirUrls
                           /\ u \notin OutsideUrls
                           /\ u \notin Files
    /\ \A u \in DirUrls : /\ NameOf(u) = IndexURL[u]
                          /\ IndexURL[u] \in FileUrls
                          /\ u \in Urls
                          /\ u \notin OutsideUrls
                          /\ u \notin Files
    /\ \A f \in Files : f \notin Urls
BY UrlsAssumption DEF NameOf, FileUrls, DirUrls

\* pathSafe's result stands for the URL, and the file behind such a path is
\* one of the URL's.
LEMMA SafePathSound ==
    ASSUME NEW N, NEW S, Covers(N, S), NEW u \in Urls \ OutsideUrls
    PROVE  /\ PathOf(N, u, SafePath(u))
           /\ SafePath(u) \in Files \cup Urls
<1>1. CASE u \in DirUrls
  BY <1>1, UrlFacts DEF PathOf, SafePath
<1>2. CASE u \notin DirUrls
  <2>1. u \in FileUrls
    BY <1>2, UrlFacts
  <2> QED
    BY <1>2, <2>1 DEF PathOf, SafePath, Covers
<1> QED
  BY <1>1, <1>2

LEMMA DerefSound ==
    ASSUME NEW N, NEW S, Covers(N, S), NEW u \in FileUrls, NEW p, PathOf(N, u, p)
    PROVE  /\ Deref(p) \in N[u]
           /\ Deref(p) \in Files
           /\ content[Deref(p)] \in S[Deref(p)]
           /\ content[Deref(p)] \in Versions
           /\ p \in Files \cup Urls
           /\ p \notin DirUrls
<1>1. u \notin DirUrls /\ u \notin Files /\ u \in Urls
  BY UrlFacts
<1>2. N[u] \subseteq Files /\ N[u] \cap DirUrls = {}
  BY UrlFacts DEF Covers
<1>3. CASE p = u
  BY <1>1, <1>2, <1>3 DEF Deref, Covers
<1>4. CASE p # u
  BY <1>1, <1>2, <1>4 DEF Deref, Covers, PathOf
<1> QED
  BY <1>3, <1>4

\* What is sound stays so when more names and versions are admitted.
LEMMA SoundGrows ==
    ASSUME NEW N \in [FileUrls -> SUBSET Files], NEW M \in [FileUrls -> SUBSET Files],
           NEW S \in [Files -> SUBSET Versions], NEW T \in [Files -> SUBSET Versions],
           \A u \in FileUrls : N[u] \subseteq M[u],
           \A f \in Files : S[f] \subseteq T[f],
           NEW fc, NEW pc, NEW rq, Sound(N, S, fc, pc, rq)
    PROVE  Sound(M, T, fc, pc, rq)
<1>1. ASSUME NEW u \in Urls \ OutsideUrls, NEW f, NEW v, Content(N, S, u, f, v)
      PROVE  Content(M, T, u, f, v)
  <2>1. NameOf(u) \in FileUrls
    BY UrlFacts
  <2> QED
    BY <1>1, <2>1 DEF Content
<1>2. ASSUME NEW u \in Urls \ OutsideUrls, NEW p, PathOf(N, u, p)
      PROVE  PathOf(M, u, p)
  BY <1>2, UrlFacts DEF PathOf
<1>3. SoundEntries(M, T, fc)
  BY <1>1, UrlFacts DEF Sound, SoundEntries, DirUrls
<1>4. SoundPaths(M, pc)
  BY <1>2 DEF Sound, SoundPaths
<1>5. ASSUME NEW r, SoundRequest(N, S, r) PROVE SoundRequest(M, T, r)
  <2>1. /\ r.at # "idle" => r.url \in Urls
        /\ r.at \notin {"idle", "pathsafe", "failed"} => r.url \notin OutsideUrls
        /\ r.at \in {"index", "statindex"} => r.url \in DirUrls /\ r.canon = NameOf(r.url)
        /\ r.at = "index" => r.path = r.url
        /\ r.at \notin {"put", "ok"} => r.data = 0
    BY <1>5 DEF SoundRequest
  <2>2. r.at \in {"store", "handler", "get", "stat"} => PathOf(M, r.url, r.path)
    BY <1>5, <1>2 DEF SoundRequest
  <2>3. /\ r.at \in {"recheck", "read", "put"} => /\ r.canon = NameOf(r.url)
                                                  /\ PathOf(M, r.canon, r.path)
        /\ r.at = "statindex" => PathOf(M, r.canon, r.path)
    <3>1. \A u \in FileUrls : u \in Urls \ OutsideUrls
      BY UrlFacts
    <3> QED
      BY <1>5, <1>2, <3>1, UrlFacts DEF SoundRequest
  <2>4. r.at \in {"put", "ok"} => Content(M, T, r.url, r.file, r.data)
    BY <1>5, <1>1 DEF SoundRequest
  <2>5. ASSUME NEW v, NEW u \in Urls \ OutsideUrls, \E f \in N[NameOf(u)] : v \in S[f]
        PROVE  \E f \in M[NameOf(u)] : v \in T[f]
    BY <2>5, UrlFacts
  <2>6. /\ r.at = "recheck" => \E f \in M[NameOf(r.url)] : r.info \in T[f]
        /\ r.at \in {"embedded", "missing"} => \E f \in M[NameOf(r.url)] : 0 \in T[f]
    BY <1>5, <2>5 DEF SoundRequest
  <2> QED
    BY <2>1, <2>2, <2>3, <2>4, <2>6 DEF SoundRequest
<1> QED
  BY <1>3, <1>4, <1>5 DEF Sound

-----------------------------------------------------------------------------
(* Steps of a request.                                                     *)

\* A request moves on to a record that is typed and sound.
LEMMA Moves ==
    ASSUME NEW N, NEW S, NEW g \in Procs, NEW r \in Request,
           TypeOK, SoundRequest(N, S, r), Goto(g, r),
           \A h \in Procs : SoundRequest(N, S, req[h])
    PROVE  /\ req' \in [Procs -> Request]
           /\ \A h \in Procs : SoundRequest(N, S, req'[h])
<1>1. req \in [Procs -> Request]
  BY DEF TypeOK, Request
<1>2. req' = [req EXCEPT ![g] = r]
  BY DEF Goto
<1>3. ASSUME NEW h \in Procs PROVE SoundRequest(N, S, req'[h])
  <2>1. CASE h = g
    <3>1. req'[h] = r
      BY <1>1, <1>2, <2>1
    <3> QED
      BY <3>1
  <2>2. CASE h # g
    <3>1. req'[h] = req[h]
      BY <1>1, <1>2, <2>2
    <3> QED
      BY <3>1
  <2> QED
    BY <2>1, <2>2
<1>4. req' \in [Procs -> Request]
  BY <1>1, <1>2
<1> QED
  BY <1>3, <1>4

LEMMA MovesAlone ==
    ASSUME NEW N, NEW S, NEW g \in Procs, NEW r \in Request,
           TypeOK, SoundRequest(N, S, r), Goto(g, r), UNCHANGED around,
           Sound(N, S, fcache, pcache, req)
    PROVE  TypeOK' /\ Sound(N, S, fcache', pcache', req')
<1>1. /\ req' \in [Procs -> Request]
      /\ \A h \in Procs : SoundRequest(N, S, req'[h])
  BY Moves DEF Sound
<1>2. TypeOK'
  BY <1>1 DEF TypeOK, Request, around
<1>3. Sound(N, S, fcache', pcache', req')
  BY <1>1 DEF Sound, around
<1> QED
  BY <1>2, <1>3

LEMMA BeginSound ==
    ASSUME NEW N, NEW S, TypeOK, Covers(N, S), Sound(N, S, fcache, pcache, req),
           NEW g \in Procs, NEW u \in Urls, Begin(g, u)
    PROVE  TypeOK' /\ Sound(N, S, fcache', pcache', req')
<1> DEFINE hit == PathCaching /\ pcache[u] # NoEntry
           r == [Idle EXCEPT !.at = IF hit THEN "handler" ELSE "pathsafe",
                             !.url = u,
                             !.path = IF hit THEN pcache[u] ELSE NoEntry,
                             !.post = hup = "idle"]
<1>1. Goto(g, r) /\ UNCHANGED around
  BY DEF Begin
<1>2. pcache[u] \in Files \cup Urls \cup {NoEntry}
  BY DEF TypeOK
<1>3. 0 \in Versions
  BY DEF Versions
<1>4. Idle \in Request /\ Idle.data = 0
  BY <1>3 DEF Idle, Request, Points
<1>5. hit => u \notin OutsideUrls /\ PathOf(N, u, pcache[u])
  BY DEF Sound, SoundPaths
<1> HIDE DEF hit
<1>6. (hup = "idle") \in BOOLEAN
  OBVIOUS
<1>7. r \in Request
  BY <1>2, <1>4, <1>6 DEF Request, Points
<1>8. /\ r.at = IF hit THEN "handler" ELSE "pathsafe"
      /\ r.url = u
      /\ r.path = IF hit THEN pcache[u] ELSE NoEntry
      /\ r.data = 0
  BY <1>4 DEF Request
<1> HIDE DEF r
<1>9. SoundRequest(N, S, r)
  BY <1>5, <1>8 DEF SoundRequest
<1> QED
  BY <1>1, <1>7, <1>9, MovesAlone DEF r

LEMMA RequestSound ==
    ASSUME NEW N, NEW S, TypeOK, Covers(N, S), Sound(N, S, fcache, pcache, req),
           NEW g \in Procs, Serve(g)
    PROVE  TypeOK' /\ Sound(N, S, fcache', pcache', req')
<1> DEFINE r == req[g]
<1>1. r \in Request
  BY DEF TypeOK, Request
<1>2. SoundRequest(N, S, r)
  BY DEF Sound
<1>3. 0 \in Versions
  BY DEF Versions
<1> HIDE DEF r
<1>4. CASE MiddlewarePathSafe(g)
  <2> DEFINE q == IF Rejected(r.url) THEN [r EXCEPT !.at = "failed"]
                  ELSE [r EXCEPT !.at = IF PathCaching /\ Exists(r.url)
                                        THEN "store" ELSE "handler",
                                 !.path = SafePath(r.url)]
  <2>1. r.at = "pathsafe" /\ Goto(g, q) /\ UNCHANGED around
    BY <1>4 DEF MiddlewarePathSafe, r
  <2>2. r.url \in Urls /\ r.data = 0
    BY <1>2, <2>1 DEF SoundRequest
  <2>3. ~Rejected(r.url) => /\ r.url \notin OutsideUrls
                            /\ PathOf(N, r.url, SafePath(r.url))
                            /\ SafePath(r.url) \in Files \cup Urls
    BY <2>2, SafePathSound DEF Rejected
  <2>4. q \in Request
    BY <1>1, <2>3 DEF Request, Points
  <2>5. SoundRequest(N, S, q)
    BY <1>1, <2>2, <2>3 DEF SoundRequest, Request
  <2> HIDE DEF q
  <2> QED
    BY <2>1, <2>4, <2>5, MovesAlone
<1>5. CASE MiddlewareStore(g)
  <2> DEFINE q == [r EXCEPT !.at = "handler"]
  <2>1. /\ r.at = "store"
        /\ Goto(g, q)
        /\ pcache' = [pcache EXCEPT ![r.url] = r.path]
        /\ UNCHANGED <<listing, drain, target, content, fcache, hup, hups, walk, named,
                       seen>>
    BY <1>5 DEF MiddlewareStore, r
  <2>2. /\ r.url \in Urls /\ r.url \notin OutsideUrls
        /\ PathOf(N, r.url, r.path) /\ r.data = 0
    BY <1>2, <2>1 DEF SoundRequest
  <2>3. q \in Request
    BY <1>1 DEF Request, Points
  <2>4. SoundRequest(N, S, q)
    BY <1>1, <2>2 DEF SoundRequest, Request
  <2>5. /\ req' \in [Procs -> Request]
        /\ \A h \in Procs : SoundRequest(N, S, req'[h])
    <3> HIDE DEF q
    <3> QED
      BY <2>1, <2>3, <2>4, Moves DEF Sound
  <2>6. SoundPaths(N, pcache')
    BY <2>1, <2>2 DEF Sound, SoundPaths, TypeOK
  <2>7. pcache' \in [Urls -> Files \cup Urls \cup {NoEntry}]
    BY <1>1, <2>1 DEF TypeOK, Request
  <2>8. TypeOK'
    BY <2>1, <2>5, <2>7 DEF TypeOK, Request
  <2> QED
    BY <2>1, <2>5, <2>6, <2>8 DEF Sound
<1>6. CASE HandlerPath(g)
  <2> DEFINE known == ~PathCaching \/ pcache[r.url] # NoEntry
             p == IF ~known THEN SafePath(r.url)
                  ELSE IF PathCaching THEN pcache[r.url] ELSE r.path
             q == IF ~known /\ Rejected(r.url) THEN [r EXCEPT !.at = "failed"]
                  ELSE [r EXCEPT !.at = "get", !.path = p]
  <2>1. r.at = "handler" /\ Goto(g, q) /\ UNCHANGED around
    BY <1>6 DEF HandlerPath, r
  <2>2. /\ r.url \in Urls \ OutsideUrls /\ r.data = 0
        /\ PathOf(N, r.url, r.path)
    BY <1>2, <2>1 DEF SoundRequest
  <2>3. PathOf(N, r.url, SafePath(r.url)) /\ SafePath(r.url) \in Files \cup Urls
    BY <2>2, SafePathSound
  <2>4. pcache[r.url] # NoEntry => PathOf(N, r.url, pcache[r.url])
    BY <2>2 DEF Sound, SoundPaths
  <2>5. pcache[r.url] \in Files \cup Urls \cup {NoEntry}
    BY <2>2 DEF TypeOK
  <2>6. PathOf(N, r.url, p) /\ p \in Files \cup Urls \cup {NoEntry}
    BY <1>1, <2>2, <2>3, <2>4, <2>5 DEF Request
  <2> HIDE DEF p, known
  <2>7. q \in Request
    BY <1>1, <2>6 DEF Request, Points
  <2>8. SoundRequest(N, S, q)
    BY <1>1, <2>2, <2>6 DEF SoundRequest, Request
  <2> HIDE DEF q
  <2> QED
    BY <2>1, <2>7, <2>8, MovesAlone
<1>7. CASE HandlerGet(g)
  <2> DEFINE k == CacheKeyForPath(r.url)
             e == fcache[k]
             q == IF e # NoEntry THEN Served(r, e) ELSE [r EXCEPT !.at = "stat"]
  <2>1. r.at = "get" /\ Goto(g, q) /\ UNCHANGED around
    BY <1>7 DEF HandlerGet, r
  <2>2. /\ r.url \in Urls \ OutsideUrls /\ r.data = 0
        /\ PathOf(N, r.url, r.path)
    BY <1>2, <2>1 DEF SoundRequest
  <2>3. k \in Urls \ OutsideUrls /\ NameOf(k) = NameOf(r.url)
    BY <2>2, UrlFacts DEF CacheKeyForPath, DirUrls
  <2>4. e # NoEntry => e \in Entries /\ Content(N, S, r.url, e.file, e.data)
    BY <2>3 DEF Sound, SoundEntries, Content, TypeOK, Entries
  <2> HIDE DEF e
  <2>5. q \in Request
    BY <1>1, <2>4 DEF Request, Points, Served, Entries
  <2>6. SoundRequest(N, S, q)
    BY <1>1, <2>2, <2>4 DEF SoundRequest, Request, Served, Entries
  <2> HIDE DEF q
  <2> QED
    BY <2>1, <2>5, <2>6, MovesAlone
<1>8. CASE Stat(g)
  <2> DEFINE q == IF r.path \in DirUrls /\ listing THEN [r EXCEPT !.at = "listing"]
                  ELSE IF r.path \in DirUrls
                  THEN [r EXCEPT !.at = "index", !.canon = CanonicalURL(r.path)]
                  ELSE [r EXCEPT !.at = "recheck", !.canon = r.url,
                                 !.info = content[Deref(r.path)]]
  <2>1. r.at = "stat" /\ Goto(g, q) /\ UNCHANGED around
    BY <1>8 DEF Stat, r
  <2>2. /\ r.url \in Urls \ OutsideUrls /\ r.data = 0
        /\ PathOf(N, r.url, r.path)
    BY <1>2, <2>1 DEF SoundRequest
  <2>3. CASE r.url \in DirUrls
    <3>1. /\ r.path = r.url
          /\ CanonicalURL(r.path) = NameOf(r.url)
          /\ NameOf(r.url) \in Urls
      BY <2>2, <2>3, UrlFacts DEF PathOf, CanonicalURL
    <3>2. q \in Request
      BY <1>1, <2>3, <3>1 DEF Request, Points
    <3>3. SoundRequest(N, S, q)
      BY <1>1, <2>2, <2>3, <3>1 DEF SoundRequest, Request
    <3> HIDE DEF q
    <3> QED
      BY <2>1, <3>2, <3>3, MovesAlone
  <2>4. CASE r.url \notin DirUrls
    <3>1. r.url \in FileUrls /\ NameOf(r.url) = r.url
      BY <2>2, <2>4, UrlFacts
    <3> DEFINE f == Deref(r.path)
    <3>2. /\ f \in N[r.url] /\ content[f] \in S[f] /\ content[f] \in Versions
          /\ r.path \notin DirUrls
      BY <2>2, <3>1, DerefSound
    <3> HIDE DEF f
    <3>3. q = [r EXCEPT !.at = "recheck", !.canon = r.url, !.info = content[f]]
      BY <3>2 DEF f
    <3>4. q \in Request
      BY <1>1, <2>2, <3>2, <3>3 DEF Request, Points
    <3>5. SoundRequest(N, S, q)
      BY <1>1, <2>2, <3>1, <3>2, <3>3 DEF SoundRequest, Request
    <3> HIDE DEF q
    <3> QED
      BY <2>1, <3>4, <3>5, MovesAlone
  <2> QED
    BY <2>3, <2>4
<1>9. CASE CheckIndex(g)
  <2> DEFINE i == IndexURL[r.path]
             q == IF Rejected(i) THEN [r EXCEPT !.at = "failed"]
                  ELSE [r EXCEPT !.at = "statindex", !.path = SafePath(i)]
  <2>1. r.at = "index" /\ Goto(g, q) /\ UNCHANGED around
    BY <1>9 DEF CheckIndex, r
  <2>2. /\ r.url \in DirUrls /\ r.path = r.url /\ r.canon = NameOf(r.url)
        /\ r.url \in Urls \ OutsideUrls /\ r.data = 0
    BY <1>2, <2>1 DEF SoundRequest
  <2>3. i = NameOf(r.url) /\ i \in Urls \ OutsideUrls
    BY <2>2, UrlFacts
  <2>4. PathOf(N, i, SafePath(i)) /\ SafePath(i) \in Files \cup Urls
    BY <2>3, SafePathSound
  <2> HIDE DEF i
  <2>5. q \in Request
    BY <1>1, <2>4 DEF Request, Points
  <2>6. SoundRequest(N, S, q)
    BY <1>1, <2>2, <2>3, <2>4 DEF SoundRequest, Request
  <2> HIDE DEF q
  <2> QED
    BY <2>1, <2>5, <2>6, MovesAlone
<1>10. CASE StatIndex(g)
  <2> DEFINE f == Deref(r.path)
             q == [r EXCEPT !.at = "recheck", !.info = content[f]]
  <2>1. r.at = "statindex" /\ Goto(g, q) /\ UNCHANGED around
    BY <1>10 DEF StatIndex, r
  <2>2. /\ r.canon = NameOf(r.url) /\ PathOf(N, r.canon, r.path)
        /\ r.url \in Urls \ OutsideUrls /\ r.data = 0
    BY <1>2, <2>1 DEF SoundRequest
  <2>3. r.canon \in FileUrls
    BY <2>2, UrlFacts
  <2>4. f \in N[r.canon] /\ content[f] \in S[f] /\ content[f] \in Versions
    BY <2>2, <2>3, DerefSound
  <2> HIDE DEF f
  <2>5. q \in Request
    BY <1>1, <2>4 DEF Request, Points
  <2>6. SoundRequest(N, S, q)
    BY <1>1, <2>2, <2>4 DEF SoundRequest, Request
  <2> HIDE DEF q
  <2> QED
    BY <2>1, <2>5, <2>6, MovesAlone
<1>11. CASE Recheck(g)
  <2> DEFINE e == fcache[r.canon]
             q == IF r.canon # CacheKeyForPath(r.url) /\ e # NoEntry
                  THEN Served(r, e) ELSE ServeFromDisk(r)
  <2>1. r.at = "recheck" /\ Goto(g, q) /\ UNCHANGED around
    BY <1>11 DEF Recheck, r
  <2>2. /\ r.url \in Urls \ OutsideUrls /\ r.data = 0
        /\ r.canon = NameOf(r.url) /\ PathOf(N, r.canon, r.path)
        /\ \E f \in N[NameOf(r.url)] : r.info \in S[f]
    BY <1>2, <2>1 DEF SoundRequest
  <2>3. r.canon \in FileUrls /\ NameOf(r.canon) = NameOf(r.url) /\ r.canon \in Urls
    BY <2>2, UrlFacts
  <2>4. e # NoEntry => e \in Entries /\ Content(N, S, r.url, e.file, e.data)
    BY <2>3 DEF Sound, SoundEntries, Content, TypeOK, Entries
  <2> HIDE DEF e
  <2>5. q \in Request
    BY <1>1, <2>4 DEF Request, Points, Served, Entries, ServeFromDisk,
                      ServeEmbedded, ServeNotFound
  <2>6. CASE r.canon # CacheKeyForPath(r.url) /\ e # NoEntry
    <3>1. SoundRequest(N, S, q)
      BY <1>1, <2>2, <2>4, <2>6 DEF SoundRequest, Request, Served, Entries
    <3> HIDE DEF q
    <3> QED
      BY <2>1, <2>5, <3>1, MovesAlone
  <2>7. CASE ~(r.canon # CacheKeyForPath(r.url) /\ e # NoEntry)
    <3>1. q = ServeFromDisk(r)
      BY <2>7
    <3>2. SoundRequest(N, S, q)
      BY <1>1, <2>2, <3>1 DEF SoundRequest, Request, ServeFromDisk,
                              ServeEmbedded, ServeNotFound
    <3> HIDE DEF q
    <3> QED
      BY <2>1, <2>5, <3>2, MovesAlone
  <2> QED
    BY <2>6, <2>7
<1>12. CASE ReadFile(g)
  <2> DEFINE f == Deref(r.path)
             q == IF content[f] = 0 THEN [r EXCEPT !.at = "failed"]
                  ELSE [r EXCEPT !.at = IF r.info \in Large THEN "ok" ELSE "put",
                                 !.file = f, !.data = content[f]]
  <2>1. r.at = "read" /\ Goto(g, q) /\ UNCHANGED around
    BY <1>12 DEF ReadFile, r
  <2>2. /\ r.url \in Urls \ OutsideUrls /\ r.data = 0
        /\ r.canon = NameOf(r.url) /\ PathOf(N, r.canon, r.path)
    BY <1>2, <2>1 DEF SoundRequest
  <2>3. r.canon \in FileUrls
    BY <2>2, UrlFacts
  <2>4. /\ f \in N[r.canon] /\ f \in Files
        /\ content[f] \in S[f] /\ content[f] \in Versions
    BY <2>2, <2>3, DerefSound
  <2>5. Content(N, S, r.url, f, content[f])
    BY <2>2, <2>4 DEF Content
  <2> HIDE DEF f
  <2>6. q \in Request
    BY <1>1, <2>4 DEF Request, Points
  <2>7. SoundRequest(N, S, q)
    BY <1>1, <2>2, <2>5 DEF SoundRequest, Request
  <2> HIDE DEF q
  <2> QED
    BY <2>1, <2>6, <2>7, MovesAlone
<1>13. CASE PutEntry(g)
  <2> DEFINE q == [r EXCEPT !.at = "ok"]
             e == Entry(r.file, r.data, r.info)
  <2>1. /\ r.at = "put"
        /\ Goto(g, q)
        /\ fcache' = [fcache EXCEPT ![r.canon] = e]
        /\ UNCHANGED <<listing, drain, target, content, pcache, hup, hups, walk, named,
                       seen>>
    BY <1>13 DEF PutEntry, r
  <2>2. /\ r.url \in Urls \ OutsideUrls /\ r.canon = NameOf(r.url)
        /\ Content(N, S, r.url, r.file, r.data)
    BY <1>2, <2>1 DEF SoundRequest
  <2>3. r.canon \in FileUrls /\ r.canon \in Urls /\ NameOf(r.canon) = NameOf(r.url)
    BY <2>2, UrlFacts
  <2>4. r.file \in Files
    BY <2>2, <2>3 DEF Content, Covers
  <2>5. e \in Entries /\ e.file = r.file /\ e.data = r.data
    BY <1>1, <2>4 DEF Request, Entries, Entry
  <2> HIDE DEF e
  <2>6. fcache \in [Urls -> Entries \cup {NoEntry}]
    BY DEF TypeOK, Entries
  <2>7. fcache' \in [Urls -> Entries \cup {NoEntry}]
    BY <2>1, <2>5, <2>6
  <2>8. SoundEntries(N, S, fcache')
    BY <2>1, <2>2, <2>3, <2>5, <2>6 DEF Sound, SoundEntries, Content
  <2>9. q \in Request
    BY <1>1 DEF Request, Points
  <2>10. SoundRequest(N, S, q)
    BY <1>1, <2>2 DEF SoundRequest, Request
  <2>11. /\ req' \in [Procs -> Request]
         /\ \A h \in Procs : SoundRequest(N, S, req'[h])
    <3> HIDE DEF q
    <3> QED
      BY <2>1, <2>9, <2>10, Moves DEF Sound
  <2>12. TypeOK'
    BY <2>1, <2>7, <2>11 DEF TypeOK, Request, Entries
  <2> QED
    BY <2>1, <2>8, <2>11, <2>12 DEF Sound
<1>14. CASE Finish(g)
  <2>1. Goto(g, Idle) /\ UNCHANGED around
    BY <1>14 DEF Finish
  <2>2. Idle \in Request
    BY <1>3 DEF Idle, Request, Points
  <2>3. SoundRequest(N, S, Idle)
    BY DEF Idle, SoundRequest
  <2> QED
    BY <2>1, <2>2, <2>3, MovesAlone
<1> QED
  BY <1>4, <1>5, <1>6, <1>7, <1>8, <1>9, <1>10, <1>11, <1>12, <1>13, <1>14 DEF Serve

-----------------------------------------------------------------------------
(* Start-up.                                                               *)

\* Preload stores files under the keys of their URLs, as requests do.
LEMMA PreloadSound ==
    ASSUME NEW N, NEW S, TypeOK, WalkInv, Covers(N, S),
           Sound(N, S, fcache, pcache, req), Preload
    PROVE  /\ TypeOK'
           /\ WalkInv'
           /\ Sound(N, S, fcache', pcache', req')
<1> USE DEF TypeOK, WalkInv
<1> DEFINE Kept == TypeOK' /\ WalkInv' /\ Sound(N, S, fcache', pcache', req')
<1>1. ASSUME NEW u \in FileUrls, PreloadVisit(u) PROVE Kept
  <2>1. target[u] \in Files
    OBVIOUS
  <2>2. /\ walk' \in Walks
        /\ walk'.at \in {"stat", "load"} => walk'.file \in Files
        /\ walk'.paths = walk.paths
    BY <1>1, <2>1 DEF PreloadVisit, Walks
  <2>3. UNCHANGED <<listing, drain, target, content, fcache, pcache, hup, hups, req,
                    named, seen>>
    BY <1>1 DEF PreloadVisit
  <2> QED
    BY <2>2, <2>3 DEF Walks
<1>2. ASSUME PreloadStat PROVE Kept
  <2>1. walk.file \in Files /\ content[walk.file] \in Versions
    BY <1>2 DEF PreloadStat
  <2>2. /\ walk' \in Walks
        /\ walk'.file = walk.file
        /\ walk'.paths = walk.paths
    BY <1>2, <2>1 DEF PreloadStat, Walks
  <2>3. UNCHANGED <<listing, drain, target, content, fcache, pcache, hup, hups, req,
                    named, seen>>
    BY <1>2 DEF PreloadStat
  <2> QED
    BY <2>1, <2>2, <2>3 DEF Walks
<1>3. ASSUME PreloadRead PROVE Kept
  <2> DEFINE f == walk.file
             v == content[f]
             keys == PreloadKeys(f)
             e == Entry(f, v, walk.info)
  <2>1. /\ f \in Files
        /\ UNCHANGED <<listing, drain, target, content, pcache, hup, hups, req, named,
                       seen>>
    BY <1>3 DEF PreloadRead
  <2>2. v \in S[f] /\ v \in Versions
    BY <2>1 DEF Covers
  <2>3. ASSUME NEW k \in keys
        PROVE  /\ k \in FileUrls \cup SlashDirs /\ k \in Urls
               /\ k \notin OutsideUrls /\ f \in N[NameOf(k)]
    <3>1. OwnUrl[f] \in FileUrls /\ target[OwnUrl[f]] = f
      BY <2>1, <2>3, OwnUrlAssumption DEF PreloadKeys
    <3>2. f \in N[OwnUrl[f]]
      BY <3>1 DEF Covers
    <3>3. k \in FileUrls \cup SlashDirs /\ NameOf(k) = OwnUrl[f]
      BY <2>3, <3>1, UrlFacts DEF PreloadKeys, DirUrls
    <3> QED
      BY <3>2, <3>3, UrlFacts DEF DirUrls
  <2>4. e \in Entries /\ e.file = f /\ e.data = v
    BY <2>1, <2>2 DEF Entry, Entries
  <2> HIDE DEF keys, e
  <2>5. CASE v = 0
    <3>1. walk' = [walk EXCEPT !.at = "visit"] /\ fcache' = fcache
      BY <1>3, <2>5 DEF PreloadRead
    <3> QED
      BY <2>1, <3>1
  <2>6. CASE v # 0
    <3>1. /\ walk' = [walk EXCEPT !.at = "visit", !.paths = @ \cup keys]
          /\ fcache' = [k \in Urls |-> IF k \in keys THEN e ELSE fcache[k]]
      BY <1>3, <2>6 DEF PreloadRead, keys, e
    <3>2. fcache' \in [Urls -> Entries \cup {NoEntry}]
      BY <2>4, <3>1 DEF Entries
    <3>3. SoundEntries(N, S, fcache')
      BY <2>2, <2>3, <2>4, <3>1 DEF Sound, SoundEntries, Content
    <3>4. /\ walk' \in Walks
          /\ walk'.at \notin {"stat", "load"}
          /\ walk'.paths \cap OutsideUrls = {}
      BY <2>3, <3>1 DEF Walks
    <3> QED
      BY <2>1, <3>2, <3>3, <3>4 DEF Sound, Entries, Walks
  <2> QED
    BY <2>5, <2>6
<1>4. ASSUME NEW u \in Urls, PreWarm(u) PROVE Kept
  <2>1. /\ u \in walk.paths
        /\ walk' = [walk EXCEPT !.paths = @ \ {u}]
        /\ pcache' = [pcache EXCEPT ![u] = IF Exists(u) /\ ~Rejected(u) THEN SafePath(u)
                                           ELSE @]
        /\ walk.at = "visit"
        /\ UNCHANGED <<listing, drain, target, content, fcache, hup, hups, req, named,
                       seen>>
    BY <1>4 DEF PreWarm
  <2>2. u \in Urls \ OutsideUrls
    BY <2>1
  <2>3. PathOf(N, u, SafePath(u)) /\ SafePath(u) \in Files \cup Urls
    BY <2>2, SafePathSound
  <2>4. pcache' \in [Urls -> Files \cup Urls \cup {NoEntry}]
    BY <2>1, <2>3
  <2>5. SoundPaths(N, pcache')
    BY <2>1, <2>2, <2>3 DEF Sound, SoundPaths
  <2>6. /\ walk' \in Walks
        /\ walk'.at = "visit"
        /\ walk'.paths \subseteq walk.paths
    BY <2>1 DEF Walks
  <2> QED
    BY <2>1, <2>4, <2>5, <2>6 DEF Sound, Walks
<1>5. ASSUME StartServing PROVE Kept
  <2>1. 0 \in Versions
    BY DEF Versions
  <2> QED
    BY <1>5, <2>1 DEF StartServing, Walked
<1> QED
  BY <1>1, <1>2, <1>3, <1>4, <1>5 DEF Preload

-----------------------------------------------------------------------------
(* Everything else: deployments, evictions, SIGHUP.                        *)

Deploy ==
    \/ \E f \in Files : Edit(f) \/ Delete(f)
    \/ \E u \in FileUrls, f \in Files : Retarget(u, f)

Drop == \E u \in Urls : DropEntry(u) \/ DropPath(u)

LEMMA DeployTyped ==
    ASSUME TypeOK, WalkInv, Deploy
    PROVE  /\ TypeOK'
           /\ WalkInv'
           /\ UNCHANGED <<listing, drain, fcache, pcache, hup, hups, walk, req>>
<1> DEFINE Kept == /\ TypeOK'
                   /\ WalkInv'
                   /\ UNCHANGED <<listing, drain, fcache, pcache, hup, hups, walk, req>>
<1>1. ASSUME NEW f \in Files, Edit(f) \/ Delete(f) PROVE Kept
  <2>1. PICK v \in Versions : Write(f, v)
    BY <1>1 DEF Edit, Delete, Versions
  <2> QED
    BY <2>1 DEF Write, TypeOK, WalkInv
<1>2. ASSUME NEW u \in FileUrls, NEW f \in Files, Retarget(u, f) PROVE Kept
  BY <1>2 DEF Retarget, TypeOK, WalkInv
<1> QED
  BY <1>1, <1>2 DEF Deploy

\* A request's steps leave the disk, SIGHUP and Preload alone.
LEMMA ServeKeeps ==
    ASSUME NEW g \in Procs, Serve(g)
    PROVE  UNCHANGED <<drain, target, content, hup, walk, named, seen>>
BY DEF Serve, around, MiddlewarePathSafe, MiddlewareStore, HandlerPath, HandlerGet, Stat,
       CheckIndex, StatIndex, Recheck, ReadFile, PutEntry, Finish

LEMMA DropSound ==
    ASSUME NEW N, NEW S, TypeOK, Sound(N, S, fcache, pcache, req), Drop
    PROVE  TypeOK' /\ Sound(N, S, fcache', pcache', req')
<1>1. ASSUME NEW u \in Urls, DropEntry(u)
      PROVE  TypeOK' /\ Sound(N, S, fcache', pcache', req')
  <2>1. TypeOK'
    BY <1>1 DEF DropEntry, TypeOK
  <2>2. SoundEntries(N, S, fcache')
    BY <1>1 DEF DropEntry, TypeOK, Sound, SoundEntries
  <2> QED
    BY <1>1, <2>1, <2>2 DEF DropEntry, Sound
<1>2. ASSUME NEW u \in Urls, DropPath(u)
      PROVE  TypeOK' /\ Sound(N, S, fcache', pcache', req')
  <2>1. TypeOK'
    BY <1>2 DEF DropPath, TypeOK
  <2>2. SoundPaths(N, pcache')
    BY <1>2 DEF DropPath, TypeOK, Sound, SoundPaths
  <2> QED
    BY <1>2, <2>1, <2>2 DEF DropPath, Sound
<1> QED
  BY <1>1, <1>2 DEF Drop

\* SIGHUP's first step moves no request, it only marks those in flight.
LEMMA ReloadSound ==
    ASSUME NEW N, NEW S, TypeOK, Sound(N, S, fcache, pcache, req), HUPReload
    PROVE  TypeOK' /\ Sound(N, S, fcache', pcache', req')
<1> DEFINE Marked(g) == [req[g] EXCEPT !.post = req[g].at = "idle"]
<1>1. req \in [Procs -> Request]
  BY DEF TypeOK, Request
<1>2. ASSUME NEW g \in Procs
      PROVE  /\ req'[g] = Marked(g)
             /\ Marked(g) \in Request
             /\ Marked(g) = [req[g] EXCEPT !.post = Marked(g).post]
  <2>1. req'[g] = Marked(g)
    BY DEF HUPReload
  <2>2. (req[g].at = "idle") \in BOOLEAN
    OBVIOUS
  <2>3. Marked(g) \in Request
    BY <1>1, <2>2 DEF Request
  <2>4. Marked(g) = [req[g] EXCEPT !.post = Marked(g).post]
    BY <1>1 DEF Request
  <2> QED
    BY <2>1, <2>3, <2>4
<1>3. ASSUME NEW g \in Procs PROVE SoundRequest(N, S, req'[g])
  <2>1. SoundRequest(N, S, req[g])
    BY DEF Sound
  <2>2. /\ req'[g].at = req[g].at /\ req'[g].url = req[g].url
        /\ req'[g].path = req[g].path /\ req'[g].canon = req[g].canon
        /\ req'[g].info = req[g].info /\ req'[g].file = req[g].file
        /\ req'[g].data = req[g].data
    BY <1>1, <1>2 DEF Request
  <2> QED
    BY <2>1, <2>2 DEF SoundRequest
<1>4. req' \in [Procs -> Request]
  <2>1. req' = [g \in Procs |-> Marked(g)]
    BY DEF HUPReload
  <2>2. \A g \in Procs : Marked(g) \in Request
    BY <1>2
  <2> HIDE DEF Marked
  <2> QED
    BY <2>1, <2>2
<1>5. /\ hups' \in 0 .. MaxHUPs
      /\ hup' = "flushfiles"
      /\ named' \in [FileUrls -> SUBSET Files]
      /\ seen' \in [Files -> SUBSET Versions]
  BY BoundAssumption DEF HUPReload, TypeOK
<1>6. TypeOK'
  BY <1>4, <1>5 DEF HUPReload, TypeOK, Request
<1> QED
  BY <1>3, <1>6 DEF Sound, HUPReload

LEMMA FlushSound ==
    ASSUME NEW N, NEW S, TypeOK, Sound(N, S, fcache, pcache, req),
           HUPFlushFiles \/ HUPFlushPaths
    PROVE  TypeOK' /\ Sound(N, S, fcache', pcache', req')
<1>1. CASE HUPFlushFiles
  BY <1>1 DEF HUPFlushFiles, TypeOK, Sound, SoundEntries
<1>2. CASE HUPFlushPaths
  BY <1>2 DEF HUPFlushPaths, TypeOK, Sound, SoundPaths
<1> QED
  BY <1>1, <1>2

LEMMA NextCases ==
    ASSUME [Next]_vars
    PROVE  \/ Preload
           \/ \E g \in Procs, u \in Urls : Begin(g, u)
           \/ \E g \in Procs : Serve(g)
           \/ HUPReload
           \/ HUPFlushFiles \/ HUPFlushPaths
           \/ Deploy
           \/ Drop
           \/ UNCHANGED vars
BY DEF Next, Deploy, Drop

-----------------------------------------------------------------------------
(* Every URL is answered with a file it can name.                          *)

AnyVersion == [f \in Files |-> Versions]

OwnInv ==
    /\ TypeOK
    /\ WalkInv
    /\ Sound(LinkTargets, AnyVersion, fcache, pcache, req)

LEMMA OwnCovers ==
    ASSUME OwnInv
    PROVE  Covers(LinkTargets, AnyVersion)
BY UrlsAssumption DEF OwnInv, WalkInv, Covers, AnyVersion, TypeOK

LEMMA InitTyped ==
    ASSUME Init
    PROVE  /\ TypeOK
           /\ WalkInv
           /\ \A g \in Procs : req[g] = Idle
<1>1. 0 \in Versions /\ 1 \in Versions
  BY DEF Versions
<1>2. Idle \in Request
  BY <1>1 DEF Idle, Request, Points
<1>3. walk \in Walks /\ walk.at \notin {"stat", "load"} /\ walk.paths = {}
  BY <1>1 DEF Init, Walk, Walked, Walks
<1>4. req \in [Procs -> Request] /\ \A g \in Procs : req[g] = Idle
  BY <1>2 DEF Init
<1>5. /\ listing \in BOOLEAN /\ drain \in Drains
      /\ \A u \in FileUrls : target[u] \in LinkTargets[u]
      /\ target \in [FileUrls -> Files]
      /\ content \in [Files -> Versions]
      /\ fcache \in [Urls -> Entries \cup {NoEntry}]
      /\ pcache \in [Urls -> Files \cup Urls \cup {NoEntry}]
      /\ hup = "idle"
      /\ hups \in 0 .. MaxHUPs
      /\ named \in [FileUrls -> SUBSET Files]
      /\ seen \in [Files -> SUBSET Versions]
  BY <1>1, UrlsAssumption, ListingsAssumption, BoundAssumption DEF Init
<1> QED
  BY <1>3, <1>4, <1>5 DEF TypeOK, WalkInv, Request, Entries, Walks

LEMMA InitSound ==
    ASSUME Init, NEW N, NEW S
    PROVE  Sound(N, S, fcache, pcache, req)
<1>1. SoundRequest(N, S, Idle)
  BY DEF SoundRequest, Idle
<1>2. \A g \in Procs : req[g] = Idle
  BY InitTyped
<1> QED
  BY <1>1, <1>2 DEF Init, Sound, SoundEntries, SoundPaths

LEMMA OwnInit == Init => OwnInv
BY InitTyped, InitSound DEF OwnInv

LEMMA OwnStep == OwnInv /\ [Next]_vars => OwnInv'
<1> SUFFICES ASSUME OwnInv, [Next]_vars PROVE OwnInv'
  OBVIOUS
<1> DEFINE N == LinkTargets
           S == AnyVersion
           Kept == /\ TypeOK'
                   /\ Sound(N, S, fcache', pcache', req')
<1>1. TypeOK /\ WalkInv /\ Covers(N, S) /\ Sound(N, S, fcache, pcache, req)
  BY OwnCovers DEF OwnInv
<1> HIDE DEF N, S
<1>2. CASE Preload
  <2>1. Kept /\ WalkInv'
    BY <1>1, <1>2, PreloadSound
  <2> QED
    BY <2>1 DEF OwnInv, N, S
<1>3. CASE \E g \in Procs, u \in Urls : Begin(g, u)
  <2>1. PICK g \in Procs, u \in Urls : Begin(g, u)
    BY <1>3
  <2>2. Kept
    BY <1>1, <2>1, BeginSound
  <2>3. UNCHANGED <<target, walk>>
    BY <2>1 DEF Begin, around
  <2> QED
    BY <1>1, <2>2, <2>3 DEF OwnInv, WalkInv, N, S
<1>4. CASE \E g \in Procs : Serve(g)
  <2>1. PICK g \in Procs : Serve(g)
    BY <1>4
  <2>2. Kept
    BY <1>1, <2>1, RequestSound
  <2>3. UNCHANGED <<target, walk>>
    BY <2>1, ServeKeeps
  <2> QED
    BY <1>1, <2>2, <2>3 DEF OwnInv, WalkInv, N, S
<1>5. CASE HUPReload
  <2>1. Kept
    BY <1>1, <1>5, ReloadSound
  <2>2. UNCHANGED <<target, walk>>
    BY <1>5 DEF HUPReload
  <2> QED
    BY <1>1, <2>1, <2>2 DEF OwnInv, WalkInv, N, S
<1>6. CASE HUPFlushFiles \/ HUPFlushPaths
  <2>1. Kept
    BY <1>1, <1>6, FlushSound
  <2>2. UNCHANGED <<target, walk>>
    BY <1>6 DEF HUPFlushFiles, HUPFlushPaths
  <2> QED
    BY <1>1, <2>1, <2>2 DEF OwnInv, WalkInv, N, S
<1>7. CASE Deploy
  <2>1. TypeOK' /\ WalkInv' /\ UNCHANGED <<fcache, pcache, req>>
    BY <1>1, <1>7, DeployTyped
  <2> QED
    BY <1>1, <2>1 DEF OwnInv, N, S
<1>8. CASE Drop
  <2>1. Kept
    BY <1>1, <1>8, DropSound
  <2>2. UNCHANGED <<target, walk>>
    BY <1>8 DEF Drop, DropEntry, DropPath
  <2> QED
    BY <1>1, <2>1, <2>2 DEF OwnInv, WalkInv, N, S
<1>9. CASE UNCHANGED vars
  BY <1>1, <1>9 DEF OwnInv, WalkInv, TypeOK, vars, around, N, S
<1> QED
  BY <1>2, <1>3, <1>4, <1>5, <1>6, <1>7, <1>8, <1>9, NextCases

\* The inductive invariant behind the next two theorems.
THEOREM Invariance == Spec => []OwnInv
<1>1. Init => OwnInv
  BY OwnInit
<1>2. OwnInv /\ [Next]_vars => OwnInv'
  BY OwnStep
<1> QED
  BY <1>1, <1>2, PTL DEF Spec

\* Every variable of file serving keeps its type.
THEOREM TypeCorrect == Spec => []TypeOK
<1>1. OwnInv => TypeOK
  BY DEF OwnInv
<1> QED
  BY <1>1, Invariance, PTL

\* resolveIndexPath, the two keys of a directory, the two caches and Preload
\* never answer a URL with another URL's file.
THEOREM OwnFileOnly == Spec => []AnsweredWithOwnFile
<1>1. OwnInv => AnsweredWithOwnFile
  BY DEF OwnInv, AnsweredWithOwnFile, Sound, SoundRequest, Content
<1> QED
  BY <1>1, Invariance, PTL

-----------------------------------------------------------------------------
(* With requests kept away during SIGHUP, answers are fresh.               *)

\* The caches as a request that begins now will find them: what is still to
\* be flushed does not count.
Nothing == [u \in Urls |-> NoEntry]
FlushedFiles == IF hup = "flushfiles" THEN Nothing ELSE fcache
FlushedPaths == IF hup = "idle" THEN pcache ELSE Nothing

FreshInv ==
    /\ TypeOK
    /\ WalkInv
    /\ Covers(named, seen)
    /\ hup # "idle" => walk.at = "serving" /\ \A g \in Procs : req[g].at = "idle"
    /\ Sound(named, seen, FlushedFiles, FlushedPaths, req)

LEMMA FreshInit == Init => FreshInv
<1> SUFFICES ASSUME Init PROVE FreshInv
  OBVIOUS
<1>1. Covers(named, seen)
  <2>1. 1 \in Versions
    BY DEF Versions
  <2> QED
    BY <2>1, UrlsAssumption DEF Init, Covers
<1>2. hup = "idle" /\ FlushedFiles = fcache /\ FlushedPaths = pcache
  BY DEF Init, FlushedFiles, FlushedPaths
<1> QED
  BY <1>1, <1>2, InitTyped, InitSound DEF FreshInv

LEMMA FreshStep ==
    ASSUME drain = "requests", FreshInv, [Next]_vars
    PROVE  FreshInv'
<1>1. /\ TypeOK /\ WalkInv /\ Covers(named, seen)
      /\ hup # "idle" => walk.at = "serving" /\ \A g \in Procs : req[g].at = "idle"
      /\ Sound(named, seen, FlushedFiles, FlushedPaths, req)
  BY DEF FreshInv
<1>2. hup = "idle" => Sound(named, seen, fcache, pcache, req)
  BY <1>1 DEF FlushedFiles, FlushedPaths
<1>3. ASSUME hup = "idle", TypeOK', WalkInv',
             Sound(named, seen, fcache', pcache', req'),
             UNCHANGED <<target, content, hup, named, seen>>
      PROVE  FreshInv'
  BY <1>1, <1>3 DEF FreshInv, Covers, FlushedFiles, FlushedPaths
<1>4. CASE Preload
  <2>1. hup = "idle"
    BY <1>1, <1>4 DEF Preload, PreloadVisit, PreloadStat, PreloadRead, PreWarm,
                        StartServing
  <2>2. UNCHANGED <<target, content, hup, named, seen>>
    BY <1>4 DEF Preload, PreloadVisit, PreloadStat, PreloadRead, PreWarm,
                        StartServing
  <2>3. TypeOK' /\ WalkInv' /\ Sound(named, seen, fcache', pcache', req')
    BY <1>1, <1>2, <1>4, <2>1, PreloadSound
  <2> QED
    BY <1>3, <2>1, <2>2, <2>3
<1>5. CASE \E g \in Procs, u \in Urls : Begin(g, u)
  <2>1. PICK g \in Procs, u \in Urls : Begin(g, u)
    BY <1>5
  <2>2. hup = "idle"
    BY <2>1 DEF Begin
  <2>3. UNCHANGED <<target, content, hup, named, seen, walk>>
    BY <2>1 DEF Begin, around
  <2>4. TypeOK' /\ Sound(named, seen, fcache', pcache', req')
    BY <1>1, <1>2, <2>1, <2>2, BeginSound
  <2>5. WalkInv'
    BY <1>1, <2>3 DEF WalkInv
  <2> QED
    BY <1>3, <2>2, <2>3, <2>4, <2>5
<1>6. CASE \E g \in Procs : Serve(g)
  <2>1. PICK g \in Procs : Serve(g)
    BY <1>6
  <2>2. hup = "idle"
    <3>1. req[g].at # "idle"
      BY <2>1 DEF Serve, MiddlewarePathSafe, MiddlewareStore, HandlerPath, HandlerGet,
                  Stat, CheckIndex, StatIndex, Recheck, ReadFile, PutEntry, Finish, Answered
    <3> QED
      BY <1>1, <3>1
  <2>3. UNCHANGED <<target, content, hup, named, seen, walk>>
    BY <2>1, ServeKeeps
  <2>4. TypeOK' /\ Sound(named, seen, fcache', pcache', req')
    BY <1>1, <1>2, <2>1, <2>2, RequestSound
  <2>5. WalkInv'
    BY <1>1, <2>3 DEF WalkInv
  <2> QED
    BY <1>3, <2>2, <2>3, <2>4, <2>5
<1>7. CASE HUPReload
  <2>1. /\ hup = "idle" /\ hup' = "flushfiles" /\ walk.at = "serving"
        /\ \A g \in Procs : req[g].at = "idle"
        /\ UNCHANGED <<target, content, walk>>
    BY <1>7 DEF HUPReload
  <2>2. TypeOK' /\ Sound(named, seen, fcache', pcache', req')
    BY <1>1, <1>2, <1>7, <2>1, ReloadSound
  <2>3. /\ named' = [u \in FileUrls |-> {target[u]}]
        /\ seen' = [f \in Files |-> {content[f]}]
    BY <1>7 DEF HUPReload
  <2>4. Covers(named, seen)'
    BY <1>1, <2>1, <2>3 DEF Covers, TypeOK
  <2>5. ASSUME NEW g \in Procs
        PROVE  req'[g].at = "idle" /\ SoundRequest(named', seen', req'[g])
    <3>1. req'[g].at = req[g].at
      BY <1>1, <1>7 DEF HUPReload, TypeOK
    <3>2. SoundRequest(named, seen, req'[g])
      BY <2>2 DEF Sound
    <3> QED
      BY <2>1, <3>1, <3>2 DEF SoundRequest
  <2>6. FlushedFiles' = Nothing /\ FlushedPaths' = Nothing
    BY <2>1 DEF FlushedFiles, FlushedPaths
  <2>7. Sound(named, seen, FlushedFiles, FlushedPaths, req)'
    BY <2>5, <2>6 DEF Sound, SoundEntries, SoundPaths, Nothing
  <2> QED
    BY <1>1, <2>1, <2>2, <2>4, <2>5, <2>7 DEF FreshInv, WalkInv
<1>8. CASE HUPFlushFiles
  <2>1. /\ hup = "flushfiles" /\ hup' = "flushpaths" /\ fcache' = Nothing
        /\ UNCHANGED <<target, content, pcache, walk, req, named, seen>>
    BY <1>8 DEF HUPFlushFiles, Nothing
  <2>2. TypeOK'
    BY <1>1, <1>8 DEF HUPFlushFiles, TypeOK
  <2>3. FlushedFiles' = FlushedFiles /\ FlushedPaths' = FlushedPaths
    BY <2>1 DEF FlushedFiles, FlushedPaths
  <2> QED
    BY <1>1, <2>1, <2>2, <2>3 DEF FreshInv, WalkInv, Covers
<1>9. CASE HUPFlushPaths
  <2>1. /\ hup = "flushpaths" /\ hup' = "idle" /\ pcache' = Nothing
        /\ UNCHANGED <<target, content, fcache, walk, req, named, seen>>
    BY <1>9 DEF HUPFlushPaths, Nothing
  <2>2. TypeOK'
    BY <1>1, <1>9 DEF HUPFlushPaths, TypeOK
  <2>3. FlushedFiles' = FlushedFiles /\ FlushedPaths' = FlushedPaths
    BY <2>1 DEF FlushedFiles, FlushedPaths
  <2> QED
    BY <1>1, <2>1, <2>2, <2>3 DEF FreshInv, WalkInv, Covers
<1>10. CASE Deploy
  <2>1. /\ TypeOK' /\ WalkInv'
        /\ UNCHANGED <<listing, drain, fcache, pcache, hup, hups, walk, req>>
    BY <1>1, <1>10, DeployTyped
  <2>2. /\ \A u \in FileUrls : named[u] \subseteq named'[u]
        /\ \A f \in Files : seen[f] \subseteq seen'[f]
        /\ \A u \in FileUrls : target'[u] \in named'[u]
        /\ \A f \in Files : content'[f] \in seen'[f]
    BY <1>1, <1>10 DEF Deploy, Edit, Delete, Write, Retarget, TypeOK, Covers
  <2>3. Covers(named, seen)'
    BY <2>1, <2>2 DEF Covers, TypeOK
  <2>4. FlushedFiles' = FlushedFiles /\ FlushedPaths' = FlushedPaths
    BY <2>1 DEF FlushedFiles, FlushedPaths
  <2>5. Sound(named', seen', FlushedFiles, FlushedPaths, req)
    <3>1. /\ named \in [FileUrls -> SUBSET Files] /\ named' \in [FileUrls -> SUBSET Files]
          /\ seen \in [Files -> SUBSET Versions] /\ seen' \in [Files -> SUBSET Versions]
      BY <1>1, <2>1 DEF TypeOK
    <3> QED
      BY <1>1, <2>2, <3>1, SoundGrows
  <2> QED
    BY <1>1, <2>1, <2>3, <2>4, <2>5 DEF FreshInv
<1>11. CASE Drop
  <2>1. UNCHANGED <<target, content, hup, walk, req, named, seen>>
    BY <1>11 DEF Drop, DropEntry, DropPath
  <2>2. TypeOK'
    BY <1>1, <1>11 DEF Drop, DropEntry, DropPath, TypeOK
  <2>3. \A u \in Urls : /\ fcache'[u] \in {fcache[u], NoEntry}
                        /\ pcache'[u] \in {pcache[u], NoEntry}
    BY <1>1, <1>11 DEF Drop, DropEntry, DropPath, TypeOK
  <2>4. \A u \in Urls : /\ FlushedFiles'[u] \in {FlushedFiles[u], NoEntry}
                        /\ FlushedPaths'[u] \in {FlushedPaths[u], NoEntry}
    BY <2>1, <2>3 DEF FlushedFiles, FlushedPaths, Nothing
  <2>5. Sound(named, seen, FlushedFiles', FlushedPaths', req)
    BY <1>1, <2>4 DEF Sound, SoundEntries, SoundPaths
  <2> QED
    BY <1>1, <2>1, <2>2, <2>5 DEF FreshInv, WalkInv, Covers
<1>12. CASE UNCHANGED vars
  BY <1>1, <1>12 DEF FreshInv, WalkInv, TypeOK, Covers, FlushedFiles, FlushedPaths, vars, around
<1> QED
  BY <1>4, <1>5, <1>6, <1>7, <1>8, <1>9, <1>10, <1>11, <1>12, NextCases

LEMMA NextKeepsDrain ==
    ASSUME [Next]_vars
    PROVE  drain' = drain
BY ServeKeeps DEF Next, vars, around, Preload, PreloadVisit, PreloadStat, PreloadRead, PreWarm,
       StartServing, Begin, HUPReload, HUPFlushFiles, HUPFlushPaths, Edit, Delete, Write,
       Retarget, DropEntry, DropPath

\* When no request is served while SIGHUP is handled, the flushes of handleHUP
\* do what the user guide says: later requests see the disk.
THEOREM FreshCorrect == Spec => []FreshWhenDrained
<1> DEFINE Inv == drain = "requests" => FreshInv
<1>1. Init => Inv
  BY FreshInit
<1>2. Inv /\ [Next]_vars => Inv'
  <2> SUFFICES ASSUME Inv, [Next]_vars, drain' = "requests" PROVE FreshInv'
    OBVIOUS
  <2> QED
    BY NextKeepsDrain, FreshStep
<1>3. Inv => FreshWhenDrained
  <2> SUFFICES ASSUME FreshInv, NEW g \in Procs,
                      req[g].at \in Answered \ {"failed", "listing"}
               PROVE  \E f \in named[NameOf(req[g].url)] :
                          /\ req[g].at = "ok" => req[g].file = f
                          /\ req[g].data \in seen[f]
    BY DEF FreshWhenDrained, FreshSinceFlush
  <2>1. SoundRequest(named, seen, req[g])
    BY DEF FreshInv, Sound
  <2> QED
    BY <2>1 DEF SoundRequest, Content, Answered
<1> QED
  BY <1>1, <1>2, <1>3, PTL DEF Spec

=============================================================================

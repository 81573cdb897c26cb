# Verification of static-web

TLA+ models of `static-web`, a static file server in Go on top of fasthttp. The
models are translated from the code under `src/`; TLC checks them on small
instances and TLAPS proves theorems about seven of them for every instance.
`PROJECT.json` names, for every definition, the source lines it stands for.

## The system

`serve` (`cmd/static-web/main.go`) reads the configuration, creates the file
cache, optionally preloads it and warms the path cache, builds the handler chain,
binds the listeners and then waits for signals. A request passes through
`security.Middleware` (path check, path cache, CORS), the compression middleware
and `FileHandler.HandleRequest`, which answers from the file cache or from disk.

| Component | State | Operations | Used by | What is hard | Correct means |
|---|---|---|---|---|---|
| File cache, `cache/cache.go` | LRU map, byte counter, mutex, expiry in each entry | `Get`, `removeIfSame`, `Put`, `Flush` | every request goroutine, preload, SIGHUP | `Get` reorders the LRU without the mutex `Put` holds; the counter is kept beside the map; expiry is decided before the removal | counter = contents, contents <= max_bytes, no eviction without need, a fresh entry is never expired, calls return |
| Preload, `cache/preload.go` | none of its own | one walk of the tree | `serve`, before listening | the same file under two keys; links; statistics | entries equal what a request would store |
| Path cache, `security/security.go` | LRU of resolved paths | `Lookup`, `Store`, `PreWarm`, `Flush` | middleware and handler, separately | entries outlive a link that is switched; two lookups per request | never used after the flush it should have been dropped by |
| Path check, `security/security.go` | none | `PathSafe`, `Middleware` | requests, index resolution | check and use of a path are separate | a request reaches only files its URL names |
| File handler, `handler/file.go` | none | `HandleRequest`, `resolveIndexPath`, `serveFromDisk`, `serveEmbedded` | requests | two lookups under different keys; stat, read and store are separate steps | each URL gets its own file, fresh after SIGHUP, with consistent metadata |
| Ranges, `handler/file.go` | none | `parseRange`, `serveRange`, `ifRangeAllowsRange` | requests | clamping, amplification, many small cases | RFC 9110, section 14 |
| Large files, `handler/file.go` | one file handle per request | `serveLargeFile` | requests | early returns and the hand-over of the handle to the body stream; stat before open | handle closed exactly once, one version per response |
| Conditional requests, `headers/headers.go` | none | `CheckNotModified`, `ETagMatches`, `AddVary`, `SetCacheHeaders` | handler | precedence of two validators; Vary merged by several layers | 304 only for a copy the client has |
| Server life cycle, `server/*.go`, `main.go` | listeners, error channels, contexts, signals | `Start`, serve loops, `Shutdown`, `RunSignalHandler`, end of `serve` | the process | five kinds of goroutine; sends on channels that are closed; dropped signals; deadlines | truthful exit code, nothing blocks, the process ends when asked |
| Compression, `compress/compress.go` | none | negotiation, gzip middleware | requests | `q` values; works on the finished response | response matches what the client accepts and what caches are told |
| Configuration, `config/config.go`, `main.go` | every configuration built, and which one is in force where | defaults, file, environment, flags, `Validate` | start-up, SIGHUP | precedence; the file changes between the steps of loading it; parts of one setting come from several layers | the strongest layer wins, nothing invalid runs, handlers keep what they started with |
| Directory listing, `handler/dirlist.go` | none | `serveDirectoryListing` | index resolution | the file cache answers before it is considered | listing instead of index files |
| Middleware chain, `handler/middleware.go` | none | `BuildHandler`, recovery, logging | every request | what a layer sets, a later one may reset or contradict | every response is consistent and says what it depends on |
| Redirect, embedded assets, subcommands | none | | | | |

Third-party code (the LRU library, fasthttp, the Go runtime's signal delivery),
the file system and the clients are external: they are modelled from the way the
code uses them.

## Modules

| Module | What it models |
|---|---|
| `SizedStore` | abstract: a bounded store that may forget, and stores in one step within its limit |
| `FileCache`, `MCFileCache` | the file cache; implements `SizedStore` |
| `FileCacheProofs` | proofs about `FileCache` |
| `FileServing`, `MCFileServing` | start-up (`Preload`, `PreWarm`), then GETs through middleware and handler, path cache, listing, deployments and SIGHUP; uses the file cache as the store that `SizedStore` describes |
| `FileServingProofs` | proofs about `FileServing` |
| `RangeParse` | the loop of `parseRange` as a state machine |
| `RangeParseProofs` | proofs about `RangeParse` |
| `RangeServing`, `MCRangeServing` | conditional and range requests from memory and disk; runs `RangeParse` as a part |
| `RangeServingProofs` | proofs about `RangeServing`, on top of those about `RangeParse` |
| `ServeLifecycle` | start, serve loops, signals, shutdown and exit of the process |
| `ServeLifecycleProofs` | proofs about `ServeLifecycle` |
| `Responses` | the response of the handler chain to one request, as operators: negotiation, compression, ranges, CORS, Vary, 304, errors |
| `SharedCache`, `MCSharedCache` | clients behind one HTTP cache that stores and revalidates what `Responses` answers |
| `SharedCacheProofs` | proofs about `SharedCache` |
| `Config`, `MCConfig` | building the configuration at start-up and SIGHUP while the file changes, and who uses which one |
| `ConfigProofs` | proofs about `Config` |

### FileCache

`lru` and `val` are the LRU map, `curBytes` the atomic counter, `mu` its mutex,
`expiresAt` the field of each `*CachedFile`. A file is a pointer with a
`totalSize`; `Loads` says what reading the file behind a key can yield, so that a
key with two objects of different size is a file that was edited. A step is one
critical section or one iteration of `Put`'s eviction loop: `GetLookup`,
`GetCheck`, `RemoveIfSame`; `PutCall`, `PutLock`, `PutEvict`, `PutAdd`; `Flush`.
`Get`s fall between any two steps of a `Put`. `Init` is the empty cache of
`NewCache`. With `Preload`, Puts come one after the other until `StartServing`,
and only then Gets and flushes; among them is the second `Put` of an index file, the
same object under its directory's key (`StoredByPreload`). After that every `Put`
has a newly read file. `Stats` only reads.

The runs measure memory on the entries (`ResidentBytes`), never on the counter.
`drifted` is a ghost: since the last `Flush` some `Put` has evicted the entry that
it had already subtracted (see Findings). Until then everything holds for files of
any size, and the properties say so: `ByteAccounting`, `CeilingUntilDrift`, and
the refinement, which promises an empty store while the counter is off.

### FileServing

A request is the record `req[g]`, and every system call and cache access is a
step: `Begin`, `MiddlewarePathSafe`, `MiddlewareStore`, `HandlerPath`,
`HandlerGet`, `Stat`, `CheckIndex`, `StatIndex`, `Recheck`, `ReadFile`, `PutEntry`. `target` is
what a URL resolves to, `content` the version of each file. Deployments edit,
delete and relink at any time; `HUPReload`, `HUPFlushFiles` and `HUPFlushPaths`
are `handleHUP`. `DropEntry` stands for eviction, expiry and refused entries, so
no TTL appears. The path cache exists only with `cache.preload`
(`main.go:210`), which `PathCaching` follows. With it the model starts in
`Preload`: `walk` takes the names in any order, `PreloadVisit`, `PreloadStat` and
`PreloadRead` are the system calls between which a file may change, `PreWarm`
checks and stores one path, and `StartServing` ends the start-up. A file that a link
leads to is stored under its own path, `OwnUrl`. A link may lead to one of the
`OutsideFiles`: then pathSafe rejects the URL (`Rejected`), for a request, for the
index file of a directory (`CheckIndex`) and in `PreWarm`, and Preload skips it.
`named` and `seen` are ghosts: what a URL named and a file contained since the last
SIGHUP. `drain` is chosen at the start: whether the operator keeps requests away
from the server during a SIGHUP, only while sending it, or not at all.

The cache key of a directory with a trailing slash is its index file, that of a
directory without one is itself; a directory filled under the canonical URL is
looked up under both. Missing files are answered with an embedded asset or 404.
With `listing`, a directory is answered with its entries by `Stat`; only the file
cache comes earlier. Left out: permission errors, custom 404 pages as files (they
are read at start-up), and which variants an entry has (see `Responses`).

### RangeParse and RangeServing

The parser keeps `parseRange`'s loop: position, number of specs, total, ranges,
and its four ways out. An element of the header is `Blank`, `NoDash` or a pair
of numbers, each possibly absent or not a number. `RangeServing` puts the parser
into the two handlers: in memory (`serveRange`) and from disk (`serveLargeFile`),
which share `CheckNotModified` and `ifRangeAllowsRange`. A small file is either `cached`
or has just been read, and then `serveFromDisk` does not look at the conditions.
A request knows the version `os.Stat` saw (`info`); `disk` may move on; `handle` is the open file, its
version fixed by `Open`. ETags are weak throughout the code, so a tag in If-Range
never matches and only dates are modelled, to the second. The framing of a
multipart body is left out: its length is that of its parts.

### ServeLifecycle

`main` is the main goroutine's place in `Start`, `serve`, `RunSignalHandler` and
`handleShutdown`; `loop` the serve loops; `fwd` the forwarder of `main.go:260`;
`errCh`, `serveErr`, `ctxDone`, `stopping`, `sigCh` the channels, context and
flag they share. A serve loop tests `stopping` and sends in two steps.
`ShutdownWithContext` closes the listener and then waits for connections or its
context. A signal before `signal.Notify` kills the process; afterwards it goes
into `sigCh` if there is room. What SIGHUP does to the caches is in
`FileServing`, what it does to the configuration in `Config`; of the latter only
the shutdown timeout is used again, which has no length here.

### Responses and SharedCache

`Answer(cfg, f, q)` is the chain of `BuildHandler` as nested operators, each
named for its function: `SecurityMiddleware`, `CORS`, `CompressMiddleware`,
`HandleRequest`, and `ServeFromCache`, `ServeLarge`, `ServeEmbedded`,
`ServeNotFound`, `ServeDirectoryListing` below it. A response keeps what two
layers can disagree about: status, Vary, Access-Control-Allow-Origin, validators,
the coding announced, the coding the body has, the coding whose size
Content-Length is, Content-Range, and whether the body is a stream. `CtxError`
resets all of them, as fasthttp's `ctx.Error` does; `SendError` keeps them. An
Accept-Encoding is a sequence of codings with a weight that is zero or not.

`SharedCache` adds state: the resource, which deployments replace, and one stored
response in an HTTP cache (RFC 9111), which is external. It stores answers to GET,
selects by the request headers that the stored Vary names, and updates what it
has from a 304. `Received(q)` is all that a client asking `q` can get at a moment.

### Config

`build` walks through `loadConfig`: `FindFile` (the `os.Stat` of the default
file), `StatFile` and `DecodeFile` (`Load`), `ApplyLayers` (environment, flags,
`Validate`). `Edit` replaces, creates or removes the file between any two of
them. `objects` are the configurations that have been built; `inForce` is what
`*cfgPtr` points to and `serving` what handlers and listeners hold, so that
sharing would show. `HandleHUP` builds again; a build that fails ends the process
at start-up and is dropped at SIGHUP. Nine fields stand for all: two addresses,
whose parts flags replace one by one, the two halves of a certificate, a plain
number, the cache switch with the size it conditions, and the compression switch
with its level. `ParseBytes` computes in `int64` (`MaxInt`).

## Runs

| Run | Instance | Shows |
|---|---|---|
| `cache` | Preload on; 2 goroutines, 3 keys, of which one is the directory of another; files of sizes 1/4 and 1/5, max_bytes 4, item limit 2, TTL 1, 2 clock ticks, 2 lookups | `TypeOK`, `CacheInv`, `CounterCeiling`, `ByteAccounting`, `CeilingUntilDrift`, the refinement `ImplementsStore`, `ExpiryDropsOnlyExpired`, `EvictsOnlyForRoom`, `DriftsOnlyOnGrowth`, and `CallsReturn` under fairness |
| `cache_ceiling` | the same sizes, no Preload, no lookups | **violation** of `MemoryCeiling` |
| `serving` | 1 request at a time on `/`, `/index.html`, `/docs`, `/docs/index.html` (a link to a page inside the root or to one outside it) and a rejected name, after the start-up walk, with and without listing; 1 edit (above max_file_size), deletions, 1 SIGHUP with traffic kept away or not | `TypeOK`, `AnsweredWithOwnFile`, `FreshWhenDrained` |
| `serving_order` | 2 requests, a link to 2 releases, none in flight when SIGHUP is sent | **violation** of `FreshSinceFlush` |
| `serving_metadata` | one request, one edit | **violation** of `SizeIsLenOfData` |
| `serving_listing` | `/` and `/index.html`, listing on | **violation** of `ListingTakesPrecedence` |
| `lifecycle_tls` | HTTP and HTTPS, 1 SIGHUP, 2 SIGTERMs, 2 connections each | `TypeOK`, `FailedStartServesNothing`, `ReportNeverBlocks`, `ExitZeroOnlyWhenAsked`, `ExitZeroIsGraceful`, and under fairness `DeadLoopEndsProcess`, `LoneTermEndsProcess` |
| `lifecycle_lost` | HTTP, 1 SIGHUP, 1 SIGTERM | **violation** of `TermEndsProcess` |
| `range_all` | 15 forms of element, headers of up to 2 of them and of 3 from 4, 4 sizes, one of them above max_serve_file_size, max_ranges 2, an int of 4, 4 versions | `TypeOK`, `RangesInside`, `NoAmplification`, `AnswerAsRequested`, `HandleClosedOnce` |
| `sharedcache` | 5 configurations, 11 resources, 3 listed and unlisted origins and none, 4 Accept-Encodings, ranges and conditions | `TypeOK`, `AcceptableEncoding`, `OwnOriginUnlessUpdated`, `PartialIsIdentity`, `HeadParityUnlessRangeIgnored`, `RevalidationKeepsVary` |
| `sharedcache_head` | the same | **violation** of `HeadParity` |
| `config` | 5 layers as file and as environment, or malformed, or no file; 9 command lines; `--config` or not; 2 SIGHUPs; int64 of 5 bits | `TypeOK`, `RunningValid`, `StrongestLayerWins`, `GivenUpForAReason`, `HandlersKeepStart` |

### Why the bounds are enough

- Two goroutines give every pair of calls of the cache and every race of a fill
  with a flush. A third would only repeat their roles: `mu` orders the `Put`s.
  Three keys are what the double subtraction and the item limit need (the entry
  replaced, an older one, and one that stays). The sizes include a file that
  fills the cache alone and one that `Put` refuses. A file replaced by another of the
  same size is not in the instance; the theorems cover it.
- The clock needs two ticks after a TTL of one: stored, expired, replaced.
- One SIGHUP is enough for `FreshWhenDrained`, since the ghosts start afresh at
  each. A link can change before and after it, and back; one file can be edited
  and each file inside the root be deleted, the file outside it stays as it is.
- In `serving` one request at a time meets all entries that earlier requests
  left; deployments, flushes and evictions still fall between its steps. The theorems
  hold for any number.
- `MaxRanges` is 2 instead of 16, so that headers of three elements exceed it.
  The elements include every comparison the code makes, on both sides of it.
  `MTime` gives a version an older date than the one it replaces. Conditional
  headers are combined with three Range headers only.
- `SharedCache` has no counter: the run is complete for its requests and files.
  Two listed origins and an unlisted one are what one client can be told of
  another; the Accept-Encodings are none, gzip, gzip refused beside `*`, and
  Brotli before gzip. Sizes lie below, at and above the two compression limits.
- `Config`: every layer is malformed, absent or sets a different part of the pairs
  that `Validate` relates, so valid parts that do not fit together occur, and so
  does each default. Two SIGHUPs: one after a good build and one after a failed
  one. With a 5-bit int64 a size wraps around to a positive number.
- Two SIGTERMs cover the second one that arrives during the shutdown; one SIGHUP
  occupies the one slot of `sigCh`.

Deadlock is checked in the cache, serving and shared-cache runs. A process that
has exited and a request that has been answered stop, so the other runs disable
the check.

### Fairness

`FileCache`: a goroutine inside a call keeps running, and `sync.Mutex` passes the
lock to a waiter that has starved for a millisecond; hence strong fairness of
each goroutine's steps. Nothing is assumed of new calls. `ServeLifecycle`: the Go
scheduler runs goroutines that can run, and a `context.WithTimeout` expires; hence
weak fairness of the main goroutine, the forwarder, the closer, each loop, each
shutdown and the deadline. Failures, clients and signals are not fair.

## Findings

- **max_bytes is exceeded** (`cache_ceiling`, `cache.go:255`). `Put` subtracts the
  entry it replaces but leaves it in the LRU; if the eviction loop then removes
  that entry, `onEvict` subtracts it again, and the loop ends too early. This
  needs the replacement to be larger than what it replaces: with equal sizes
  there is room at once and the loop does not run (theorem `CeilingHolds`).
- **SIGHUP's order** (`serving_order`, `signals.go:81`): files are flushed before
  paths, so a request in between fills the new file cache through an old path,
  even when nothing was in flight as the signal arrived. A fill that is in flight
  across the flush restores the old file as well (`file.go:352`); the guide speaks of
  new requests only. `FreshWhenDrained` shows that without such overlaps nothing does.
- **Metadata of another version** (`serving_metadata`, `file.go:297`): size and
  date are from before the read.
- **Listing or index** (`serving_listing`, `file.go:103`): the file cache is asked
  under the key of the index file before `resolveIndexPath` decides, so `/` is
  listed until something has cached `/index.html`, and then answered with it.
  `file.go:153` gives the listing precedence.
- **HEAD and an ignored Range** (`sharedcache_head`, `file.go:827`, `compress.go:195`):
  if a Range header is malformed, asks for too much or comes with another If-Range,
  `serveRange` sends the identity body, which the compression middleware then
  compresses for GET and cannot for HEAD: Content-Length and Content-Encoding
  differ, where the comment at `vary_conditional_test.go:115` promises the same.
  `HeadParityUnlessRangeIgnored` excepts the length in that case and no other.
- **A lost SIGTERM** (`lifecycle_lost`, `signals.go:44`): the runtime drops it when
  a SIGHUP occupies the only slot. With no SIGHUP every SIGTERM works
  (`LoneTermEndsProcess`).

Observed while modelling, and described here because the checked properties
either except them or do not see them:

- `ctx.Error` resets the response, so 403, 413 and 500 from the handler and
  recovered panics lose the security headers, CORS and Vary that the comment at
  `security.go:259` promises "on every response, including errors".
- A response to a client without an origin, or with one that is not listed, does
  not say `Vary: Origin`. A shared cache may therefore revalidate it with client
  A's request and, updated with A's Access-Control-Allow-Origin, give it to B.
  `docs/HARDENING_PLAN_2026-10.md:23` lists the matter as fixed;
  `OwnOriginUnlessUpdated` holds with the exception its name states.
- `serveLargeFile` decides If-Range and the ranges by `os.Stat` and opens the file
  afterwards (`file.go:403`); a file replaced in between is sent under the date and
  length of the old one.
- Sidecars are read after the file (`file.go:325`): an entry may hold a variant
  of another version than its data and its ETag, which all variants share.
- With `min_size = 0`, which `Validate` allows, the compression middleware compresses
  the empty body of a HEAD answer to a large file and announces gzip for it, while
  GET streams the file as it is (`compress.go:217`). TLC finds this in an initial state
  of `sharedcache` with `MinSize` 0; theorem `HeadLikeGet` assumes a positive one.
- A malformed address from file or environment whose port is replaced by `--port`
  loses its host without an error (`main.go:349`).
- If the default configuration file disappears between the `os.Stat` of
  `loadConfig` and that of `Load`, the load fails although the file is optional;
  `GivenUpForAReason` allows it by name.

## Proofs

From the named assumptions of the modules only (finite `Keys`, positive sizes and
limits, distinct "none" values; well-formed elements, layers and requests):

- `FileCacheProofs`, for any goroutines, keys, files, sizes, limits and TTL.
  `Inv` is inductive: `TypeOK`, the structural `CacheInv`, `CounterCeiling`,
  and `ByteAccounting`. `CacheInv` is needed because the accounting follows the
  LRU: the recency list holds exactly the cached keys (`Recency`), `mu` is held
  exactly inside `Put`'s critical section (`Mutex`), stored and held files are
  files of their key and fit (`Stored`, `Held`), the file being stored is private
  to its goroutine (`Private`), and a `Get` that will remove an entry holds an
  expired one (`Condemned`). `CounterCeiling` and `ByteAccounting` carry
  `Pending`, what the running `Put` has subtracted and not yet removed. Lemmas
  about the recency list (`WithoutLists`, `PromoteLists`, `TailLists`) and about
  bytes (`BytesOfStore`, `BytesOfDrop`, `BytesOfReplace`, by cardinalities of sets
  of pairs instead of a recursive sum) do the work for each action.
  From `Inv` follow `TypeCorrect`, `StructureCorrect`, `CounterCorrect`, `AccountingCorrect`,
  `CeilingUntilDriftHolds`, `CeilingHolds`, `DriftCorrect`, `EvictionCorrect`, `ExpiryCorrect`
  and `Refinement`: the steps of the cache map to steps of `SizedStore` or to stuttering.
- `FileServingProofs`, for any tree, links, goroutines, versions and number of
  SIGHUPs: `TypeCorrect`, `OwnFileOnly` and `FreshCorrect`.
  `AnsweredWithOwnFile` is not inductive: an answer is right only because the
  cache entry, the cached path and what the request resolved before it are. The
  invariant `Sound(N, S)` says so of all of them, for files `N` that URLs may name
  and versions `S` that files may have, and every step of a request
  (`RequestSound`) and of Preload (`PreloadSound`) keeps it. It is used twice: with
  all links and versions it yields `OwnFileOnly`, and with `named` and `seen`, what
  there has been since the last flush, `FreshCorrect`. There `FreshInv` also
  says what is empty between the two flushes; it assumes that requests are drained
  (`drain = "requests"`), without which `serving_order` finds a stale answer.
- `RangeParseProofs`, for headers of any length, contents of any size and any
  `MaxRanges`: the loop invariant, and from it `RangesInsideContent` and
  `RangesBounded`.
- `RangeServingProofs`, for the same and any versions and dates: all properties of
  the run, agreement with RFC 9110 (`RangesAsRequested`) among them. What the RFC
  asks for is stated without recursion: `Wanted` is the set of places in the header
  whose elements are satisfiable, the range for a place is at its rank in that set,
  and the length of a 206 is a number of pairs of place and byte. `PrefixInv` says
  that the parse loop agrees with this on the prefix it has read, and there is one
  lemma for each way the loop goes on or ends. `FlowInv` adds that a response is
  the answer to the question the parser has settled, and what the handler has
  found out by each of its places; `HandleInv` says at which of them a file is
  open; `HandleCorrect` follows.
- `ServeLifecycleProofs`, with and without TLS, for any capacity of `sigCh` and
  `errCh` and any number of signals and connections: all five safety properties of
  the run. None is inductive, since each compares goroutines that have moved on
  independently. `Inv` adds what they owe each other: a loop runs only after `Spawn`
  and no shutdown is asked for before a signal or error (`StartInv`); the errors in
  `errCh` are at most the loops that are done, and it is closed only when all are
  (`ChannelInv`); the context is cancelled only after the error is in `serveErr`,
  where it stays until `serve` takes it (`ReportInv`, from which exit code 0 after
  a dead loop is impossible); a server that drains accepts nothing more
  (`DrainInv`). `ReportsNeverBlock` assumes that `errCh` has room for one error per
  server: `server.go:173` makes it 2, and there are two servers at most.
- `SharedCacheProofs`, for any sets of configurations, resources and requests,
  headers of any length and any number of origins: all six properties of the run. For
  `CodingsAcceptable` and `OriginsOwn`, `IInv` says of the stored response that it
  is honest about the request it answered (`StoredHonest`): a negotiated coding
  is acceptable to that request and Vary names Accept-Encoding, an origin is that
  request's and Vary names Origin. Selection alone would not do: what is selected
  is right only because Vary is. `AnswerHonest` proves the same of every answer of
  the chain, layer by layer, and each action of the cache keeps it. The lemmas named
  `...Fields` say what each layer makes of a response that no handler has touched
  (`Bare`). `PartsOfContent` follows from them and `StoredPartial`, the same of the
  stored response. For `RevalidationCorrect` every answer of a file has the headers
  of a file, 304 or not (`AnswerOfFile`), and only files have a 304.
  `HeadLikeGet` compares a GET and a HEAD through the chain (`Twins`): they stay equal
  or differ in the body alone, and then the middleware compresses neither, as a
  cached file has its variant already (`CachedNotCompressed`), a large one is a stream,
  and no body at all is smaller than `min_size`; it only compresses the listing of GET,
  for which HEAD states no length, and the identity body of a GET whose Range is
  ignored (`RangeTwins`), which the property excepts. It assumes `MinSize > 0`.
- `ConfigProofs`, for any layers, defaults, command lines, `MaxInt` and number of
  SIGHUPs: all five properties of the run. `IInv` adds to the types what the
  configuration under construction is at each point of the build (`BuildInv`), and
  that every object built is valid and the layering of its source
  (`ObjectsInv`). `SizeExact` shows that a size that parses does not wrap around,
  and `LayeredStrongest` that the order of the overlays is the precedence.

`CeilingHolds`, that the ceiling holds for good, assumes `FixedSizes`, that no file
changes size; `cache_ceiling` shows that it fails without. What happens without the
assumption of `HeadLikeGet` is under Findings.

Only model-checked is liveness: `CallsReturn`, `DeadLoopEndsProcess` and
`LoneTermEndsProcess`, since TLAPS does not handle fairness. Every other property of
a passing run is a theorem.

## Not modelled

- Strings: the cleaning of paths and the prefix comparison in `PathSafe`, the
  checks of sidecar paths, patterns and max-age values of Cache-Control, the
  authority of the redirect, multipart framing, the rendering of a listing.
- Constant headers (CSP, HSTS, nosniff): set in one place and reset in one
  (`CtxError`), with no property that tells them apart.
- The compressors, which are taken to succeed; logging, which only reads; the
  construction of the fasthttp servers and their listener options.
- Preload's statistics, which are only logged.
- The subcommands `init` and `version` and the benchmarks, which are no part of
  the server.
- Sidecars read while a deployment runs: `FileServing` gives an entry one version.

## Plan

Done, in this order: `SizedStore` and `FileCache` with its proofs; `FileServing`;
`ServeLifecycle`; `RangeParse` with its proofs and `RangeServing`; `Responses` and
`SharedCache` with proofs; `Config` with proofs; the start-up walk and directory
listing in `FileServing`, and its proofs; the proofs about `ServeLifecycle` and
`RangeServing`, and the rest of those about `SharedCache`.

1. Sidecars as files of their own in `FileServing`, with versions.
2. The bytes of a large file that is replaced between `os.Stat` and `os.Open`.

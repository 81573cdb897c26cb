------------------------------ MODULE FileCache ------------------------------
(***************************************************************************)
(* The in-memory file cache (internal/cache/cache.go): a byte-bounded LRU  *)
(* shared by every request goroutine, the start-up preloader and the       *)
(* SIGHUP handler.                                                         *)
(*                                                                         *)
(* The cache is two structures that must agree.  The third-party LRU map   *)
(* has its own lock and calls onEvict for every entry it drops; curBytes   *)
(* is an atomic counter that onEvict, Put and Flush adjust.  Put, Flush    *)
(* and removeIfSame serialise on mu, but Get reads (and reorders) the LRU  *)
(* without mu, so a Get may fall between any two steps of a Put.           *)
(*                                                                         *)
(* A file is a pointer: its contents never matter here, only its identity  *)
(* and its totalSize.  One step of the model is one critical section, or   *)
(* one iteration of the eviction loop, of the code.                        *)
(*                                                                         *)
(* Until the listeners are bound only Preload uses the cache, one Put      *)
(* after the other; an index file goes in twice, the same pointer under    *)
(* its own path and under its directory's.                                 *)
(***************************************************************************)
EXTENDS Integers, Sequences, FiniteSets

CONSTANTS
    Procs,      \* goroutines that call the cache
    Keys,       \* URL paths
    Objects,    \* *CachedFile pointers
    NoFile,     \* the nil *CachedFile
    NoProc,     \* mu is free
    NoKey,      \* no path: the goroutine is outside the cache
    SizeOf,     \* totalSize of each object
    Loads,      \* the objects that reading the file behind a key can yield
    MaxBytes,   \* maxBytes
    MaxItems,   \* maxLRUItems
    TTL,        \* ttl; 0 means entries do not expire
    Preload,    \* cache.preload: Preload runs before requests are served
    MaxClock,   \* bound: the last instant of the model
    MaxLookups  \* bound: Get calls counted by hits and misses

ASSUME KeysAssumption == IsFiniteSet(Keys)
ASSUME NoFileAssumption == NoFile \notin Objects
ASSUME NoProcAssumption == NoProc \notin Procs
ASSUME NoKeyAssumption == NoKey \notin Keys
ASSUME SizeAssumption == SizeOf \in [Objects -> Nat \ {0}]
ASSUME LoadsAssumption == Loads \in [Keys -> SUBSET Objects]
ASSUME LimitsAssumption == MaxBytes \in Nat \ {0} /\ MaxItems \in Nat \ {0}
ASSUME PreloadAssumption == Preload \in BOOLEAN
ASSUME ClockAssumption ==
    TTL \in Nat /\ MaxClock \in Nat /\ MaxLookups \in Nat

VARIABLES
    lru,        \* keys in the LRU, least recently used first
    val,        \* the entry stored under each key, NoFile if absent
    expiresAt,  \* ExpiresAt of each object, 0 for the zero time
    curBytes,   \* the byte counter
    hits,
    misses,
    mu,         \* the goroutine holding mu
    clock,
    pc,         \* where each goroutine is in its call
    key,        \* its path argument
    obj,        \* the file it holds: Get's result or Put's argument
    preloading, \* Preload is running: no request, no SIGHUP yet
    drifted     \* ghost: an entry was subtracted twice since the last Flush

vars == <<lru, val, expiresAt, curBytes, hits, misses, mu, clock, pc, key, obj,
          preloading, drifted>>

PCs == {"idle", "check", "expired", "lock", "evict"}

-----------------------------------------------------------------------------
(* The LRU library: recency list and entries.                              *)

Cached == {k \in Keys : val[k] # NoFile}

IndexOf(s, k) == CHOOSE i \in DOMAIN s : s[i] = k

\* s without its entry k.
Without(s, k) ==
    [i \in 1 .. (Len(s) - 1) |-> IF i < IndexOf(s, k) THEN s[i] ELSE s[i + 1]]

\* k becomes the most recently used key of s.
Promote(s, k) ==
    Append(IF \E i \in DOMAIN s : s[i] = k THEN Without(s, k) ELSE s, k)

-----------------------------------------------------------------------------
Init ==
    /\ lru = <<>>
    /\ val = [k \in Keys |-> NoFile]
    /\ expiresAt = [f \in Objects |-> 0]
    /\ curBytes = 0
    /\ hits = 0
    /\ misses = 0
    /\ mu = NoProc
    /\ clock = 0
    /\ pc = [g \in Procs |-> "idle"]
    /\ key = [g \in Procs |-> NoKey]
    /\ obj = [g \in Procs |-> NoFile]
    /\ preloading = Preload
    /\ drifted = FALSE

\* g's call returns; its references are dropped.
Return(g) ==
    /\ pc' = [pc EXCEPT ![g] = "idle"]
    /\ key' = [key EXCEPT ![g] = NoKey]
    /\ obj' = [obj EXCEPT ![g] = NoFile]

\* Get: c.lru.Get promotes the entry; mu is not held.
GetLookup(g, k) ==
    /\ ~preloading
    /\ pc[g] = "idle"
    /\ hits + misses < MaxLookups
    /\ IF k \in Cached
       THEN /\ lru' = Promote(lru, k)
            /\ obj' = [obj EXCEPT ![g] = val[k]]
            /\ pc' = [pc EXCEPT ![g] = "check"]
            /\ key' = [key EXCEPT ![g] = k]
            /\ UNCHANGED misses
       ELSE /\ misses' = misses + 1
            /\ UNCHANGED <<lru, pc, key, obj>>
    /\ UNCHANGED <<val, expiresAt, curBytes, hits, mu, clock, preloading, drifted>>

\* Get: the test of ExpiresAt against time.Now(), strictly after.
IsExpired(f) == expiresAt[f] # 0 /\ clock > expiresAt[f]

GetCheck(g) ==
    /\ pc[g] = "check"
    /\ IF IsExpired(obj[g])
       THEN /\ pc' = [pc EXCEPT ![g] = "expired"]
            /\ UNCHANGED <<hits, key, obj>>
       ELSE /\ hits' = hits + 1
            /\ Return(g)
    /\ UNCHANGED <<lru, val, expiresAt, curBytes, misses, mu, clock,
                   preloading, drifted>>

\* Mutant of RemoveIfSame: whatever is stored under the path is removed.
RemoveAny(g) ==
    /\ pc[g] = "expired"
    /\ mu = NoProc
    /\ IF key[g] \in Cached
       THEN /\ lru' = Without(lru, key[g])
            /\ val' = [val EXCEPT ![key[g]] = NoFile]
            /\ curBytes' = curBytes - SizeOf[val[key[g]]]
       ELSE UNCHANGED <<lru, val, curBytes>>
    /\ misses' = misses + 1
    /\ Return(g)
    /\ UNCHANGED <<expiresAt, hits, mu, clock, preloading, drifted>>

\* Get's expired path: removeIfSame under mu, then the miss is counted.
RemoveIfSame(g) ==
    /\ pc[g] = "expired"
    /\ mu = NoProc
    /\ IF val[key[g]] = obj[g]
       THEN /\ lru' = Without(lru, key[g])
            /\ val' = [val EXCEPT ![key[g]] = NoFile]
            /\ curBytes' = curBytes - SizeOf[obj[g]]
       ELSE UNCHANGED <<lru, val, curBytes>>
    /\ misses' = misses + 1
    /\ Return(g)
    /\ UNCHANGED <<expiresAt, hits, mu, clock, preloading, drifted>>

\* The objects no goroutine and no entry refers to: the allocator may hand
\* out any of them, as a new struct whose ExpiresAt is the zero time.
Unreferenced ==
    {f \in Objects : /\ \A k \in Keys : val[k] # f
                     /\ \A g \in Procs : obj[g] # f}

\* Preload has just stored the index file f under its own path and now stores it
\* under its directory's.
StoredByPreload(k, f) == preloading /\ \E j \in Keys \ {k} : val[j] = f

\* Put(k, f) of a newly read file, or of one that Preload stores again; one too
\* large for the cache is ignored.
PutCall(g, k, f) ==
    /\ pc[g] = "idle"
    /\ f \in Loads[k]
    /\ f \in Unreferenced \/ StoredByPreload(k, f)
    /\ preloading => \A h \in Procs : pc[h] = "idle"
    /\ SizeOf[f] <= MaxBytes
    /\ pc' = [pc EXCEPT ![g] = "lock"]
    /\ key' = [key EXCEPT ![g] = k]
    /\ obj' = [obj EXCEPT ![g] = f]
    /\ expiresAt' = IF f \in Unreferenced THEN [expiresAt EXCEPT ![f] = 0] ELSE expiresAt
    /\ UNCHANGED <<lru, val, curBytes, hits, misses, mu, clock, preloading, drifted>>

\* Mutant of PutLock: the entry replaced is not subtracted.
PutLockNoSubtract(g) ==
    /\ pc[g] = "lock"
    /\ mu = NoProc
    /\ mu' = g
    /\ expiresAt' = [expiresAt EXCEPT ![obj[g]] =
                        IF TTL > 0 THEN clock + TTL ELSE 0]
    /\ pc' = [pc EXCEPT ![g] = "evict"]
    /\ UNCHANGED <<lru, val, curBytes, hits, misses, clock, key, obj,
                   preloading, drifted>>

\* Mutant of PutLock: the expiry lies a ttl in the past.
PutLockPastExpiry(g) ==
    /\ pc[g] = "lock"
    /\ mu = NoProc
    /\ mu' = g
    /\ expiresAt' = [expiresAt EXCEPT ![obj[g]] =
                        IF TTL > 0 THEN clock - TTL ELSE 0]
    /\ curBytes' = IF key[g] \in Cached
                   THEN curBytes - SizeOf[val[key[g]]]
                   ELSE curBytes
    /\ pc' = [pc EXCEPT ![g] = "evict"]
    /\ UNCHANGED <<lru, val, hits, misses, clock, key, obj, preloading, drifted>>

\* Mutant of PutLock: the lock is not waited for.
PutLockUnguarded(g) ==
    /\ pc[g] = "lock"
    /\ mu' = g
    /\ expiresAt' = [expiresAt EXCEPT ![obj[g]] =
                        IF TTL > 0 THEN clock + TTL ELSE 0]
    /\ curBytes' = IF key[g] \in Cached
                   THEN curBytes - SizeOf[val[key[g]]]
                   ELSE curBytes
    /\ pc' = [pc EXCEPT ![g] = "evict"]
    /\ UNCHANGED <<lru, val, hits, misses, clock, key, obj, preloading, drifted>>

\* Put: lock mu, stamp the expiry, subtract the size of the entry replaced.
PutLock(g) ==
    /\ pc[g] = "lock"
    /\ mu = NoProc
    /\ mu' = g
    /\ expiresAt' = [expiresAt EXCEPT ![obj[g]] =
                        IF TTL > 0 THEN clock + TTL ELSE 0]
    /\ curBytes' = IF key[g] \in Cached
                   THEN curBytes - SizeOf[val[key[g]]]
                   ELSE curBytes
    /\ pc' = [pc EXCEPT ![g] = "evict"]
    /\ UNCHANGED <<lru, val, hits, misses, clock, key, obj, preloading, drifted>>

\* Mutants of NeedsRoom: the new file is not counted; a file that just fits
\* makes the loop evict; one entry is always kept.
NeedsRoomOldBytes(g) == curBytes > MaxBytes /\ Len(lru) > 0
NeedsRoomOffByOne(g) == curBytes + SizeOf[obj[g]] >= MaxBytes /\ Len(lru) > 0
NeedsRoomKeepOne(g) == curBytes + SizeOf[obj[g]] > MaxBytes /\ Len(lru) > 1

\* Put's loop condition.
NeedsRoom(g) == curBytes + SizeOf[obj[g]] > MaxBytes /\ Len(lru) > 0

\* One iteration of the loop: RemoveOldest, whose onEvict adjusts curBytes.
PutEvict(g) ==
    /\ pc[g] = "evict"
    /\ NeedsRoom(g)
    /\ lru' = Tail(lru)
    /\ val' = [val EXCEPT ![Head(lru)] = NoFile]
    /\ curBytes' = curBytes - SizeOf[val[Head(lru)]]
    /\ drifted' = (drifted \/ Head(lru) = key[g])
    /\ UNCHANGED <<expiresAt, hits, misses, mu, clock, pc, key, obj, preloading>>

\* Mutant of PutAdd: mu is not unlocked.
PutAddKeepsLock(g) ==
    /\ pc[g] = "evict"
    /\ ~NeedsRoom(g)
    /\ lru' = Promote(lru, key[g])
    /\ val' = [val EXCEPT ![key[g]] = obj[g]]
    /\ curBytes' = curBytes + SizeOf[obj[g]]
    /\ Return(g)
    /\ UNCHANGED <<expiresAt, hits, misses, mu, clock, preloading, drifted>>

\* The loop is left: lru.Add (which drops the oldest entry, onEvict
\* included, when the item limit is passed), curBytes.Add and the unlock.
PutAdd(g) ==
    /\ pc[g] = "evict"
    /\ ~NeedsRoom(g)
    /\ LET k == key[g]
           s == Promote(lru, k)
       IN IF Len(s) > MaxItems
          THEN /\ lru' = Tail(s)
               /\ val' = [val EXCEPT ![k] = obj[g], ![Head(s)] = NoFile]
               /\ curBytes' = curBytes + SizeOf[obj[g]] - SizeOf[val[Head(s)]]
          ELSE /\ lru' = s
               /\ val' = [val EXCEPT ![k] = obj[g]]
               /\ curBytes' = curBytes + SizeOf[obj[g]]
    /\ mu' = NoProc
    /\ Return(g)
    /\ UNCHANGED <<expiresAt, hits, misses, clock, preloading, drifted>>

\* Flush, one critical section of mu (Purge runs onEvict, then Store(0)).
Flush ==
    /\ ~preloading
    /\ mu = NoProc
    /\ lru' = <<>>
    /\ val' = [k \in Keys |-> NoFile]
    /\ curBytes' = 0
    /\ drifted' = FALSE
    /\ UNCHANGED <<expiresAt, hits, misses, mu, clock, pc, key, obj, preloading>>

\* Preload is done and the listeners are bound.
StartServing ==
    /\ preloading
    /\ \A g \in Procs : pc[g] = "idle"
    /\ preloading' = FALSE
    /\ UNCHANGED <<lru, val, expiresAt, curBytes, hits, misses, mu, clock, pc, key, obj,
                   drifted>>

\* time.Now() moves on.
Tick ==
    /\ TTL > 0
    /\ clock < MaxClock
    /\ clock' = clock + 1
    /\ UNCHANGED <<lru, val, expiresAt, curBytes, hits, misses, mu, pc, key, obj,
                   preloading, drifted>>

-----------------------------------------------------------------------------
\* The steps that continue a call already made.
Proceed(g) ==
    \/ GetCheck(g)
    \/ RemoveIfSame(g)
    \/ PutLock(g)
    \/ PutEvict(g)
    \/ PutAdd(g)

Next ==
    \/ \E g \in Procs, k \in Keys : GetLookup(g, k)
    \/ \E g \in Procs, k \in Keys, f \in Objects : PutCall(g, k, f)
    \/ \E g \in Procs : Proceed(g)
    \/ StartServing
    \/ Flush
    \/ Tick

Spec == Init /\ [][Next]_vars

\* A goroutine inside a call keeps running; sync.Mutex hands the lock to a
\* waiter that has waited long enough, hence strong fairness.
Fairness == \A g \in Procs : SF_vars(Proceed(g))

FairSpec == Spec /\ Fairness
-----------------------------------------------------------------------------
(* What the cache stores, measured on its entries and not on its counter.  *)

\* One pair per byte held by the entries v.
BytesOf(v) == {p \in Keys \X (1 .. MaxBytes) :
                  v[p[1]] # NoFile /\ p[2] <= SizeOf[v[p[1]]]}

ResidentBytes == Cardinality(BytesOf(val))

\* No key's file ever changes size.
FixedSizes == \A k \in Keys : \A f1, f2 \in Loads[k] : SizeOf[f1] = SizeOf[f2]

\* Bytes that Put's writer has already subtracted for the entry it replaces
\* while that entry is still in the map.
Pending(g) ==
    IF pc[g] = "evict" /\ val[key[g]] # NoFile THEN SizeOf[val[key[g]]] ELSE 0

-----------------------------------------------------------------------------
(* Invariants.                                                             *)

\* Every variable has its type.
TypeOK ==
    /\ lru \in Seq(Keys)
    /\ val \in [Keys -> Objects \cup {NoFile}]
    /\ expiresAt \in [Objects -> Nat]
    /\ curBytes \in Int
    /\ hits \in Nat
    /\ misses \in Nat
    /\ mu \in Procs \cup {NoProc}
    /\ clock \in Nat
    /\ pc \in [Procs -> PCs]
    /\ key \in [Procs -> Keys \cup {NoKey}]
    /\ obj \in [Procs -> Objects \cup {NoFile}]
    /\ preloading \in BOOLEAN
    /\ drifted \in BOOLEAN

\* s lists each key of S exactly once.
Lists(s, S) ==
    /\ \A k \in Keys : k \in S <=> \E i \in DOMAIN s : s[i] = k
    /\ \A i, j \in DOMAIN s : s[i] = s[j] => i = j

\* A file fits in a cache of maxBytes.
Fits(f) == SizeOf[f] <= MaxBytes

\* Whatever the files do, curBytes never exceeds what is stored (less what a
\* running Put has already subtracted), so the loop of Put never removes an
\* entry that could have stayed; and with mu free it never exceeds maxBytes.
CounterCeiling ==
    /\ mu = NoProc => curBytes <= ResidentBytes /\ curBytes <= MaxBytes
    /\ \A g \in Procs : mu = g => curBytes <= ResidentBytes - Pending(g)

\* Until a Put evicts the very entry it has already subtracted, curBytes is
\* exactly what is stored.
ByteAccounting ==
    ~drifted =>
        /\ mu = NoProc => curBytes = ResidentBytes
        /\ \A g \in Procs : mu = g => curBytes = ResidentBytes - Pending(g)

\* The memory ceiling: the files stored never add up to more than maxBytes.
MemoryCeiling == ResidentBytes <= MaxBytes

\* It holds for as long as the counter has not drifted.
CeilingUntilDrift == ~drifted => MemoryCeiling

-----------------------------------------------------------------------------
(* What makes these inductive.                                             *)

\* The recency list and the map agree.
Recency == Lists(lru, Cached)

\* mu is held exactly inside Put's critical section.
Mutex == \A g \in Procs : pc[g] = "evict" <=> mu = g

\* Every stored file was read for its key and fits.
Stored == \A k \in Keys : val[k] # NoFile => val[k] \in Loads[k] /\ Fits(val[k])

\* So was every file in the hands of a goroutine; outside a call it has none.
Held == \A g \in Procs :
    /\ pc[g] # "idle" => key[g] \in Keys /\ obj[g] \in Loads[key[g]] /\ Fits(obj[g])
    /\ pc[g] = "idle" => obj[g] = NoFile

\* Preload has the cache to itself.
Alone ==
    preloading =>
        \A g, h \in Procs : pc[g] # "idle" =>
            pc[g] \in {"lock", "evict"} /\ (pc[h] # "idle" => g = h)

\* The file a Put is storing is private to it, so that no Get can read the
\* ExpiresAt it is writing; Preload alone puts a file that is stored already.
Private == \A g \in Procs :
    pc[g] \in {"lock", "evict"} =>
        /\ preloading \/ \A k \in Keys : val[k] # obj[g]
        /\ \A h \in Procs \ {g} : obj[h] # obj[g]

\* A Get about to remove an entry holds one that has expired.
Condemned == \A g \in Procs : pc[g] = "expired" => IsExpired(obj[g])

CacheInv == Recency /\ Mutex /\ Stored /\ Held /\ Alone /\ Private /\ Condemned

-----------------------------------------------------------------------------
(* Action properties.                                                      *)

\* A Put drops an entry, in its loop or through lru.Add, only when what would
\* be stored without that, the entry being replaced not counted, exceeds
\* maxBytes or the item limit.
EvictsOnlyForRoom ==
    [][\A g \in Procs :
         pc[g] = "evict" /\ (\E k \in Keys : val[k] # NoFile /\ val'[k] = NoFile)
           => \/ ResidentBytes - Pending(g) + SizeOf[obj[g]] > MaxBytes
              \/ Cardinality(Cached \cup {key[g]}) > MaxItems]_vars

\* The counter starts to drift only when a Put replaces an entry by a larger
\* file: it never does while files keep their sizes.
DriftsOnlyOnGrowth ==
    [][~drifted /\ drifted' =>
         \E g \in Procs : /\ pc[g] = "evict" /\ val[key[g]] # NoFile
                          /\ SizeOf[obj[g]] > SizeOf[val[key[g]]]]_vars

\* A Get that found an expired entry removes that entry or nothing: an entry
\* stored in the meantime by another goroutine survives unless it has
\* expired as well.
ExpiryDropsOnlyExpired ==
    [][\A g \in Procs, k \in Keys :
         pc[g] = "expired" /\ pc'[g] = "idle" /\ val'[k] # val[k]
           => k = key[g] /\ IsExpired(val[k])]_vars

\* Every Get and Put returns: the eviction loop ends and mu is released.
CallsReturn == \A g \in Procs : pc[g] # "idle" ~> pc[g] = "idle"

-----------------------------------------------------------------------------
\* The abstract store, read off the entries; its limit is maxBytes.
AtMostMaxBytes(v) == Cardinality(BytesOf(v)) <= MaxBytes

\* Once the counter has drifted nothing is promised until the next Flush.
Promised == IF drifted THEN [k \in Keys |-> NoFile] ELSE val

Store == INSTANCE SizedStore WITH store <- Promised, WithinLimit <- AtMostMaxBytes

\* Until the counter drifts the cache behaves as a byte-bounded store:
\* evictions, expiries and flushes only forget, and a Put takes effect in one
\* step that leaves everything stored within maxBytes.
ImplementsStore == Store!Spec

=============================================================================

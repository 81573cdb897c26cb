--------------------------- MODULE FileCacheProofs ---------------------------
(***************************************************************************)
(* Proofs about FileCache, for every set of goroutines, keys and files,    *)
(* every size limit and every TTL.                                         *)
(***************************************************************************)
EXTENDS FileCache, Functions, FiniteSetTheorems, TLAPS

-----------------------------------------------------------------------------
(* The recency list.                                                       *)

\* Where IndexOf points.
LEMMA IndexOfProperty ==
    ASSUME NEW s \in Seq(Keys), NEW k, \E i \in DOMAIN s : s[i] = k
    PROVE  IndexOf(s, k) \in 1 .. Len(s) /\ s[IndexOf(s, k)] = k
  BY DEF IndexOf

\* Removing a listed key leaves the others listed once (lru.Remove).
LEMMA WithoutLists ==
    ASSUME NEW s \in Seq(Keys), NEW S \in SUBSET Keys, Lists(s, S),
           NEW k \in S
    PROVE  Without(s, k) \in Seq(Keys) /\ Lists(Without(s, k), S \ {k})
<1> DEFINE n == IndexOf(s, k)
           t == Without(s, k)
<1>1. n \in 1 .. Len(s) /\ s[n] = k
  BY IndexOfProperty DEF Lists
<1> HIDE DEF n
<1>2. t = [i \in 1 .. (Len(s) - 1) |-> IF i < n THEN s[i] ELSE s[i + 1]]
  BY DEF Without, n
<1>3. t \in Seq(Keys) /\ Len(t) = Len(s) - 1 /\ DOMAIN t = 1 .. (Len(s) - 1)
  BY <1>1, <1>2
<1>4. \A i \in DOMAIN t : t[i] # k
  BY <1>1, <1>2, <1>3 DEF Lists
<1>5. \A i \in DOMAIN t : \E j \in DOMAIN s : t[i] = s[j]
  BY <1>1, <1>2, <1>3
<1>6. ASSUME NEW j \in DOMAIN s, j # n
      PROVE  \E i \in DOMAIN t : t[i] = s[j]
  <2>1. CASE j < n
    BY <1>1, <1>2, <1>3, <2>1
  <2>2. CASE j > n
    <3>1. j - 1 \in DOMAIN t /\ t[j - 1] = s[j]
      BY <1>1, <1>2, <1>3, <2>2
    <3> QED
      BY <3>1
  <2> QED
    BY <1>6, <1>1, <2>1, <2>2
<1>7. \A i, j \in DOMAIN t : t[i] = t[j] => i = j
  BY <1>1, <1>2, <1>3 DEF Lists
<1>8. \A m \in Keys : m \in S \ {k} <=> \E i \in DOMAIN t : t[i] = m
  <2> TAKE m \in Keys
  <2>1. ASSUME m \in S \ {k} PROVE \E i \in DOMAIN t : t[i] = m
    BY <1>1, <1>6, <2>1 DEF Lists
  <2>2. ASSUME NEW i \in DOMAIN t, t[i] = m PROVE m \in S \ {k}
    BY <1>4, <1>5, <2>2 DEF Lists
  <2> QED
    BY <2>1, <2>2
<1> QED
  BY <1>3, <1>7, <1>8 DEF Lists

\* Appending a key that is not listed.
LEMMA AppendLists ==
    ASSUME NEW s \in Seq(Keys), NEW S \in SUBSET Keys, Lists(s, S),
           NEW k \in Keys, k \notin S
    PROVE  Append(s, k) \in Seq(Keys) /\ Lists(Append(s, k), S \cup {k})
<1> DEFINE t == Append(s, k)
<1>1. t \in Seq(Keys) /\ DOMAIN t = 1 .. (Len(s) + 1) /\ DOMAIN s = 1 .. Len(s)
  OBVIOUS
<1>2. \A i \in 1 .. Len(s) : t[i] = s[i]
  OBVIOUS
<1>3. t[Len(s) + 1] = k /\ Len(s) \in Nat
  OBVIOUS
<1> HIDE DEF t
<1>4. \A m \in Keys : m \in S \cup {k} <=> \E i \in DOMAIN t : t[i] = m
  BY <1>1, <1>2, <1>3 DEF Lists
<1>5. \A i, j \in DOMAIN t : t[i] = t[j] => i = j
  <2> SUFFICES ASSUME NEW i \in DOMAIN t, NEW j \in DOMAIN t, t[i] = t[j]
               PROVE  i = j
    OBVIOUS
  <2>1. \A m \in 1 .. Len(s) : t[m] # k
    BY <1>1, <1>2, <1>3 DEF Lists
  <2>2. CASE i \in 1 .. Len(s) /\ j \in 1 .. Len(s)
    BY <1>1, <1>2, <2>2 DEF Lists
  <2>3. CASE i = Len(s) + 1
    BY <1>1, <1>3, <2>1, <2>3
  <2>4. CASE j = Len(s) + 1
    BY <1>1, <1>3, <2>1, <2>4
  <2> QED
    BY <1>1, <1>3, <2>2, <2>3, <2>4
<1> QED
  BY <1>1, <1>4, <1>5 DEF Lists, t

\* Promoting a key keeps the listed keys and adds the key (lru.Get, lru.Add).
LEMMA PromoteLists ==
    ASSUME NEW s \in Seq(Keys), NEW S \in SUBSET Keys, Lists(s, S),
           NEW k \in Keys
    PROVE  Promote(s, k) \in Seq(Keys) /\ Lists(Promote(s, k), S \cup {k})
<1>1. CASE k \in S
  <2>1. Promote(s, k) = Append(Without(s, k), k)
    BY <1>1 DEF Promote, Lists
  <2>2. Without(s, k) \in Seq(Keys) /\ Lists(Without(s, k), S \ {k})
    BY <1>1, WithoutLists
  <2>3. (S \ {k}) \cup {k} = S \cup {k}
    OBVIOUS
  <2> QED
    BY <2>1, <2>2, <2>3, AppendLists
<1>2. CASE k \notin S
  <2>1. Promote(s, k) = Append(s, k)
    BY <1>2 DEF Promote, Lists
  <2> QED
    BY <1>2, <2>1, AppendLists
<1> QED
  BY <1>1, <1>2

\* The promoted key is last, so it is the oldest only when it is alone.
LEMMA PromoteLast ==
    ASSUME NEW s \in Seq(Keys), NEW S \in SUBSET Keys, Lists(s, S),
           NEW k \in Keys, Len(Promote(s, k)) > 1
    PROVE  Head(Promote(s, k)) # k
<1> DEFINE r == IF \E i \in DOMAIN s : s[i] = k THEN Without(s, k) ELSE s
           t == Promote(s, k)
<1>1. t = Append(r, k)
  BY DEF Promote
<1>2. r \in Seq(Keys)
  BY WithoutLists DEF Lists
<1>3. t \in Seq(Keys) /\ Lists(t, S \cup {k})
  BY PromoteLists
<1> HIDE DEF r, t
<1>4. t[Len(t)] = k /\ Head(t) = t[1] /\ 1 \in DOMAIN t /\ Len(t) \in DOMAIN t
  BY <1>1, <1>2, <1>3 DEF t
<1> QED
  BY <1>3, <1>4 DEF Lists, t

\* Dropping the oldest key (lru.RemoveOldest).
LEMMA TailLists ==
    ASSUME NEW s \in Seq(Keys), NEW S \in SUBSET Keys, Lists(s, S), Len(s) > 0
    PROVE  /\ Head(s) \in S
           /\ Tail(s) \in Seq(Keys)
           /\ Lists(Tail(s), S \ {Head(s)})
<1> DEFINE t == Tail(s)
<1>1. s # <<>> /\ Head(s) = s[1] /\ 1 \in DOMAIN s /\ s[1] \in Keys
  OBVIOUS
<1>2. t \in Seq(Keys) /\ Len(t) = Len(s) - 1 /\ DOMAIN t = 1 .. (Len(s) - 1)
  BY <1>1
<1>3. \A i \in 1 .. (Len(s) - 1) : t[i] = s[i + 1]
  BY <1>1
<1> HIDE DEF t
<1>4. Head(s) \in S
  BY <1>1 DEF Lists
<1>5. \A i, j \in DOMAIN t : t[i] = t[j] => i = j
  BY <1>2, <1>3 DEF Lists
<1>6. \A m \in Keys : m \in S \ {Head(s)} <=> \E i \in DOMAIN t : t[i] = m
  <2> TAKE m \in Keys
  <2>1. ASSUME m \in S, m # Head(s) PROVE \E i \in DOMAIN t : t[i] = m
    <3>1. PICK j \in DOMAIN s : s[j] = m
      BY <2>1 DEF Lists
    <3>2. j - 1 \in DOMAIN t /\ t[j - 1] = m
      BY <1>1, <1>2, <1>3, <2>1, <3>1
    <3> QED
      BY <3>2
  <2>2. ASSUME NEW i \in DOMAIN t, t[i] = m PROVE m \in S /\ m # Head(s)
    BY <1>1, <1>2, <1>3, <2>2 DEF Lists
  <2> QED
    BY <2>1, <2>2
<1> QED
  BY <1>2, <1>4, <1>5, <1>6 DEF Lists, t

\* A list of distinct keys is as long as the set it lists.
LEMMA ListedLen ==
    ASSUME NEW s \in Seq(Keys), NEW S \in SUBSET Keys, Lists(s, S)
    PROVE  Cardinality(S) = Len(s)
<1>1. Len(s) \in Nat /\ s \in [1 .. Len(s) -> Keys] /\ DOMAIN s = 1 .. Len(s)
  OBVIOUS
<1>2. \A i \in 1 .. Len(s) : s[i] \in S
  BY <1>1 DEF Lists
<1>3. s \in [1 .. Len(s) -> S]
  BY <1>1, <1>2
<1>4. s \in Bijection(1 .. Len(s), S)
  BY <1>1, <1>3 DEF Lists, Bijection, Injection, Surjection, IsInjective
<1>5. ExistsBijection(1 .. Len(s), S)
  BY <1>4 DEF ExistsBijection
<1> QED
  BY <1>1, <1>5, FS_CountingElements

-----------------------------------------------------------------------------
(* The bytes held by a map of entries.                                     *)

Entries == [Keys -> Objects \cup {NoFile}]

AllFit(v) == \A k \in Keys : v[k] # NoFile => Fits(v[k])

\* The bytes are finitely many, so they have a number.
LEMMA BytesFinite ==
    ASSUME NEW v
    PROVE  IsFiniteSet(BytesOf(v)) /\ Cardinality(BytesOf(v)) \in Nat
<1>1. IsFiniteSet(1 .. MaxBytes)
  BY FS_Interval, LimitsAssumption
<1>2. IsFiniteSet(Keys \X (1 .. MaxBytes))
  BY <1>1, FS_Product, KeysAssumption
<1>3. BytesOf(v) \subseteq Keys \X (1 .. MaxBytes)
  BY DEF BytesOf
<1>4. IsFiniteSet(BytesOf(v))
  BY <1>2, <1>3, FS_Subset
<1> QED
  BY <1>4, FS_CardinalityType

\* An empty cache holds no byte.
LEMMA BytesOfNone ==
    ASSUME NEW v, \A k \in Keys : v[k] = NoFile
    PROVE  Cardinality(BytesOf(v)) = 0
<1>1. BytesOf(v) = {}
  BY DEF BytesOf
<1> QED
  BY <1>1, FS_EmptySet

\* Storing a file under a free key adds its size.
LEMMA BytesOfStore ==
    ASSUME NEW v \in Entries, AllFit(v),
           NEW k \in Keys, v[k] = NoFile,
           NEW f \in Objects, Fits(f)
    PROVE  Cardinality(BytesOf([v EXCEPT ![k] = f]))
             = Cardinality(BytesOf(v)) + SizeOf[f]
<1> DEFINE w == [v EXCEPT ![k] = f]
           n == SizeOf[f]
           B == {k} \X (1 .. n)
<1>1. n \in Nat /\ n <= MaxBytes /\ MaxBytes \in Nat /\ f # NoFile
  BY SizeAssumption, LimitsAssumption, NoFileAssumption DEF Fits
<1> HIDE DEF n
<1>2. IsFiniteSet(1 .. n) /\ Cardinality(1 .. n) = n
  <2>1. 1 \in Int /\ n \in Int
    BY <1>1
  <2>2. /\ IsFiniteSet(1 .. n)
        /\ Cardinality(1 .. n) = IF 1 > n THEN 0 ELSE n - 1 + 1
    BY <2>1, FS_Interval
  <2> QED
    BY <1>1, <2>2
<1>3. IsFiniteSet({k}) /\ Cardinality({k}) = 1
  BY FS_Singleton
<1>4. IsFiniteSet(B) /\ Cardinality(B) = n
  <2>1. IsFiniteSet(B) /\ Cardinality(B) = 1 * n
    BY <1>2, <1>3, FS_Product
  <2> QED
    BY <1>1, <2>1
<1>5. w[k] = f /\ \A j \in Keys \ {k} : w[j] = v[j]
  BY DEF Entries
<1>6. BytesOf(w) = BytesOf(v) \cup B
  <2> HIDE DEF w
  <2>1. ASSUME NEW p \in BytesOf(w) PROVE p \in BytesOf(v) \cup B
    BY <1>1, <1>5, <2>1 DEF BytesOf, n
  <2>2. ASSUME NEW p \in BytesOf(v) PROVE p \in BytesOf(w)
    BY <1>5, <2>2 DEF BytesOf
  <2>3. ASSUME NEW p \in B PROVE p \in BytesOf(w)
    BY <1>1, <1>5, <2>3 DEF BytesOf, n
  <2> QED
    BY <2>1, <2>2, <2>3
<1>7. BytesOf(v) \cap B = {}
  BY DEF BytesOf
<1>8. IsFiniteSet(BytesOf(v)) /\ Cardinality(BytesOf(v)) \in Nat
  BY BytesFinite
<1>9. Cardinality(BytesOf(v) \cup B)
        = Cardinality(BytesOf(v)) + Cardinality(B) - Cardinality(BytesOf(v) \cap B)
  BY <1>4, <1>8, FS_Union
<1>10. Cardinality(BytesOf(v) \cap B) = 0
  BY <1>7, FS_EmptySet
<1> HIDE DEF w, B
<1>11. Cardinality(BytesOf(w)) = Cardinality(BytesOf(v) \cup B)
  BY <1>6, Zenon
<1>12. Cardinality(BytesOf(w)) = Cardinality(BytesOf(v)) + n
  BY <1>1, <1>4, <1>8, <1>9, <1>10, <1>11
<1> QED
  BY <1>12 DEF n, w

\* Dropping an entry subtracts the size of its file.
LEMMA BytesOfDrop ==
    ASSUME NEW v \in Entries, AllFit(v), NEW k \in Keys, v[k] # NoFile
    PROVE  Cardinality(BytesOf([v EXCEPT ![k] = NoFile]))
             = Cardinality(BytesOf(v)) - SizeOf[v[k]]
<1> DEFINE u == [v EXCEPT ![k] = NoFile]
<1>1. u \in Entries /\ u[k] = NoFile /\ AllFit(u)
  BY DEF Entries, AllFit
<1>2. v[k] \in Objects /\ Fits(v[k])
  BY DEF Entries, AllFit
<1>3. v = [u EXCEPT ![k] = v[k]]
  BY DEF Entries
<1>4. Cardinality(BytesOf(u)) \in Nat
  BY BytesFinite
<1>5. SizeOf[v[k]] \in Nat
  BY <1>2, SizeAssumption
<1> HIDE DEF u
<1>6. Cardinality(BytesOf(v)) = Cardinality(BytesOf(u)) + SizeOf[v[k]]
  BY <1>1, <1>2, <1>3, BytesOfStore
<1>7. Cardinality(BytesOf(u)) = Cardinality(BytesOf(v)) - SizeOf[v[k]]
  BY <1>4, <1>5, <1>6
<1> QED
  BY <1>7 DEF u

\* Storing a file over an entry: the difference of the two sizes.
LEMMA BytesOfReplace ==
    ASSUME NEW v \in Entries, AllFit(v), NEW k \in Keys, v[k] # NoFile,
           NEW f \in Objects, Fits(f)
    PROVE  Cardinality(BytesOf([v EXCEPT ![k] = f]))
             = Cardinality(BytesOf(v)) - SizeOf[v[k]] + SizeOf[f]
<1> DEFINE u == [v EXCEPT ![k] = NoFile]
<1>1. u \in Entries /\ u[k] = NoFile /\ AllFit(u)
  BY DEF Entries, AllFit
<1>2. [v EXCEPT ![k] = f] = [u EXCEPT ![k] = f]
  BY DEF Entries
<1>3. Cardinality(BytesOf(u)) = Cardinality(BytesOf(v)) - SizeOf[v[k]]
  BY BytesOfDrop
<1> HIDE DEF u
<1>4. Cardinality(BytesOf([u EXCEPT ![k] = f])) = Cardinality(BytesOf(u)) + SizeOf[f]
  BY <1>1, BytesOfStore
<1> QED
  BY <1>2, <1>3, <1>4

-----------------------------------------------------------------------------
(* The structural invariant, action by action.                             *)

StructInv == TypeOK /\ CacheInv

USE DEF PCs

\* An empty cache with nobody inside has the structure.
LEMMA InitStruct == Init => StructInv
<1> SUFFICES ASSUME Init PROVE StructInv
  OBVIOUS
<1> USE DEF Init
<1>1. TypeOK
  <2>1. preloading \in BOOLEAN /\ drifted \in BOOLEAN
    BY PreloadAssumption
  <2> QED
    BY <2>1 DEF TypeOK
<1>2. Recency
  BY DEF Recency, Lists, Cached
<1>3. Mutex /\ Stored /\ Held /\ Alone /\ Private /\ Condemned
  BY NoProcAssumption DEF Mutex, Stored, Held, Alone, Private, Condemned
<1> QED
  BY <1>1, <1>2, <1>3 DEF StructInv, CacheInv

\* Get only reorders the list and takes a file that is stored.
LEMMA GetLookupStruct ==
    ASSUME StructInv, NEW g \in Procs, NEW k \in Keys, GetLookup(g, k)
    PROVE  StructInv'
<1> USE DEF StructInv, CacheInv
<1>1. CASE k \in Cached
  <2> USE <1>1 DEF GetLookup
  <2>1. lru' \in Seq(Keys) /\ Lists(lru', Cached)
    <3>1. Cached \cup {k} = Cached /\ Cached \in SUBSET Keys
      BY DEF Cached
    <3>2. lru \in Seq(Keys) /\ Lists(lru, Cached) /\ lru' = Promote(lru, k)
      BY DEF TypeOK, Recency
    <3> HIDE DEF StructInv, GetLookup
    <3> QED
      BY <3>1, <3>2, PromoteLists
  <2>2. TypeOK'
    BY <2>1 DEF TypeOK, Cached
  <2>3. Recency'
    BY <2>1 DEF Recency, Lists, Cached
  <2>4. Mutex'
    BY DEF Mutex, TypeOK
  <2>5. Stored' /\ Held'
    BY DEF Stored, Held, TypeOK, Cached, Fits
  <2>6. Private' /\ Alone'
    BY DEF Private, Alone, TypeOK, Cached
  <2>7. Condemned'
    BY DEF Condemned, IsExpired, TypeOK
  <2> QED
    BY <2>2, <2>3, <2>4, <2>5, <2>6, <2>7
<1>2. CASE k \notin Cached
  BY <1>2 DEF GetLookup, TypeOK, Recency, Mutex, Stored, Held, Alone, Private,
              Condemned, IsExpired, Cached, Lists, Fits
<1> QED
  BY <1>1, <1>2

\* Testing the expiry stores nothing; an expired file stays expired.
LEMMA GetCheckStruct ==
    ASSUME StructInv, NEW g \in Procs, GetCheck(g)
    PROVE  StructInv'
<1> USE DEF StructInv, CacheInv, GetCheck, Return
<1>1. TypeOK'
  <2>1. CASE IsExpired(obj[g])
    BY <2>1 DEF TypeOK
  <2>2. CASE ~IsExpired(obj[g])
    BY <2>2 DEF TypeOK
  <2> QED
    BY <2>1, <2>2
<1>2. Recency'
  BY DEF Recency, Lists, Cached
<1>3. Mutex' /\ Stored' /\ Held'
  BY DEF Mutex, Stored, Held, Fits, TypeOK
<1>4. Private'
  <2>1. \A h \in Procs \ {g} : obj'[h] = obj[h] /\ pc'[h] = pc[h]
    BY DEF TypeOK
  <2>2. pc'[g] \notin {"lock", "evict"} /\ obj'[g] \in {obj[g], NoFile}
    BY DEF TypeOK
  <2>3. \A h \in Procs : pc[h] # "idle" => obj[h] # NoFile
    BY NoFileAssumption, LoadsAssumption DEF Held
  <2> QED
    BY <2>1, <2>2, <2>3 DEF Private
<1>5. Condemned' /\ Alone'
  BY DEF Condemned, Alone, IsExpired, TypeOK
<1> QED
  BY <1>1, <1>2, <1>3, <1>4, <1>5

\* Removing an entry takes its key out of the list and the map alike.
LEMMA RemoveIfSameStruct ==
    ASSUME StructInv, NEW g \in Procs, RemoveIfSame(g)
    PROVE  StructInv'
<1> USE DEF StructInv, CacheInv, Return
<1>1. /\ key[g] \in Keys /\ obj[g] \in Objects /\ pc[g] = "expired"
      /\ \A h \in Procs : pc[h] # "idle" => obj[h] # NoFile
  BY NoFileAssumption, LoadsAssumption DEF Held, RemoveIfSame
<1>2. /\ pc' = [pc EXCEPT ![g] = "idle"]
      /\ key' = [key EXCEPT ![g] = NoKey]
      /\ obj' = [obj EXCEPT ![g] = NoFile]
      /\ misses' = misses + 1
      /\ UNCHANGED <<expiresAt, hits, mu, clock, preloading, drifted>>
  BY DEF RemoveIfSame
<1>3. CASE val[key[g]] = obj[g]
  <2>1. /\ lru' = Without(lru, key[g])
        /\ val' = [val EXCEPT ![key[g]] = NoFile]
        /\ curBytes' = curBytes - SizeOf[obj[g]]
    BY <1>3 DEF RemoveIfSame
  <2>2. key[g] \in Cached /\ Cached' = Cached \ {key[g]} /\ Cached \in SUBSET Keys
    BY <1>1, <1>3, <2>1, NoFileAssumption DEF Cached, TypeOK
  <2>3. lru' \in Seq(Keys) /\ Lists(lru', Cached \ {key[g]})
    BY <2>1, <2>2, WithoutLists DEF Recency, TypeOK
  <2>4. TypeOK'
    <3>1. curBytes' \in Int
      BY <1>1, <2>1, SizeAssumption DEF TypeOK
    <3> QED
      BY <1>1, <1>2, <2>1, <2>3, <3>1 DEF TypeOK
  <2>5. Recency'
    BY <2>2, <2>3 DEF Recency, Lists
  <2>6. Stored' /\ Held' /\ Private'
    BY <1>1, <1>2, <2>1 DEF Stored, Held, Private, TypeOK, Fits
  <2>7. Mutex' /\ Condemned' /\ Alone'
    BY <1>1, <1>2 DEF Mutex, Condemned, Alone, IsExpired, TypeOK
  <2> QED
    BY <2>4, <2>5, <2>6, <2>7
<1>4. CASE val[key[g]] # obj[g]
  <2>1. UNCHANGED <<lru, val, curBytes>>
    BY <1>4 DEF RemoveIfSame
  <2>2. TypeOK' /\ Recency'
    BY <1>2, <2>1 DEF TypeOK, Recency, Lists, Cached
  <2>3. Stored' /\ Held' /\ Private'
    BY <1>1, <1>2, <2>1 DEF Stored, Held, Private, TypeOK, Fits
  <2>4. Mutex' /\ Condemned' /\ Alone'
    BY <1>1, <1>2 DEF Mutex, Condemned, Alone, IsExpired, TypeOK
  <2> QED
    BY <2>2, <2>3, <2>4
<1> QED
  BY <1>3, <1>4

\* A newly allocated file is nobody else's and fits; Preload is alone.
LEMMA PutCallStruct ==
    ASSUME StructInv, NEW g \in Procs, NEW k \in Keys, NEW f \in Objects,
           PutCall(g, k, f)
    PROVE  StructInv'
<1> USE DEF StructInv, CacheInv, PutCall, StoredByPreload
<1>1. f \in Loads[k] /\ f # NoFile /\ Fits(f)
  BY NoFileAssumption DEF Fits
<1>2. TypeOK'
  BY <1>1 DEF TypeOK
<1>3. Recency'
  BY DEF Recency, Lists, Cached
<1>4. Mutex' /\ Stored' /\ Held'
  BY <1>1 DEF Mutex, Stored, Held, Fits, TypeOK
<1>5. Private'
  <2> SUFFICES ASSUME NEW q \in Procs, pc'[q] \in {"lock", "evict"}
               PROVE  /\ preloading \/ \A j \in Keys : val[j] # obj'[q]
                      /\ \A h \in Procs \ {q} : obj'[h] # obj'[q]
    BY DEF Private
  <2>1. obj' = [obj EXCEPT ![g] = f] /\ pc' = [pc EXCEPT ![g] = "lock"]
    OBVIOUS
  <2>2. CASE f \in Unreferenced
    BY <2>1, <2>2 DEF Private, Unreferenced, TypeOK
  <2>3. CASE preloading /\ \A h \in Procs : pc[h] = "idle"
    BY <1>1, <2>1, <2>3 DEF Held, TypeOK
  <2> QED
    BY <2>2, <2>3
<1>6. Condemned'
  <2>1. \A h \in Procs : pc'[h] = "expired" => pc[h] = "expired" /\ obj'[h] = obj[h]
    BY DEF TypeOK
  <2>2. \A h \in Procs : pc[h] = "expired" => expiresAt'[obj[h]] = expiresAt[obj[h]]
    BY DEF Unreferenced, TypeOK
  <2> QED
    BY <2>1, <2>2 DEF Condemned, IsExpired
<1>7. Alone'
  BY DEF Alone, TypeOK
<1> QED
  BY <1>2, <1>3, <1>4, <1>5, <1>6, <1>7

\* The expiry is stamped on a file that only its writer holds.
LEMMA PutLockStruct ==
    ASSUME StructInv, NEW g \in Procs, PutLock(g)
    PROVE  StructInv'
<1> USE DEF StructInv, CacheInv, PutLock
<1>1. key[g] \in Keys /\ obj[g] \in Objects
  BY LoadsAssumption DEF Held
<1>2. TypeOK'
  <2>1. curBytes' \in Int
    BY <1>1, SizeAssumption DEF TypeOK, Cached
  <2>2. expiresAt' \in [Objects -> Nat]
    <3>1. (IF TTL > 0 THEN clock + TTL ELSE 0) \in Nat
      BY ClockAssumption DEF TypeOK
    <3> QED
      BY <1>1, <3>1 DEF TypeOK
  <2> QED
    BY <2>1, <2>2 DEF TypeOK
<1>3. Recency'
  BY DEF Recency, Lists, Cached
<1>4. Mutex'
  BY NoProcAssumption DEF Mutex, TypeOK
<1>5. Stored' /\ Held' /\ Private' /\ Alone'
  BY DEF Stored, Held, Private, Alone, Fits, TypeOK
<1>6. Condemned'
  BY DEF Condemned, IsExpired, Private, TypeOK
<1> QED
  BY <1>2, <1>3, <1>4, <1>5, <1>6

\* RemoveOldest takes the same key out of the list and the map.
LEMMA PutEvictStruct ==
    ASSUME StructInv, NEW g \in Procs, PutEvict(g)
    PROVE  StructInv'
<1> USE DEF StructInv, CacheInv, PutEvict
<1>1. Cached \in SUBSET Keys /\ Len(lru) > 0
  BY DEF Cached, NeedsRoom
<1>2. Head(lru) \in Cached /\ Tail(lru) \in Seq(Keys)
        /\ Lists(Tail(lru), Cached \ {Head(lru)})
  BY <1>1, TailLists DEF Recency, TypeOK
<1>3. Head(lru) \in Keys /\ val[Head(lru)] \in Objects
  BY <1>2 DEF Cached, TypeOK
<1>4. Cached' = Cached \ {Head(lru)}
  BY <1>3 DEF Cached, TypeOK
<1>5. TypeOK'
  <2>1. curBytes' \in Int
    BY <1>3, SizeAssumption DEF TypeOK
  <2> QED
    BY <1>2, <1>3, <2>1 DEF TypeOK
<1>6. Recency'
  BY <1>2, <1>4 DEF Recency, Lists
<1>7. Mutex' /\ Stored' /\ Held' /\ Condemned'
  BY <1>3 DEF Mutex, Stored, Held, Condemned, IsExpired, Fits, TypeOK
<1>8. Private' /\ Alone'
  <2>1. \A q \in Procs : pc[q] \in {"lock", "evict"} => obj[q] # NoFile
    BY LoadsAssumption, NoFileAssumption DEF Held
  <2>2. /\ UNCHANGED <<pc, obj, preloading>>
        /\ \A j \in Keys : val'[j] \in {val[j], NoFile}
    BY <1>3 DEF TypeOK
  <2> QED
    BY <2>1, <2>2 DEF Private, Alone
<1> QED
  BY <1>5, <1>6, <1>7, <1>8

\* What PutAdd does to the list and the map, in its two cases.
LEMMA PutAddEffect ==
    ASSUME StructInv, NEW g \in Procs, PutAdd(g)
    PROVE  /\ key[g] \in Keys /\ obj[g] \in Objects
           /\ obj[g] \in Loads[key[g]] /\ Fits(obj[g])
           /\ Promote(lru, key[g]) \in Seq(Keys)
           /\ Lists(Promote(lru, key[g]), Cached \cup {key[g]})
           /\ \/ /\ lru' = Promote(lru, key[g])
                 /\ val' = [val EXCEPT ![key[g]] = obj[g]]
                 /\ curBytes' = curBytes + SizeOf[obj[g]]
              \/ \E h \in Keys \ {key[g]} :
                   /\ val[h] \in Objects
                   /\ lru' \in Seq(Keys)
                   /\ Lists(lru', (Cached \cup {key[g]}) \ {h})
                   /\ val' = [val EXCEPT ![key[g]] = obj[g], ![h] = NoFile]
                   /\ curBytes' = curBytes + SizeOf[obj[g]] - SizeOf[val[h]]
<1> USE DEF StructInv, CacheInv
<1> DEFINE k == key[g]
           s == Promote(lru, k)
<1>1. k \in Keys /\ obj[g] \in Objects /\ obj[g] \in Loads[k] /\ Fits(obj[g])
  BY LoadsAssumption DEF Held, PutAdd
<1>2. Cached \in SUBSET Keys
  BY DEF Cached
<1>3. s \in Seq(Keys) /\ Lists(s, Cached \cup {k})
  BY <1>1, <1>2, PromoteLists DEF Recency, TypeOK
<1>4. CASE Len(s) > MaxItems
  <2>1. Len(s) > 1
    BY <1>3, <1>4, LimitsAssumption
  <2>2. Head(s) # k
    BY <1>1, <1>2, <2>1, PromoteLast DEF Recency, TypeOK
  <2>3. /\ lru' = Tail(s)
        /\ val' = [val EXCEPT ![k] = obj[g], ![Head(s)] = NoFile]
        /\ curBytes' = curBytes + SizeOf[obj[g]] - SizeOf[val[Head(s)]]
    BY <1>4 DEF PutAdd
  <2> HIDE DEF s
  <2>4. Len(s) > 0
    BY <1>3, <2>1
  <2>5. (Cached \cup {k}) \in SUBSET Keys
    BY <1>1, <1>2
  <2>6. /\ Head(s) \in Cached \cup {k}
        /\ Tail(s) \in Seq(Keys)
        /\ Lists(Tail(s), (Cached \cup {k}) \ {Head(s)})
    BY <1>3, <2>4, <2>5, TailLists
  <2>7. Head(s) \in Keys \ {k} /\ val[Head(s)] \in Objects
    BY <2>2, <2>6 DEF Cached, TypeOK
  <2>8. \E h \in Keys \ {k} :
           /\ val[h] \in Objects
           /\ lru' \in Seq(Keys)
           /\ Lists(lru', (Cached \cup {k}) \ {h})
           /\ val' = [val EXCEPT ![k] = obj[g], ![h] = NoFile]
           /\ curBytes' = curBytes + SizeOf[obj[g]] - SizeOf[val[h]]
    BY <2>3, <2>6, <2>7
  <2> QED
    BY <1>1, <1>3, <2>8 DEF s
<1>5. CASE ~(Len(s) > MaxItems)
  <2>1. /\ lru' = s
        /\ val' = [val EXCEPT ![k] = obj[g]]
        /\ curBytes' = curBytes + SizeOf[obj[g]]
    BY <1>5 DEF PutAdd
  <2> QED
    BY <1>1, <1>3, <2>1
<1> QED
  BY <1>4, <1>5

\* Adding the file, with or without the item limit, keeps list and map alike.
LEMMA PutAddStruct ==
    ASSUME StructInv, NEW g \in Procs, PutAdd(g)
    PROVE  StructInv'
<1> USE DEF StructInv, CacheInv
<1> DEFINE k == key[g]
<1>1. /\ pc[g] = "evict" /\ mu' = NoProc
      /\ pc' = [pc EXCEPT ![g] = "idle"]
      /\ key' = [key EXCEPT ![g] = NoKey]
      /\ obj' = [obj EXCEPT ![g] = NoFile]
      /\ UNCHANGED <<expiresAt, hits, misses, clock, preloading, drifted>>
  BY DEF PutAdd, Return
<1>2. k \in Keys /\ obj[g] \in Objects /\ obj[g] # NoFile
        /\ obj[g] \in Loads[k] /\ Fits(obj[g])
  BY PutAddEffect, NoFileAssumption
<1>3. \A h \in Procs : pc[h] # "idle" => obj[h] # NoFile
  BY NoFileAssumption, LoadsAssumption DEF Held
<1>4. SizeOf[obj[g]] \in Nat /\ \A f \in Objects : SizeOf[f] \in Nat
  BY <1>2, SizeAssumption
<1>5. Mutex' /\ Held' /\ Condemned' /\ Alone'
  BY <1>1, NoProcAssumption DEF Mutex, Held, Condemned, Alone, IsExpired, Fits, TypeOK
<1>6. ASSUME val' = [val EXCEPT ![k] = obj[g]],
             lru' = Promote(lru, k), curBytes' = curBytes + SizeOf[obj[g]]
      PROVE  TypeOK' /\ Recency' /\ Stored' /\ Private'
  <2>1. lru' \in Seq(Keys) /\ Lists(lru', Cached \cup {k})
    BY <1>6, PutAddEffect
  <2>2. Cached' = Cached \cup {k}
    BY <1>2, <1>6 DEF Cached, TypeOK
  <2>3. TypeOK'
    BY <1>1, <1>2, <1>4, <1>6, <2>1 DEF TypeOK
  <2>4. Recency'
    BY <2>1, <2>2 DEF Recency
  <2>5. Stored'
    BY <1>2, <1>6 DEF Stored, Fits, TypeOK
  <2>6. Private'
    BY <1>1, <1>2, <1>3, <1>6 DEF Private, Alone, TypeOK
  <2> QED
    BY <2>3, <2>4, <2>5, <2>6
<1>7. ASSUME NEW h \in Keys \ {k}, val[h] \in Objects, lru' \in Seq(Keys),
             Lists(lru', (Cached \cup {k}) \ {h}),
             val' = [val EXCEPT ![k] = obj[g], ![h] = NoFile],
             curBytes' = curBytes + SizeOf[obj[g]] - SizeOf[val[h]]
      PROVE  TypeOK' /\ Recency' /\ Stored' /\ Private'
  <2>1. /\ val' \in [Keys -> Objects \cup {NoFile}]
        /\ val'[k] = obj[g] /\ val'[h] = NoFile
        /\ \A j \in Keys \ {k, h} : val'[j] = val[j]
    BY <1>2, <1>7 DEF TypeOK
  <2>2. Cached' = (Cached \cup {k}) \ {h}
    BY <1>2, <1>7, <2>1 DEF Cached
  <2>3. TypeOK'
    <3>1. curBytes' \in Int
      BY <1>2, <1>4, <1>7 DEF TypeOK
    <3>2. /\ pc' \in [Procs -> PCs] /\ key' \in [Procs -> Keys \cup {NoKey}]
          /\ obj' \in [Procs -> Objects \cup {NoFile}]
      BY <1>1 DEF TypeOK
    <3> QED
      BY <1>1, <1>7, <2>1, <3>1, <3>2 DEF TypeOK
  <2>4. Recency'
    BY <1>7, <2>2 DEF Recency
  <2>5. Stored'
    BY <1>2, <2>1 DEF Stored, Fits
  <2>6. Private'
    <3> SUFFICES ASSUME NEW q \in Procs, pc'[q] \in {"lock", "evict"}
                 PROVE  /\ preloading' \/ \A j \in Keys : val'[j] # obj'[q]
                        /\ \A i \in Procs \ {q} : obj'[i] # obj'[q]
      BY DEF Private
    <3>1. q # g /\ pc[q] \in {"lock", "evict"} /\ obj'[q] = obj[q]
      BY <1>1 DEF TypeOK
    <3>2. obj[q] # obj[g] /\ obj[q] # NoFile
      BY <1>3, <3>1 DEF Private
    <3>3. preloading \/ \A j \in Keys : val[j] # obj[q]
      BY <3>1 DEF Private
    <3>4. \A j \in Keys : val'[j] \in {obj[g], NoFile, val[j]}
      BY <2>1
    <3>5. \A i \in Procs : obj'[i] \in {NoFile, obj[i]}
      BY <1>1 DEF TypeOK
    <3>6. \A i \in Procs \ {q} : obj[i] # obj[q]
      BY <3>1 DEF Private
    <3> QED
      BY <1>1, <3>1, <3>2, <3>3, <3>4, <3>5, <3>6
  <2> QED
    BY <2>3, <2>4, <2>5, <2>6
<1> QED
  BY <1>5, <1>6, <1>7, PutAddEffect

\* An emptied cache has the structure.
LEMMA FlushStruct ==
    ASSUME StructInv, Flush
    PROVE  StructInv'
<1> USE DEF StructInv, CacheInv, Flush
<1>1. TypeOK' /\ Recency'
  <2>1. TypeOK'
    <3>1. drifted' \in BOOLEAN /\ preloading' \in BOOLEAN
      BY DEF TypeOK
    <3> QED
      BY <3>1 DEF TypeOK
  <2>2. Recency'
    BY DEF Recency, Lists, Cached
  <2> QED
    BY <2>1, <2>2
<1>2. Mutex' /\ Stored' /\ Held' /\ Condemned'
  BY DEF Mutex, Stored, Held, Condemned, IsExpired, Fits
<1>3. Private' /\ Alone'
  BY NoFileAssumption, LoadsAssumption DEF Private, Alone, Held
<1> QED
  BY <1>1, <1>2, <1>3

\* Nobody is inside the cache when the listeners are bound.
LEMMA StartServingStruct ==
    ASSUME StructInv, StartServing
    PROVE  StructInv'
<1> USE DEF StructInv, CacheInv, StartServing
<1>1. TypeOK' /\ Recency'
  BY DEF TypeOK, Recency, Lists, Cached
<1>2. Mutex' /\ Stored' /\ Held' /\ Alone' /\ Private' /\ Condemned'
  BY DEF Mutex, Stored, Held, Alone, Private, Condemned, IsExpired, Fits
<1> QED
  BY <1>1, <1>2

\* What has expired remains so as time passes.
LEMMA TickStruct ==
    ASSUME StructInv, Tick
    PROVE  StructInv'
<1> USE DEF StructInv, CacheInv, Tick
<1>1. TypeOK' /\ Recency'
  BY DEF TypeOK, Recency, Lists, Cached
<1>2. Mutex' /\ Stored' /\ Held' /\ Alone' /\ Private'
  BY DEF Mutex, Stored, Held, Alone, Private, Fits
<1>3. Condemned'
  BY LoadsAssumption DEF Condemned, IsExpired, Held, TypeOK
<1> QED
  BY <1>1, <1>2, <1>3

\* Every step keeps the structure of the cache.
LEMMA StructStep == StructInv /\ [Next]_vars => StructInv'
<1> SUFFICES ASSUME StructInv, [Next]_vars PROVE StructInv'
  OBVIOUS
<1>1. CASE Next
  BY <1>1, GetLookupStruct, GetCheckStruct, RemoveIfSameStruct, PutCallStruct,
     PutLockStruct, PutEvictStruct, PutAddStruct, StartServingStruct, FlushStruct,
     TickStruct
     DEF Next, Proceed
<1>2. CASE UNCHANGED vars
  BY <1>2 DEF vars, StructInv, CacheInv, TypeOK, Recency, Lists, Cached, Mutex,
              Stored, Held, Alone, Private, Condemned, IsExpired, Fits
<1> QED
  BY <1>1, <1>2

-----------------------------------------------------------------------------
(* The byte counter, action by action.                                     *)

\* While files keep their sizes, no entry is ever subtracted twice.
NeverDrifts == FixedSizes => ~drifted

BytesInv == CounterCeiling /\ ByteAccounting /\ CeilingUntilDrift /\ NeverDrifts

Inv == StructInv /\ BytesInv

\* What the structural invariant says of the numbers involved.
LEMMA Numbers ==
    ASSUME StructInv
    PROVE  /\ val \in Entries /\ AllFit(val)
           /\ ResidentBytes \in Nat /\ curBytes \in Int /\ MaxBytes \in Nat
           /\ \A f \in Objects : SizeOf[f] \in Nat /\ SizeOf[f] > 0
           /\ \A g \in Procs : mu = g =>
                 /\ key[g] \in Keys /\ obj[g] \in Objects /\ Fits(obj[g])
                 /\ Pending(g) = IF val[key[g]] # NoFile
                                 THEN SizeOf[val[key[g]]] ELSE 0
                 /\ Pending(g) \in Nat
<1> USE DEF StructInv, CacheInv
<1>1. val \in Entries /\ AllFit(val)
  BY DEF TypeOK, Stored, Entries, AllFit
<1>2. ResidentBytes \in Nat
  BY BytesFinite DEF ResidentBytes
<1>3. curBytes \in Int /\ MaxBytes \in Nat
  BY LimitsAssumption DEF TypeOK
<1>4. \A f \in Objects : SizeOf[f] \in Nat /\ SizeOf[f] > 0
  BY SizeAssumption
<1>5. ASSUME NEW g \in Procs, mu = g
      PROVE  /\ key[g] \in Keys /\ obj[g] \in Objects /\ Fits(obj[g])
             /\ Pending(g) = IF val[key[g]] # NoFile
                             THEN SizeOf[val[key[g]]] ELSE 0
             /\ Pending(g) \in Nat
  <2>1. pc[g] = "evict"
    BY <1>5 DEF Mutex
  <2>2. key[g] \in Keys /\ obj[g] \in Objects /\ Fits(obj[g])
    BY <2>1, LoadsAssumption DEF Held
  <2> QED
    BY <1>4, <2>1, <2>2 DEF Pending, TypeOK
<1> QED
  BY <1>1, <1>2, <1>3, <1>4, <1>5

\* Steps that touch neither the entries nor the counter nor mu.
LEMMA BytesKept ==
    ASSUME BytesInv, StructInv, UNCHANGED <<val, curBytes, mu, drifted>>,
           \A g \in Procs : pc[g] = "evict" => pc'[g] = "evict" /\ key'[g] = key[g]
    PROVE  BytesInv'
<1>1. ResidentBytes' = ResidentBytes
  BY DEF ResidentBytes, BytesOf
<1>2. \A g \in Procs : mu = g => Pending(g)' = Pending(g)
  BY DEF Pending, StructInv, CacheInv, Mutex
<1> QED
  BY <1>1, <1>2 DEF BytesInv, CounterCeiling, ByteAccounting, CeilingUntilDrift,
                             MemoryCeiling, NeverDrifts

\* An expiry takes as much from the counter as from the entries.
LEMMA RemoveIfSameBytes ==
    ASSUME Inv, NEW g \in Procs, RemoveIfSame(g)
    PROVE  BytesInv'
<1> USE DEF Inv, BytesInv
<1>1. mu = NoProc /\ mu' = NoProc /\ NoProc \notin Procs /\ drifted' = drifted
  BY NoProcAssumption DEF RemoveIfSame
<1>2. CASE val[key[g]] = obj[g]
  <2>1. /\ val' = [val EXCEPT ![key[g]] = NoFile]
        /\ curBytes' = curBytes - SizeOf[val[key[g]]]
    BY <1>2 DEF RemoveIfSame
  <2>2. key[g] \in Keys /\ val[key[g]] # NoFile /\ val[key[g]] \in Objects
    BY <1>2, LoadsAssumption, NoFileAssumption DEF RemoveIfSame, StructInv, CacheInv, Held
  <2>3. ResidentBytes' = ResidentBytes - SizeOf[val[key[g]]]
    BY <2>1, <2>2, Numbers, BytesOfDrop DEF ResidentBytes, BytesOf
  <2>4. SizeOf[val[key[g]]] \in Nat /\ curBytes \in Int /\ ResidentBytes \in Nat
          /\ MaxBytes \in Nat
    BY <2>2, Numbers
  <2> QED
    BY <1>1, <2>1, <2>3, <2>4
       DEF CounterCeiling, ByteAccounting, CeilingUntilDrift, MemoryCeiling, NeverDrifts
<1>3. CASE val[key[g]] # obj[g]
  <2>1. UNCHANGED <<val, curBytes, mu, drifted>>
    BY <1>3 DEF RemoveIfSame
  <2>2. \A h \in Procs : pc[h] # "evict"
    BY <1>1 DEF StructInv, CacheInv, Mutex
  <2> QED
    BY <2>1, <2>2, BytesKept
<1> QED
  BY <1>2, <1>3

\* From here on the entry being replaced is pending.
LEMMA PutLockBytes ==
    ASSUME Inv, NEW g \in Procs, PutLock(g)
    PROVE  BytesInv'
<1> USE DEF Inv, BytesInv
<1>1. /\ mu = NoProc /\ mu' = g /\ NoProc \notin Procs
      /\ pc'[g] = "evict" /\ key' = key /\ val' = val /\ drifted' = drifted
  BY NoProcAssumption DEF PutLock, StructInv, TypeOK
<1>2. ResidentBytes' = ResidentBytes
  BY <1>1 DEF ResidentBytes, BytesOf
<1>3. key[g] \in Keys
  BY DEF PutLock, StructInv, CacheInv, Held
<1>4. curBytes' = curBytes - Pending(g)'
  BY <1>1, <1>3, Numbers DEF PutLock, Pending, Cached
<1>5. Pending(g)' \in Nat
  BY <1>1, <1>3, Numbers DEF Pending, StructInv, TypeOK
<1>6. curBytes \in Int /\ ResidentBytes \in Nat /\ MaxBytes \in Nat
  BY Numbers
<1> QED
  BY <1>1, <1>2, <1>4, <1>5, <1>6
     DEF CounterCeiling, ByteAccounting, CeilingUntilDrift, MemoryCeiling, NeverDrifts

\* The loop reaches the entry that the Put replaces only if the new file is
\* larger: otherwise, with the old size subtracted, there is room already.
LEMMA EvictsOwnOnlyOnGrowth ==
    ASSUME Inv, ~drifted, NEW g \in Procs, PutEvict(g), val[key[g]] # NoFile
    PROVE  SizeOf[obj[g]] > SizeOf[val[key[g]]]
<1> USE DEF Inv, StructInv, CacheInv
<1>1. pc[g] = "evict" /\ mu = g
  BY DEF PutEvict, Mutex
<1>2. key[g] \in Keys /\ val[key[g]] \in Objects /\ obj[g] \in Objects
  BY <1>1, Numbers DEF TypeOK
<1>3. curBytes = ResidentBytes - SizeOf[val[key[g]]] /\ ResidentBytes <= MaxBytes
  BY <1>1, Numbers DEF BytesInv, ByteAccounting, CeilingUntilDrift, MemoryCeiling
<1>4. curBytes + SizeOf[obj[g]] > MaxBytes
  BY DEF PutEvict, NeedsRoom
<1> QED
  BY <1>1, <1>2, <1>3, <1>4, Numbers

\* An eviction takes at most as much from the entries as from the counter.
LEMMA PutEvictBytes ==
    ASSUME Inv, NEW g \in Procs, PutEvict(g)
    PROVE  BytesInv'
<1> USE DEF Inv, StructInv, CacheInv
<1> DEFINE h == Head(lru)
<1>1. mu = g /\ mu' = g /\ NoProc \notin Procs /\ UNCHANGED <<pc, key>>
  BY NoProcAssumption DEF PutEvict, Mutex
<1>2. pc[g] = "evict"
  BY DEF PutEvict
<1>3. Cached \in SUBSET Keys /\ Len(lru) > 0
  BY DEF Cached, PutEvict, NeedsRoom
<1>4. h \in Cached
  BY <1>3, TailLists DEF Recency, TypeOK
<1>5. h \in Keys /\ val[h] # NoFile /\ val[h] \in Objects
  BY <1>4 DEF Cached, TypeOK
<1>6. /\ val' = [val EXCEPT ![h] = NoFile] /\ curBytes' = curBytes - SizeOf[val[h]]
      /\ drifted' = (drifted \/ h = key[g])
  BY DEF PutEvict
<1> HIDE DEF h
<1>7. ResidentBytes' = ResidentBytes - SizeOf[val[h]]
  BY <1>5, <1>6, Numbers, BytesOfDrop DEF ResidentBytes, BytesOf
<1>8. /\ SizeOf[val[h]] \in Nat /\ Pending(g) \in Nat /\ ResidentBytes \in Nat
      /\ curBytes \in Int /\ MaxBytes \in Nat /\ key[g] \in Keys
  BY <1>1, <1>5, Numbers
<1>9. Pending(g)' = IF h = key[g] THEN 0 ELSE Pending(g)
  BY <1>1, <1>2, <1>5, <1>6, <1>8 DEF Pending, TypeOK
<1>10. CounterCeiling'
  <2>1. curBytes <= ResidentBytes - Pending(g)
    BY <1>1 DEF BytesInv, CounterCeiling
  <2>2. curBytes' <= ResidentBytes' - Pending(g)'
    BY <1>6, <1>7, <1>8, <1>9, <2>1
  <2> QED
    BY <1>1, <2>2 DEF CounterCeiling
<1>11. ByteAccounting' /\ CeilingUntilDrift'
  <2> SUFFICES ASSUME ~drifted, h # key[g]
               PROVE  curBytes' = ResidentBytes' - Pending(g)' /\ MemoryCeiling'
    BY <1>1, <1>6 DEF ByteAccounting, CeilingUntilDrift
  <2>1. curBytes = ResidentBytes - Pending(g) /\ ResidentBytes <= MaxBytes
    BY <1>1 DEF BytesInv, ByteAccounting, CeilingUntilDrift, MemoryCeiling
  <2> QED
    BY <1>6, <1>7, <1>8, <1>9, <2>1 DEF MemoryCeiling
<1>12. NeverDrifts'
  <2> SUFFICES ASSUME FixedSizes, h = key[g] PROVE FALSE
    BY <1>6 DEF BytesInv, NeverDrifts, FixedSizes
  <2>1. ~drifted
    BY DEF BytesInv, NeverDrifts
  <2>2. SizeOf[obj[g]] > SizeOf[val[key[g]]]
    BY <1>5, <2>1, EvictsOwnOnlyOnGrowth
  <2>3. val[key[g]] \in Loads[key[g]] /\ obj[g] \in Loads[key[g]]
    BY <1>2, <1>5, <1>8 DEF Stored, Held
  <2>4. SizeOf[val[key[g]]] = SizeOf[obj[g]]
    BY <1>8, <2>3 DEF FixedSizes
  <2>5. SizeOf[obj[g]] \in Nat
    BY <1>1, Numbers
  <2> QED
    BY <2>2, <2>4, <2>5
<1> QED
  BY <1>10, <1>11, <1>12 DEF BytesInv

\* When Put leaves its loop the new file fits beside what stays, measured by
\* the counter; an emptied cache has no byte left.
LEMMA RoomAfterLoop ==
    ASSUME Inv, NEW g \in Procs, PutAdd(g)
    PROVE  /\ curBytes + SizeOf[obj[g]] <= MaxBytes
           /\ mu = g
<1> USE DEF Inv, StructInv, CacheInv
<1>1. mu = g
  BY DEF PutAdd, Mutex
<1>2. /\ SizeOf[obj[g]] \in Nat /\ SizeOf[obj[g]] <= MaxBytes
      /\ curBytes \in Int /\ MaxBytes \in Nat /\ Pending(g) \in Nat
      /\ ResidentBytes \in Nat
  BY <1>1, Numbers DEF Fits
<1>3. CASE curBytes + SizeOf[obj[g]] > MaxBytes
  <2>1. lru \in Seq(Keys) /\ ~(Len(lru) > 0)
    BY <1>3 DEF PutAdd, NeedsRoom, TypeOK
  <2>2. DOMAIN lru = {}
    BY <2>1
  <2>3. \A k \in Keys : val[k] = NoFile
    BY <2>2 DEF Recency, Lists, Cached
  <2>4. ResidentBytes = 0
    BY <2>3, BytesOfNone DEF ResidentBytes
  <2>5. curBytes <= ResidentBytes - Pending(g)
    BY <1>1 DEF BytesInv, CounterCeiling
  <2> QED
    BY <1>1, <1>2, <2>4, <2>5
<1> QED
  BY <1>1, <1>2, <1>3

\* At the unlock the new file is counted and nothing is pending.
LEMMA PutAddBytes ==
    ASSUME Inv, NEW g \in Procs, PutAdd(g)
    PROVE  BytesInv'
<1> USE DEF Inv
<1> DEFINE k == key[g]
           n == SizeOf[obj[g]]
           w == [val EXCEPT ![k] = obj[g]]
           W == Cardinality(BytesOf(w))
<1>1. mu = g /\ mu' = NoProc /\ NoProc \notin Procs /\ curBytes + n <= MaxBytes
  BY RoomAfterLoop, NoProcAssumption DEF PutAdd
<1>2. /\ k \in Keys /\ obj[g] \in Objects /\ Fits(obj[g]) /\ n \in Nat
      /\ val \in Entries /\ AllFit(val)
      /\ Pending(g) = IF val[k] # NoFile THEN SizeOf[val[k]] ELSE 0
      /\ Pending(g) \in Nat
      /\ curBytes \in Int /\ MaxBytes \in Nat /\ ResidentBytes \in Nat
  BY <1>1, Numbers
<1>3. W = ResidentBytes - Pending(g) + n
  <2>1. CASE val[k] = NoFile
    <3>1. W = ResidentBytes + n
      BY <1>2, <2>1, BytesOfStore DEF ResidentBytes
    <3> QED
      BY <1>2, <2>1, <3>1
  <2>2. CASE val[k] # NoFile
    <3>1. W = ResidentBytes - SizeOf[val[k]] + n
      BY <1>2, <2>2, BytesOfReplace DEF ResidentBytes
    <3> QED
      BY <1>2, <2>2, <3>1
  <2> QED
    BY <2>1, <2>2
<1>4. w \in Entries /\ AllFit(w) /\ \A j \in Keys \ {k} : w[j] = val[j]
  BY <1>2 DEF Entries, AllFit
<1>5. PICK d \in Nat : curBytes' = curBytes + n - d /\ ResidentBytes' = W - d
  <2>1. CASE val' = w /\ curBytes' = curBytes + n
    <3>1. ResidentBytes' = W
      BY <2>1 DEF ResidentBytes, BytesOf
    <3>2. W \in Int /\ curBytes \in Int /\ n \in Int
      BY <1>2, <1>3
    <3> HIDE DEF W, n
    <3>3. curBytes' = curBytes + n - 0 /\ ResidentBytes' = W - 0
      BY <2>1, <3>1, <3>2
    <3> QED
      BY <3>3
  <2>2. ASSUME NEW h \in Keys \ {k}, val[h] \in Objects,
               val' = [val EXCEPT ![k] = obj[g], ![h] = NoFile],
               curBytes' = curBytes + n - SizeOf[val[h]]
        PROVE  \E d \in Nat : curBytes' = curBytes + n - d /\ ResidentBytes' = W - d
    <3>1. w[h] = val[h] /\ w[h] # NoFile /\ SizeOf[w[h]] \in Nat
      BY <1>4, <2>2, NoFileAssumption, SizeAssumption
    <3>2. val' = [w EXCEPT ![h] = NoFile]
      BY <2>2
    <3> HIDE DEF w
    <3>3. Cardinality(BytesOf([w EXCEPT ![h] = NoFile])) = W - SizeOf[w[h]]
      BY <1>4, <2>2, <3>1, BytesOfDrop
    <3>4. ResidentBytes' = W - SizeOf[w[h]]
      BY <3>2, <3>3 DEF ResidentBytes, BytesOf
    <3> QED
      BY <2>2, <3>1, <3>4
  <2> QED
    BY <2>1, <2>2, PutAddEffect
<1>6. CounterCeiling'
  <2>1. curBytes <= ResidentBytes - Pending(g)
    BY <1>1 DEF BytesInv, CounterCeiling
  <2>2. curBytes' <= ResidentBytes' /\ curBytes' <= MaxBytes
    BY <1>1, <1>2, <1>3, <1>5, <2>1
  <2> QED
    BY <1>1, <2>2 DEF CounterCeiling
<1>7. drifted' = drifted
  BY DEF PutAdd
<1>8. ByteAccounting' /\ CeilingUntilDrift'
  <2> SUFFICES ASSUME ~drifted PROVE curBytes' = ResidentBytes' /\ MemoryCeiling'
    BY <1>1, <1>7 DEF ByteAccounting, CeilingUntilDrift
  <2>1. curBytes = ResidentBytes - Pending(g)
    BY <1>1 DEF BytesInv, ByteAccounting
  <2> QED
    BY <1>1, <1>2, <1>3, <1>5, <2>1 DEF MemoryCeiling
<1> QED
  BY <1>6, <1>7, <1>8 DEF BytesInv, NeverDrifts, FixedSizes

\* No entry, no byte.
LEMMA FlushBytes ==
    ASSUME Inv, Flush
    PROVE  BytesInv'
<1>1. ResidentBytes' = 0
  <2>1. \A k \in Keys : val'[k] = NoFile
    BY DEF Flush
  <2> QED
    BY <2>1, BytesOfNone DEF ResidentBytes, BytesOf
<1>2. /\ curBytes' = 0 /\ mu' = NoProc /\ NoProc \notin Procs /\ MaxBytes \in Nat
      /\ drifted' = FALSE
  BY NoProcAssumption, LimitsAssumption DEF Flush
<1> QED
  BY <1>1, <1>2 DEF BytesInv, CounterCeiling, ByteAccounting, CeilingUntilDrift,
                             MemoryCeiling, NeverDrifts

\* The inductive invariant holds initially.
LEMMA InitInv == Init => Inv
<1> SUFFICES ASSUME Init PROVE Inv
  OBVIOUS
<1>1. StructInv
  BY InitStruct
<1>2. ResidentBytes = 0
  BY BytesOfNone DEF Init, ResidentBytes
<1>3. /\ curBytes = 0 /\ mu = NoProc /\ NoProc \notin Procs /\ MaxBytes \in Nat
      /\ drifted = FALSE
  BY NoProcAssumption, LimitsAssumption DEF Init
<1> QED
  BY <1>1, <1>2, <1>3 DEF Inv, BytesInv, CounterCeiling, ByteAccounting,
                         CeilingUntilDrift, MemoryCeiling, NeverDrifts

\* Every step keeps the inductive invariant.
LEMMA InvStep == Inv /\ [Next]_vars => Inv'
<1> SUFFICES ASSUME Inv, [Next]_vars PROVE BytesInv'
  BY StructStep DEF Inv
<1>1. ASSUME NEW g \in Procs, NEW k \in Keys, GetLookup(g, k)
      PROVE  BytesInv'
  BY <1>1, BytesKept DEF GetLookup, Inv, StructInv, TypeOK
<1>2. ASSUME NEW g \in Procs, NEW k \in Keys, NEW f \in Objects, PutCall(g, k, f)
      PROVE  BytesInv'
  BY <1>2, BytesKept DEF PutCall, Inv, StructInv, TypeOK
<1>3. ASSUME NEW g \in Procs, GetCheck(g)
      PROVE  BytesInv'
  BY <1>3, BytesKept DEF GetCheck, Return, Inv, StructInv, TypeOK
<1>4. CASE StartServing \/ Tick \/ UNCHANGED vars
  BY <1>4, BytesKept DEF StartServing, Tick, vars, Inv
<1> QED
  BY <1>1, <1>2, <1>3, <1>4, RemoveIfSameBytes, PutLockBytes, PutEvictBytes,
     PutAddBytes, FlushBytes DEF Next, Proceed

-----------------------------------------------------------------------------
(* Theorems.                                                               *)

\* The inductive invariant holds in every reachable state.
THEOREM Invariance == Spec => []Inv
  BY InitInv, InvStep, PTL DEF Spec

\* Every variable of the cache keeps its type through every interleaving of
\* Get, Put, the expiry path and Flush.
THEOREM TypeCorrect == Spec => []TypeOK
<1>1. Inv => TypeOK
  BY DEF Inv, StructInv
<1> QED
  BY <1>1, Invariance, PTL

\* The map and the recency list of the LRU hold the same keys, mu is held by at
\* most one goroutine, and every stored or held file is one of its own key.
THEOREM StructureCorrect == Spec => []CacheInv
<1>1. Inv => CacheInv
  BY DEF Inv, StructInv
<1> QED
  BY <1>1, Invariance, PTL

\* The counter of cache.go never reports more than is stored and, between
\* critical sections, never more than maxBytes, even when files change size.
THEOREM CounterCorrect == Spec => []CounterCeiling
<1>1. Inv => CounterCeiling
  BY DEF Inv, BytesInv
<1> QED
  BY <1>1, Invariance, PTL

\* Until a Put evicts the very entry it replaces, curBytes is exactly the sum
\* of the stored entries whatever Get does between the steps of a Put.
THEOREM AccountingCorrect == Spec => []ByteAccounting
<1>1. Inv => ByteAccounting
  BY DEF Inv, BytesInv
<1> QED
  BY <1>1, Invariance, PTL

\* Until then the stored files never exceed maxBytes.
THEOREM CeilingUntilDriftHolds == Spec => []CeilingUntilDrift
<1>1. Inv => CeilingUntilDrift
  BY DEF Inv, BytesInv
<1> QED
  BY <1>1, Invariance, PTL

\* While files keep their sizes, the stored files never exceed maxBytes.
THEOREM CeilingHolds == FixedSizes /\ Spec => []MemoryCeiling
<1>1. Inv => (FixedSizes => MemoryCeiling)
  BY DEF Inv, BytesInv, CeilingUntilDrift, NeverDrifts
<1>2. CASE FixedSizes
  <2>1. Inv => MemoryCeiling
    BY <1>1, <1>2
  <2> QED
    BY <2>1, Invariance, PTL
<1>3. CASE ~FixedSizes
  BY <1>3
<1> QED
  BY <1>2, <1>3

\* The counter goes wrong only when a Put replaces an entry by a larger file.
THEOREM DriftCorrect == Spec => DriftsOnlyOnGrowth
<1> DEFINE A == ~drifted /\ drifted' =>
                  \E g \in Procs : /\ pc[g] = "evict" /\ val[key[g]] # NoFile
                                   /\ SizeOf[obj[g]] > SizeOf[val[key[g]]]
<1>1. Inv /\ [Next]_vars => A
  <2> SUFFICES ASSUME Inv, [Next]_vars, ~drifted, drifted'
               PROVE  \E g \in Procs : /\ pc[g] = "evict" /\ val[key[g]] # NoFile
                                       /\ SizeOf[obj[g]] > SizeOf[val[key[g]]]
    OBVIOUS
  <2>1. PICK g \in Procs : PutEvict(g)
    BY DEF Next, Proceed, GetLookup, PutCall, GetCheck, RemoveIfSame, PutLock, PutAdd,
           StartServing, Flush, Tick, vars
  <2>2. pc[g] = "evict" /\ Head(lru) = key[g]
    BY <2>1 DEF PutEvict
  <2>3. val[key[g]] # NoFile
    <3>1. /\ Cached \in SUBSET Keys /\ Len(lru) > 0
          /\ lru \in Seq(Keys) /\ Lists(lru, Cached)
      BY <2>1 DEF Cached, PutEvict, NeedsRoom, Inv, StructInv, CacheInv, TypeOK, Recency
    <3>2. Head(lru) \in Cached
      BY <3>1, TailLists
    <3> QED
      BY <2>2, <3>2 DEF Cached
  <2> QED
    BY <2>1, <2>2, <2>3, EvictsOwnOnlyOnGrowth
<1> QED
  BY <1>1, Invariance, PTL DEF Spec, DriftsOnlyOnGrowth

\* Put drops an entry only when what would stay, the entry it replaces apart,
\* and the new file exceed the bytes or the items allowed, even when files
\* change size and lru.Add does the dropping.
THEOREM EvictionCorrect == Spec => EvictsOnlyForRoom
<1> DEFINE Drops == \E k \in Keys : val[k] # NoFile /\ val'[k] = NoFile
           Full(g) == \/ ResidentBytes - Pending(g) + SizeOf[obj[g]] > MaxBytes
                      \/ Cardinality(Cached \cup {key[g]}) > MaxItems
<1>1. Inv /\ [Next]_vars => \A g \in Procs : pc[g] = "evict" /\ Drops => Full(g)
  <2> SUFFICES ASSUME Inv, [Next]_vars, NEW g \in Procs,
                      pc[g] = "evict", NEW k \in Keys, val[k] # NoFile, val'[k] = NoFile
               PROVE  Full(g)
    OBVIOUS
  <2> USE DEF Inv, StructInv, CacheInv
  <2>1. mu = g /\ mu # NoProc /\ \A h \in Procs : pc[h] = "evict" => h = g
    BY NoProcAssumption DEF Mutex
  <2>2. PICK h \in Procs : PutEvict(h) \/ PutAdd(h)
    BY <2>1 DEF Next, Proceed, GetLookup, PutCall, GetCheck, RemoveIfSame, PutLock,
                StartServing, Flush, Tick, vars
  <2>3. h = g
    BY <2>1, <2>2 DEF PutEvict, PutAdd
  <2>4. CASE PutEvict(g)
    <3>1. curBytes + SizeOf[obj[g]] > MaxBytes
      BY <2>4 DEF PutEvict, NeedsRoom
    <3>2. curBytes <= ResidentBytes - Pending(g)
      BY <2>1 DEF BytesInv, CounterCeiling
    <3> QED
      BY <2>1, <3>1, <3>2, Numbers
  <2>5. CASE PutAdd(g)
    <3> DEFINE s == Promote(lru, key[g])
    <3>1. /\ key[g] \in Keys /\ obj[g] \in Objects
          /\ s \in Seq(Keys) /\ Lists(s, Cached \cup {key[g]})
      BY <2>5, PutAddEffect
    <3>2. Cardinality(Cached \cup {key[g]}) = Len(s)
      <4>1. Cached \cup {key[g]} \in SUBSET Keys
        BY <3>1 DEF Cached
      <4> HIDE DEF s
      <4> QED
        BY <3>1, <4>1, ListedLen
    <3>3. Len(s) > MaxItems
      <4> SUFFICES ASSUME ~(Len(s) > MaxItems) PROVE FALSE
        OBVIOUS
      <4>1. val' = [val EXCEPT ![key[g]] = obj[g]]
        BY <2>5 DEF PutAdd
      <4> QED
        BY <3>1, <4>1, NoFileAssumption DEF TypeOK
    <3> QED
      BY <3>2, <3>3
  <2> QED
    BY <2>2, <2>3, <2>4, <2>5
<1> QED
  BY <1>1, Invariance, PTL DEF Spec, EvictsOnlyForRoom

\* The compare-and-remove of an expired entry never drops an entry that has
\* not expired, however late the remover gets mu.
THEOREM ExpiryCorrect == Spec => ExpiryDropsOnlyExpired
<1> DEFINE A == \A g \in Procs, k \in Keys :
                  pc[g] = "expired" /\ pc'[g] = "idle" /\ val'[k] # val[k]
                    => k = key[g] /\ IsExpired(val[k])
<1>1. Inv /\ [Next]_vars => A
  <2> SUFFICES ASSUME Inv, [Next]_vars, NEW g \in Procs, NEW k \in Keys,
                      pc[g] = "expired", pc'[g] = "idle", val'[k] # val[k]
               PROVE  k = key[g] /\ IsExpired(val[k])
    OBVIOUS
  <2> USE DEF Inv, StructInv, CacheInv
  <2>1. RemoveIfSame(g)
    BY DEF Next, Proceed, GetLookup, PutCall, GetCheck, RemoveIfSame, PutLock,
           PutEvict, PutAdd, Return, StartServing, Flush, Tick, vars, TypeOK
  <2>2. key[g] \in Keys /\ IsExpired(obj[g])
    BY DEF Held, Condemned
  <2> QED
    BY <2>1, <2>2 DEF RemoveIfSame, TypeOK
<1> QED
  BY <1>1, Invariance, PTL DEF Spec, ExpiryDropsOnlyExpired

\* Until its counter drifts the cache implements the abstract store.
THEOREM Refinement == Spec => ImplementsStore
<1>1. Init => Store!Init
  BY DEF Init, Store!Init, Promised
<1>2. ASSUME Inv, Inv', [Next]_vars
      PROVE  [Store!Next]_Promised
  <2> USE DEF Inv, StructInv, CacheInv
  <2>1. val \in Entries /\ val' \in Entries
    BY <1>2 DEF TypeOK, Entries
  <2>2. ASSUME NEW D \in SUBSET Keys,
               \A j \in Keys : Promised'[j] = IF j \in D THEN NoFile ELSE Promised[j]
        PROVE  Store!Next
    <3>1. Promised' \in [Keys -> Objects \cup {NoFile}]
      BY <2>1 DEF Promised, Entries
    <3>2. Store!Forget(D)
      BY <2>2, <3>1 DEF Store!Forget
    <3> QED
      BY <3>2 DEF Store!Next
  <2>3. CASE drifted'
    <3>1. \A j \in Keys : Promised'[j] = IF j \in Keys THEN NoFile ELSE Promised[j]
      BY <2>3 DEF Promised
    <3> QED
      BY <2>2, <3>1
  <2>4. CASE ~drifted' /\ drifted
    <3>1. Flush
      BY <1>2, <2>4 DEF Next, Proceed, GetLookup, PutCall, GetCheck, RemoveIfSame,
                        PutLock, PutEvict, PutAdd, StartServing, Tick, vars
    <3>2. \A j \in Keys : Promised'[j] = IF j \in Keys THEN NoFile ELSE Promised[j]
      BY <2>4, <3>1 DEF Flush, Promised
    <3> QED
      BY <2>2, <3>2
  <2>5. CASE ~drifted' /\ ~drifted
    <3>1. Promised = val /\ Promised' = val'
      BY <2>5 DEF Promised
    <3>2. ASSUME NEW D \in SUBSET Keys,
                 \A j \in Keys : val'[j] = IF j \in D THEN NoFile ELSE val[j]
          PROVE  Store!Next
      <4>1. \A j \in Keys : Promised'[j] = IF j \in D THEN NoFile ELSE Promised[j]
        BY <3>1, <3>2
      <4> QED
        BY <2>2, <4>1
    <3>3. ASSUME NEW g \in Procs, RemoveIfSame(g)
          PROVE  [Store!Next]_Promised
      <4>1. CASE val[key[g]] = obj[g]
        <5>1. key[g] \in Keys
          BY <1>2, <3>3 DEF Held, RemoveIfSame
        <5>2. \A j \in Keys : val'[j] = IF j \in {key[g]} THEN NoFile ELSE val[j]
          BY <2>1, <3>3, <4>1, <5>1 DEF RemoveIfSame, Entries
        <5> QED
          BY <3>2, <5>1, <5>2
      <4>2. CASE val[key[g]] # obj[g]
        BY <3>1, <3>3, <4>2 DEF RemoveIfSame
      <4> QED
        BY <4>1, <4>2
    <3>4. ASSUME NEW g \in Procs, PutEvict(g)
          PROVE  Store!Next
      <4>1. Cached \in SUBSET Keys /\ Len(lru) > 0
        BY <3>4 DEF Cached, PutEvict, NeedsRoom
      <4>2. Head(lru) \in Keys
        <5>1. lru \in Seq(Keys) /\ Lists(lru, Cached)
          BY <1>2 DEF TypeOK, Recency
        <5>2. Head(lru) \in Cached
          BY <4>1, <5>1, TailLists
        <5> QED
          BY <5>2 DEF Cached
      <4>3. \A j \in Keys : val'[j] = IF j \in {Head(lru)} THEN NoFile ELSE val[j]
        BY <2>1, <3>4, <4>2 DEF PutEvict, Entries
      <4> QED
        BY <3>2, <4>2, <4>3
    <3>5. ASSUME NEW g \in Procs, PutAdd(g)
          PROVE  Store!Next
      <4> DEFINE k == key[g]
      <4>1. k \in Keys /\ obj[g] \in Objects /\ obj[g] \in Loads[k]
        BY <1>2, <3>5, PutAddEffect
      <4>2. PICK D \in SUBSET Keys : /\ k \notin D
                                     /\ \A j \in Keys : val'[j] = IF j = k THEN obj[g]
                                          ELSE IF j \in D THEN NoFile ELSE val[j]
        <5>1. CASE val' = [val EXCEPT ![k] = obj[g]]
          <6>1. \A j \in Keys : val'[j] = IF j = k THEN obj[g]
                                  ELSE IF j \in {} THEN NoFile ELSE val[j]
            BY <2>1, <4>1, <5>1 DEF Entries
          <6> WITNESS {} \in SUBSET Keys
          <6> QED
            BY <6>1
        <5>2. ASSUME NEW h \in Keys \ {k},
                     val' = [val EXCEPT ![k] = obj[g], ![h] = NoFile]
              PROVE  \E D \in SUBSET Keys :
                        /\ k \notin D
                        /\ \A j \in Keys : val'[j] = IF j = k THEN obj[g]
                             ELSE IF j \in D THEN NoFile ELSE val[j]
          <6>1. \A j \in Keys : val'[j] = IF j = k THEN obj[g]
                                  ELSE IF j \in {h} THEN NoFile ELSE val[j]
            BY <2>1, <4>1, <5>2 DEF Entries
          <6> QED
            BY <5>2, <6>1
        <5> QED
          BY <1>2, <3>5, <5>1, <5>2, PutAddEffect
      <4>3. AtMostMaxBytes(Promised')
        <5>1. ResidentBytes' <= MaxBytes
          BY <1>2, <2>5 DEF BytesInv, CeilingUntilDrift, MemoryCeiling
        <5>2. ResidentBytes' = Cardinality(BytesOf(val'))
          BY DEF ResidentBytes, BytesOf
        <5> QED
          BY <3>1, <5>1, <5>2 DEF AtMostMaxBytes
      <4>4. Promised' = [j \in Keys |-> IF j = k THEN obj[g]
                                   ELSE IF j \in D \ {k} THEN NoFile ELSE Promised[j]]
        BY <2>1, <3>1, <4>2 DEF Entries
      <4> HIDE DEF k
      <4>5. Store!Save(k, obj[g], D \ {k})
        BY <4>1, <4>3, <4>4 DEF Store!Save
      <4> QED
        BY <4>1, <4>5 DEF Store!Next
    <3>6. CASE Flush
      <4>1. \A j \in Keys : val'[j] = IF j \in Keys THEN NoFile ELSE val[j]
        BY <3>6 DEF Flush
      <4> QED
        BY <3>2, <4>1
    <3>7. CASE \/ \E g \in Procs, k \in Keys : GetLookup(g, k)
               \/ \E g \in Procs, k \in Keys, f \in Objects : PutCall(g, k, f)
               \/ \E g \in Procs : GetCheck(g) \/ PutLock(g)
               \/ StartServing \/ Tick \/ UNCHANGED vars
      <4>1. val' = val
        BY <3>7 DEF GetLookup, PutCall, GetCheck, PutLock, StartServing, Tick, vars
      <4> QED
        BY <3>1, <4>1
    <3> QED
      BY <1>2, <3>3, <3>4, <3>5, <3>6, <3>7 DEF Next, Proceed
  <2> QED
    BY <2>3, <2>4, <2>5
<1> QED
  BY <1>1, <1>2, Invariance, PTL DEF Spec, ImplementsStore, Store!Spec

=============================================================================

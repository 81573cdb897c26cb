-------------------------- MODULE RangeServingProofs --------------------------
(*****************************************************************************)
(* Proofs about RangeServing, for headers of any length, any versions with   *)
(* any sizes and dates, and any limits: what is answered is what RFC 9110    *)
(* says the header asks for, and the file handle is closed exactly once.     *)
(*****************************************************************************)
EXTENDS RangeServing, RangeParseProofs, FiniteSetTheorems

-----------------------------------------------------------------------------
(* What an element selects.                                                  *)

\* A valid element that is not unsatisfiable selects its HttpRange.
LEMMA SelectedRange ==
    ASSUME NEW e \in Elements, WellFormed(e), size \in Nat, ~Unsatisfiable(e)
    PROVE  LET r == HttpRange(e)
           IN /\ r \in [start : Nat, length : Nat] /\ r.length > 0
              /\ Selected(e) = r.start .. (r.start + r.length - 1)
              /\ IsFiniteSet(Selected(e)) /\ Cardinality(Selected(e)) = r.length
              /\ Selected(e) # {}
<1> DEFINE r == HttpRange(e)
<1>1. r \in [start : Nat, length : Nat] /\ r.length > 0 /\ r.start + r.length <= size
  BY HttpRangeInside
<1>2. e.first \in Numbers /\ e.last \in Numbers
  BY ElementFields DEF WellFormed
<1>3. Selected(e) = r.start .. (r.start + r.length - 1)
  <2>1. CASE e.first = Absent
    <3>1. e.last \in Nat /\ e.last > 0 /\ size > 0
      BY <1>2, <2>1, ElementAssumption DEF WellFormed, Unsatisfiable, Numbers, NotANumber
    <3>2. \/ e.last > size /\ r.start = 0 /\ r.length = size
          \/ ~(e.last > size) /\ r.start = size - e.last /\ r.length = e.last
      BY <2>1, <3>1 DEF HttpRange
    <3> HIDE DEF r
    <3> QED
      BY <1>1, <2>1, <3>1, <3>2 DEF Selected
  <2>2. CASE e.first # Absent
    <3>1. e.first \in Nat /\ e.first < size
      BY <1>2, <2>2, ElementAssumption DEF WellFormed, Unsatisfiable, Numbers, NotANumber
    <3>2. e.last # Absent => e.last \in Nat /\ e.last >= e.first
      BY <1>2, <2>2, <3>1, ElementAssumption DEF WellFormed, Numbers, NotANumber
    <3>3. /\ r.start = e.first
          /\ \/ e.last # Absent /\ e.last < size - 1 /\ r.length = e.last - e.first + 1
             \/ ~(e.last # Absent /\ e.last < size - 1) /\ r.length = size - 1 - e.first + 1
      BY <2>2, <3>1, <3>2 DEF HttpRange
    <3> HIDE DEF r
    <3> QED
      BY <1>1, <2>2, <3>1, <3>2, <3>3 DEF Selected
  <2> QED
    BY <2>1, <2>2
<1>4. r.start \in Nat /\ r.length \in Nat
  BY <1>1
<1> HIDE DEF r
<1>5. /\ IsFiniteSet(r.start .. (r.start + r.length - 1))
      /\ Cardinality(r.start .. (r.start + r.length - 1)) = r.length
  <2> DEFINE a == r.start
             b == r.start + r.length - 1
  <2>1. a \in Int /\ b \in Int /\ ~(a > b) /\ b - a + 1 = r.length
    BY <1>1, <1>4
  <2> HIDE DEF a, b
  <2>2. IsFiniteSet(a .. b) /\ Cardinality(a .. b) = r.length
    BY <2>1, FS_Interval
  <2> QED
    BY <2>2 DEF a, b
<1>6. Selected(e) # {}
  BY <1>1, <1>3, <1>4
<1>7. /\ IsFiniteSet(Selected(e)) /\ Cardinality(Selected(e)) = r.length
  BY <1>3, <1>5
<1> QED
  BY <1>1, <1>3, <1>6, <1>7 DEF r

\* An unsatisfiable one selects nothing.
LEMMA SelectedNothing ==
    ASSUME NEW e \in Elements, WellFormed(e), size \in Nat, Unsatisfiable(e)
    PROVE  Selected(e) = {}
<1>1. e.first \in Numbers /\ e.last \in Numbers
  BY ElementFields DEF WellFormed
<1>2. CASE e.first = Absent
  <2>1. e.last \in Nat
    BY <1>1, <1>2, ElementAssumption DEF WellFormed, Numbers, NotANumber
  <2> QED
    BY <1>2, <2>1 DEF Unsatisfiable, Selected
<1>3. CASE e.first # Absent
  <2>1. e.first \in Nat /\ e.first >= size
    BY <1>1, <1>3, ElementAssumption DEF WellFormed, Unsatisfiable, Numbers, NotANumber
  <2> QED
    BY <1>3, <2>1 DEF Selected
<1> QED
  BY <1>2, <1>3

-----------------------------------------------------------------------------
(* Counting.                                                                 *)

LEMMA PlacesFinite ==
    ASSUME header \in Seq(Elements)
    PROVE  /\ IsFiniteSet(Specs) /\ Specs \subseteq 1 .. Len(header)
           /\ IsFiniteSet(Wanted) /\ Wanted \subseteq Specs
<1>1. Len(header) \in Nat /\ DOMAIN header = 1 .. Len(header)
  OBVIOUS
<1>2. IsFiniteSet(1 .. Len(header))
  BY <1>1, FS_Interval
<1>3. Specs \subseteq 1 .. Len(header) /\ Wanted \subseteq Specs
  BY <1>1 DEF Specs, Wanted
<1>4. IsFiniteSet(Specs)
  BY <1>2, <1>3, FS_Subset
<1> QED
  BY <1>3, <1>4, FS_Subset

\* The bytes of finitely many places are finitely many, and another place
\* adds what it selects.
LEMMA BytesFinite ==
    ASSUME NEW places, IsFiniteSet(places), size \in Nat
    PROVE  IsFiniteSet(Bytes(places)) /\ Cardinality(Bytes(places)) \in Nat
<1>1. IsFiniteSet(0 .. size - 1)
  BY FS_Interval
<1>2. IsFiniteSet(places \X (0 .. size - 1))
  BY <1>1, FS_Product
<1>3. Bytes(places) \subseteq places \X (0 .. size - 1)
  BY DEF Bytes
<1>4. IsFiniteSet(Bytes(places))
  BY <1>2, <1>3, FS_Subset
<1> QED
  BY <1>4, FS_CardinalityType

LEMMA BytesAdd ==
    ASSUME NEW places, IsFiniteSet(places), size \in Nat, NEW n, n \notin places,
           IsFiniteSet(Selected(header[n]))
    PROVE  Cardinality(Bytes(places \cup {n}))
             = Cardinality(Bytes(places)) + Cardinality(Selected(header[n]))
<1> DEFINE T == Selected(header[n])
           P == {n} \X T
<1>1. T \subseteq 0 .. size - 1
  BY DEF Selected
<1>2. Bytes(places \cup {n}) = Bytes(places) \cup P
  BY <1>1 DEF Bytes
<1>3. Bytes(places) \cap P = {}
  BY DEF Bytes
<1> HIDE DEF T
<1>4. IsFiniteSet({n}) /\ Cardinality({n}) = 1
  BY FS_Singleton
<1>5. IsFiniteSet(T) /\ Cardinality(T) \in Nat
  BY FS_CardinalityType DEF T
<1>6. IsFiniteSet(P) /\ Cardinality(P) = 1 * Cardinality(T)
  BY <1>4, <1>5, FS_Product
<1> HIDE DEF P
<1>7. IsFiniteSet(Bytes(places)) /\ Cardinality(Bytes(places)) \in Nat
  BY BytesFinite
<1>8. Cardinality(Bytes(places) \cup P)
        = Cardinality(Bytes(places)) + Cardinality(P) - Cardinality(Bytes(places) \cap P)
  BY <1>6, <1>7, FS_Union
<1>9. Cardinality(Bytes(places) \cap P) = 0
  BY <1>3, FS_EmptySet
<1>10. Cardinality(Bytes(places) \cup P) = Cardinality(Bytes(places)) + Cardinality(T)
  BY <1>5, <1>6, <1>7, <1>8, <1>9
<1> QED
  BY <1>2, <1>10 DEF T

LEMMA BytesMore ==
    ASSUME NEW places, NEW more, IsFiniteSet(more), places \subseteq more, size \in Nat
    PROVE  Cardinality(Bytes(places)) <= Cardinality(Bytes(more))
<1>1. Bytes(places) \subseteq Bytes(more)
  BY DEF Bytes
<1> QED
  BY <1>1, BytesFinite, FS_Subset

-----------------------------------------------------------------------------
(* parseRange agrees with the RFC on every prefix of the header.             *)

\* The places parsed so far.
SpecsSoFar == Specs \cap 1 .. pos
WantedSoFar == Wanted \cap 1 .. pos

\* A range stands at the rank of the element it was made from.
Ranked(places) ==
    \A i \in places :
        /\ Rank(i) \in 1 .. Len(ranges)
        /\ Selected(header[i]) = ranges[Rank(i)].start ..
                                    (ranges[Rank(i)].start + ranges[Rank(i)].length - 1)

PrefixInv ==
    /\ specs = Cardinality(SpecsSoFar)
    /\ result # "ignored" =>
          /\ specs <= MaxRanges
          /\ \A i \in SpecsSoFar : WellFormed(header[i])
          /\ Len(ranges) = Cardinality(WantedSoFar)
          /\ total = Cardinality(Bytes(WantedSoFar))
          /\ Ranked(WantedSoFar)
    /\ result = "ignored" => ~Valid \/ BytesWanted > size
    /\ result \in {"ranges", "unsatisfiable"} =>
          /\ pos = Len(header) /\ Specs # {}
          /\ result = "unsatisfiable" <=> ranges = <<>>

LEMMA PrefixInit == ParseInit => PrefixInv
<1> SUFFICES ASSUME ParseInit PROVE PrefixInv
  OBVIOUS
<1>1. 1 .. pos = {}
  BY DEF ParseInit
<1>2. SpecsSoFar = {} /\ WantedSoFar = {}
  BY <1>1 DEF SpecsSoFar, WantedSoFar
<1>3. Bytes({}) = {}
  BY DEF Bytes
<1>4. 0 <= MaxRanges /\ Len(<<>>) = 0
  BY MaxRangesAssumption
<1> QED
  BY <1>2, <1>3, <1>4, FS_EmptySet DEF ParseInit, PrefixInv, Ranked

\* The sets before and after an element.
LEMMA NextElement ==
    ASSUME ParseTypeOK, AtElement, pos' = pos + 1, UNCHANGED <<header, size>>
    PROVE  LET n == pos + 1
           IN /\ n \in Nat /\ n \notin SpecsSoFar /\ n \notin WantedSoFar
              /\ IsFiniteSet(SpecsSoFar) /\ IsFiniteSet(WantedSoFar)
              /\ Specs' = Specs /\ Wanted' = Wanted
              /\ SpecsSoFar' = IF Element = Blank THEN SpecsSoFar ELSE SpecsSoFar \cup {n}
              /\ WantedSoFar' = IF Element # Blank /\ Selected(Element) # {}
                                THEN WantedSoFar \cup {n} ELSE WantedSoFar
              /\ Element # Blank => n \in Specs
<1> DEFINE n == pos + 1
<1>1. header \in Seq(Elements) /\ Len(header) \in Nat /\ pos \in Nat /\ pos < Len(header)
  BY HeadersAssumption DEF ParseTypeOK, AtElement
<1>2. n \in DOMAIN header /\ Element = header[n] /\ n \in Nat
  BY <1>1 DEF Element
<1>3. 1 .. pos' = (1 .. pos) \cup {n} /\ n \notin 1 .. pos
  BY <1>1
<1>4. Specs' = Specs
  BY DEF Specs
<1>5. Wanted' = Wanted
  BY <1>4 DEF Wanted, Selected
<1>6. n \in Specs <=> Element # Blank
  BY <1>2 DEF Specs
<1>7. n \in Wanted <=> Element # Blank /\ Selected(Element) # {}
  BY <1>2, <1>6 DEF Wanted
<1>8. IsFiniteSet(SpecsSoFar) /\ IsFiniteSet(WantedSoFar)
  BY <1>1, PlacesFinite, FS_Intersection DEF SpecsSoFar, WantedSoFar
<1>9. SpecsSoFar' = Specs \cap ((1 .. pos) \cup {n})
  BY <1>3, <1>4 DEF SpecsSoFar
<1>10. WantedSoFar' = Wanted \cap ((1 .. pos) \cup {n})
  BY <1>3, <1>5 DEF WantedSoFar
<1> HIDE DEF n
<1>11. SpecsSoFar' = IF Element = Blank THEN SpecsSoFar ELSE SpecsSoFar \cup {n}
  BY <1>6, <1>9 DEF SpecsSoFar
<1>12. WantedSoFar' = IF Element # Blank /\ Selected(Element) # {}
                      THEN WantedSoFar \cup {n} ELSE WantedSoFar
  BY <1>7, <1>10 DEF WantedSoFar
<1>13. n \notin SpecsSoFar /\ n \notin WantedSoFar
  BY <1>3 DEF SpecsSoFar, WantedSoFar
<1> QED
  BY <1>2, <1>4, <1>5, <1>6, <1>8, <1>11, <1>12, <1>13 DEF n

\* What a place contributes does not depend on how far the loop is.
LEMMA SameHeader ==
    ASSUME UNCHANGED <<header, size>>
    PROVE  /\ Valid' = Valid /\ BytesWanted' = BytesWanted
           /\ \A i : Rank(i)' = Rank(i)
           /\ \A i : (header[i])' = header[i] /\ Selected(header[i])' = Selected(header[i])
           /\ \A i : WellFormed(header[i])' = WellFormed(header[i])
           /\ \A S : Bytes(S)' = Bytes(S)
<1>1. Specs' = Specs
  BY DEF Specs
<1>2. Wanted' = Wanted
  BY <1>1 DEF Wanted, Selected
<1>3. Valid' = Valid
  BY <1>1 DEF Valid, WellFormed
<1>4. \A S : Bytes(S)' = Bytes(S)
  BY DEF Bytes, Selected
<1>5. BytesWanted' = BytesWanted
  BY <1>2 DEF BytesWanted, Bytes, Selected
<1>6. \A i : Rank(i)' = Rank(i)
  BY <1>2 DEF Rank
<1> QED
  BY <1>3, <1>4, <1>5, <1>6 DEF Selected, WellFormed

\* A blank element, or a valid one that is unsatisfiable, changes no range.
LEMMA PrefixSkip ==
    ASSUME ParseInv, PrefixInv, SkipBlank \/ SkipUnsatisfiable
    PROVE  PrefixInv'
<1>1. /\ AtElement /\ pos' = pos + 1 /\ UNCHANGED <<header, size, ranges, total, result>>
      /\ result = "parsing" /\ ParseTypeOK
  BY DEF SkipBlank, SkipUnsatisfiable, AtSpec, AtElement, ParseInv
<1>2. ~(Element # Blank /\ Selected(Element) # {})
  <2>1. CASE SkipBlank
    BY <2>1 DEF SkipBlank
  <2>2. CASE SkipUnsatisfiable
    <3>1. Element \in Elements /\ size \in Nat
      BY <1>1, ElementIsOne, SizesAssumption DEF ParseTypeOK
    <3> QED
      BY <2>2, <3>1, SelectedNothing DEF SkipUnsatisfiable, AtSpec
  <2> QED
    BY <2>1, <2>2
<1>3. WantedSoFar' = WantedSoFar
  BY <1>1, <1>2, NextElement
<1>4. /\ specs' = Cardinality(SpecsSoFar') /\ specs' <= MaxRanges
      /\ \A i \in SpecsSoFar' : WellFormed(header[i])
  <2>1. CASE SkipBlank
    <3>1. SpecsSoFar' = SpecsSoFar
      BY <1>1, <2>1, NextElement DEF SkipBlank
    <3> QED
      BY <1>1, <2>1, <3>1 DEF SkipBlank, PrefixInv
  <2>2. CASE SkipUnsatisfiable
    <3> DEFINE n == pos + 1
    <3>1. WellFormed(header[n]) /\ Element # Blank /\ specs' = specs + 1 /\ specs + 1 <= MaxRanges
      BY <2>2 DEF SkipUnsatisfiable, AtSpec, Element, WellFormed
    <3>2. /\ SpecsSoFar' = SpecsSoFar \cup {n} /\ n \notin SpecsSoFar
          /\ IsFiniteSet(SpecsSoFar)
      BY <1>1, <3>1, NextElement
    <3> HIDE DEF n
    <3>3. Cardinality(SpecsSoFar') = Cardinality(SpecsSoFar) + 1
      BY <3>2, FS_AddElement
    <3> QED
      BY <1>1, <3>1, <3>2, <3>3 DEF PrefixInv
  <2> QED
    BY <2>1, <2>2
<1>5. Ranked(WantedSoFar)' /\ Bytes(WantedSoFar)' = Bytes(WantedSoFar)
  BY <1>1, <1>3, SameHeader DEF PrefixInv, Ranked
<1>6. \A i : WellFormed(header[i])' = WellFormed(header[i])
  BY <1>1, SameHeader
<1> QED
  BY <1>1, <1>3, <1>4, <1>5, <1>6 DEF PrefixInv

\* A header that is too long or has a malformed element is not valid.
LEMMA PrefixMalformed ==
    ASSUME ParseInv, PrefixInv, Malformed
    PROVE  PrefixInv'
<1> DEFINE n == pos + 1
<1>1. /\ AtElement /\ pos' = pos + 1 /\ UNCHANGED <<header, size>>
      /\ Element # Blank /\ specs' = specs + 1 /\ result' = "ignored"
      /\ ParseTypeOK /\ header \in Seq(Elements)
  BY HeadersAssumption DEF Malformed, ParseInv, ParseTypeOK
<1>2. /\ SpecsSoFar' = SpecsSoFar \cup {n} /\ n \notin SpecsSoFar
      /\ IsFiniteSet(SpecsSoFar) /\ Specs' = Specs /\ n \in Specs
  BY <1>1, NextElement
<1>3. Cardinality(SpecsSoFar \cup {n}) = Cardinality(SpecsSoFar) + 1
  BY <1>2, FS_AddElement
<1>4. specs' = Cardinality(SpecsSoFar')
  BY <1>1, <1>2, <1>3 DEF PrefixInv
<1>5. ~Valid
  <2>1. CASE specs + 1 > MaxRanges
    <3>1. SpecsSoFar \cup {n} \subseteq Specs
      BY <1>2 DEF SpecsSoFar
    <3>2. IsFiniteSet(Specs)
      BY <1>1, PlacesFinite
    <3> HIDE DEF n
    <3>3. Cardinality(SpecsSoFar \cup {n}) <= Cardinality(Specs)
      BY <3>1, <3>2, FS_Subset
    <3>4. specs + 1 <= Cardinality(Specs) /\ Cardinality(Specs) \in Nat /\ specs \in Nat
      BY <1>1, <1>3, <3>2, <3>3, FS_CardinalityType DEF PrefixInv, ParseTypeOK
    <3> QED
      BY <2>1, <3>4, MaxRangesAssumption DEF Valid
  <2>2. CASE ~WellFormed(Element)
    BY <1>2, <2>2 DEF Valid, Element
  <2> QED
    BY <2>1, <2>2 DEF Malformed
<1>6. ~Valid'
  BY <1>1, <1>5, SameHeader
<1> QED
  BY <1>1, <1>4, <1>6 DEF PrefixInv

\* A valid element that selects something is the next wanted one.
LEMMA PrefixAdd ==
    ASSUME ParseInv, PrefixInv, AddRange
    PROVE  PrefixInv'
<1> DEFINE n == pos + 1
           r == HttpRange(Element)
<1>1. /\ AtElement /\ pos' = pos + 1 /\ UNCHANGED <<header, size>>
      /\ result = "parsing" /\ specs' = specs + 1 /\ specs + 1 <= MaxRanges
      /\ WellFormed(Element) /\ ~Unsatisfiable(Element) /\ Element # Blank
      /\ Element = header[n]
  BY DEF AddRange, AtSpec, AtElement, WellFormed, Element
<1>2. ParseTypeOK /\ header \in Seq(Elements) /\ size \in Nat /\ Element \in Elements
  BY <1>1, HeadersAssumption, SizesAssumption, ElementIsOne DEF ParseInv, ParseTypeOK
<1>3. /\ r \in [start : Nat, length : Nat] /\ r.length > 0
      /\ Selected(Element) = r.start .. (r.start + r.length - 1)
      /\ IsFiniteSet(Selected(Element)) /\ Cardinality(Selected(Element)) = r.length
      /\ Selected(Element) # {}
  BY <1>1, <1>2, SelectedRange
<1>4. /\ n \in Nat /\ n \notin SpecsSoFar /\ n \notin WantedSoFar
      /\ IsFiniteSet(SpecsSoFar) /\ IsFiniteSet(WantedSoFar)
      /\ Specs' = Specs /\ Wanted' = Wanted /\ n \in Specs
      /\ SpecsSoFar' = SpecsSoFar \cup {n} /\ WantedSoFar' = WantedSoFar \cup {n}
  BY <1>1, <1>2, <1>3, NextElement
<1>5. /\ total' = total + r.length
      /\ total' > size => result' = "ignored" /\ ranges' = ranges
      /\ ~(total' > size) => ranges' = Append(ranges, r) /\ result' = "parsing"
  BY <1>1 DEF AddRange
<1>6. specs' = Cardinality(SpecsSoFar')
  <2> HIDE DEF n
  <2>1. Cardinality(SpecsSoFar \cup {n}) = Cardinality(SpecsSoFar) + 1
    BY <1>4, FS_AddElement
  <2> QED
    BY <1>1, <1>4, <2>1 DEF PrefixInv
<1> HIDE DEF n, r
<1>7. /\ \A i \in SpecsSoFar : WellFormed(header[i])
      /\ Len(ranges) = Cardinality(WantedSoFar)
      /\ total = Cardinality(Bytes(WantedSoFar))
      /\ Ranked(WantedSoFar)
  BY <1>1 DEF PrefixInv
<1>8. total' = Cardinality(Bytes(WantedSoFar \cup {n}))
  BY <1>1, <1>2, <1>3, <1>4, <1>5, <1>7, BytesAdd
<1>9. total' = Cardinality(Bytes(WantedSoFar)')
  BY <1>1, <1>4, <1>8, SameHeader
<1>10. CASE total' > size
  <2>1. IsFiniteSet(Wanted) /\ WantedSoFar \cup {n} \subseteq Wanted
    <3>1. n \in Wanted
      BY <1>1, <1>3, <1>4 DEF Wanted
    <3> QED
      BY <1>2, <3>1, PlacesFinite DEF WantedSoFar
  <2>2. total' <= BytesWanted
    BY <1>2, <1>8, <2>1, BytesMore DEF BytesWanted
  <2>3. BytesWanted \in Nat /\ total' \in Nat
    BY <1>2, <1>3, <1>5, <2>1, BytesFinite DEF BytesWanted, ParseTypeOK
  <2>4. BytesWanted > size
    BY <1>2, <1>10, <2>2, <2>3
  <2>5. BytesWanted' > size'
    BY <1>1, <2>4, SameHeader
  <2> QED
    BY <1>5, <1>6, <1>10, <2>5 DEF PrefixInv
<1>11. CASE ~(total' > size)
  <2>1. ranges' = Append(ranges, r) /\ result' = "parsing"
    BY <1>5, <1>11
  <2>2. ranges \in Seq([start : Nat, length : Nat]) /\ Len(ranges) \in Nat
    BY <1>2 DEF ParseTypeOK
  <2>3. /\ Len(ranges') = Len(ranges) + 1
        /\ ranges'[Len(ranges) + 1] = r
        /\ \A k \in 1 .. Len(ranges) : ranges'[k] = ranges[k]
    <3> DEFINE R == [start : Nat, length : Nat]
    <3>1. ranges \in Seq(R) /\ r \in R
      BY <1>3, <2>2
    <3> HIDE DEF R
    <3> QED
      BY <2>1, <2>2, <3>1
  <2>4. Cardinality(WantedSoFar \cup {n}) = Cardinality(WantedSoFar) + 1
    BY <1>4, FS_AddElement
  <2>5. Len(ranges') = Cardinality(WantedSoFar')
    BY <1>4, <1>7, <2>3, <2>4
  <2>6. \A i \in SpecsSoFar' : WellFormed(header[i])
    BY <1>1, <1>4, <1>7
  <2>7. Rank(n) = Len(ranges) + 1
    <3>1. n \in Wanted
      BY <1>1, <1>3, <1>4 DEF Wanted
    <3>2. Wanted \subseteq 1 .. Len(header) /\ Len(header) \in Nat /\ pos \in Nat
      BY <1>2, PlacesFinite DEF ParseTypeOK
    <3>3. \A j \in Wanted : j <= n <=> j \in 1 .. pos \/ j = n
      BY <3>2 DEF n
    <3>4. {j \in Wanted : j <= n} = WantedSoFar \cup {n}
      BY <3>1, <3>3 DEF WantedSoFar
    <3> QED
      BY <1>7, <2>4, <3>4 DEF Rank
  <2>8. \A i \in WantedSoFar \cup {n} :
          /\ Rank(i) \in 1 .. Len(ranges')
          /\ Selected(header[i]) =
               ranges'[Rank(i)].start .. (ranges'[Rank(i)].start + ranges'[Rank(i)].length - 1)
    <3> SUFFICES ASSUME NEW i \in WantedSoFar \cup {n}
                 PROVE  /\ Rank(i) \in 1 .. Len(ranges')
                        /\ Selected(header[i]) =
                             ranges'[Rank(i)].start ..
                               (ranges'[Rank(i)].start + ranges'[Rank(i)].length - 1)
      OBVIOUS
    <3>1. CASE i = n
      BY <1>1, <1>3, <2>2, <2>3, <2>7, <3>1
    <3>2. CASE i \in WantedSoFar
      <4>1. /\ Rank(i) \in 1 .. Len(ranges)
            /\ Selected(header[i]) =
                 ranges[Rank(i)].start .. (ranges[Rank(i)].start + ranges[Rank(i)].length - 1)
        BY <1>7, <3>2 DEF Ranked
      <4>2. Rank(i) \in 1 .. Len(ranges') /\ ranges'[Rank(i)] = ranges[Rank(i)]
        BY <2>2, <2>3, <4>1
      <4> QED
        BY <4>1, <4>2
    <3> QED
      BY <3>1, <3>2
  <2>9. Ranked(WantedSoFar)'
    <3>1. /\ \A i : Rank(i)' = Rank(i)
          /\ \A i : Selected(header[i])' = Selected(header[i])
      BY <1>1, SameHeader
    <3> QED
      BY <1>4, <2>8, <3>1 DEF Ranked
  <2>10. \A i : WellFormed(header[i])' = WellFormed(header[i])
    BY <1>1, SameHeader
  <2> QED
    BY <1>1, <1>6, <1>9, <2>1, <2>5, <2>6, <2>9, <2>10 DEF PrefixInv
<1> QED
  BY <1>10, <1>11

\* At the end of the header nothing is left out.
LEMMA PrefixConclude ==
    ASSUME ParseInv, PrefixInv, Conclude
    PROVE  PrefixInv'
<1>1. /\ result = "parsing" /\ pos = Len(header) /\ header \in Seq(Elements)
      /\ UNCHANGED <<header, size, pos, specs, ranges, total>>
      /\ result' = IF specs = 0 THEN "ignored"
                   ELSE IF ranges = <<>> THEN "unsatisfiable" ELSE "ranges"
  BY HeadersAssumption DEF Conclude, ParseInv, ParseTypeOK
<1>2. SpecsSoFar = Specs /\ IsFiniteSet(Specs)
  BY <1>1, PlacesFinite DEF SpecsSoFar
<1>3. specs = 0 <=> Specs = {}
  BY <1>2, FS_EmptySet DEF PrefixInv
<1>4. SpecsSoFar' = SpecsSoFar /\ WantedSoFar' = WantedSoFar
  BY <1>1 DEF SpecsSoFar, WantedSoFar, Specs, Wanted, Selected
<1>5. Specs' = Specs /\ Valid' = Valid
  <2>1. Specs' = Specs
    BY <1>1 DEF Specs
  <2> QED
    BY <1>1, <2>1, SameHeader
<1>6. specs = 0 => ~Valid'
  BY <1>3, <1>5 DEF Valid
<1>7. /\ \A i \in SpecsSoFar' : WellFormed(header[i])'
      /\ Bytes(WantedSoFar)' = Bytes(WantedSoFar)
      /\ Ranked(WantedSoFar)'
  BY <1>1, <1>4, SameHeader DEF PrefixInv, Ranked
<1> QED
  BY <1>1, <1>3, <1>4, <1>5, <1>6, <1>7 DEF PrefixInv

LEMMA PrefixStep == ASSUME ParseInv, PrefixInv, ParseNext PROVE PrefixInv'
  BY PrefixSkip, PrefixMalformed, PrefixAdd, PrefixConclude DEF ParseNext

-----------------------------------------------------------------------------
(* The answer.                                                               *)

\* AnswerAsRequested, of a response that has not been given yet.
Right(r) ==
    r.status \in {200, 206, 416} =>
        LET honoured == req.range /\ IfRangeAllowsRange /\ Valid
        IN IF honoured /\ Wanted = {} THEN r.status = 416
           ELSE IF honoured /\ BytesWanted <= size
           THEN /\ r.status = 206
                /\ r.length = BytesWanted
                /\ Len(r.parts) = Cardinality(Wanted)
                /\ \A i \in Wanted :
                     LET p == r.parts[Rank(i)]
                     IN p.start .. (p.start + p.length - 1) = Selected(header[i])
           ELSE /\ r.status = 200
                /\ r.length = size
                /\ r.parts = <<>>

Honoured == req.range /\ IfRangeAllowsRange

\* What is known at each point of a request.
FlowInv ==
    /\ at \notin {"streaming", "done"} => resp = NoResponse
    /\ at \in {"limit", "sniff", "seek", "conditional", "ifrange"} => result = "parsing"
    /\ at = "parse" => Honoured
    /\ at = "body" => IF Honoured THEN result \in {"ranges", "ignored"} ELSE result = "parsing"

\* A request that is not done has closed nothing, and has opened nothing
\* before the first os.Open.
HandleInv ==
    /\ HandleClosedOnce
    /\ at # "done" => closed = 0
    /\ at \in {"limit", "sniff"} => opened = 0
    /\ at = "seek" => handle # None

IInv ==
    /\ TypeOK /\ ParseInv /\ PrefixInv
    /\ FlowInv /\ HandleInv
    /\ AnswerAsRequested

\* The header, and with it what it asks for, is that of the request.
LEMMA Frozen ==
    ASSUME PrefixInv, ParseInv, UNCHANGED parseVars
    PROVE  PrefixInv' /\ ParseInv'
<1>1. /\ Specs' = Specs /\ Wanted' = Wanted /\ pos' = pos /\ ranges' = ranges
      /\ UNCHANGED <<header, size>>
  BY DEF parseVars, Specs, Wanted, Selected
<1>2. SpecsSoFar' = SpecsSoFar /\ WantedSoFar' = WantedSoFar
  BY <1>1 DEF SpecsSoFar, WantedSoFar
<1>3. Valid' = Valid /\ BytesWanted' = BytesWanted /\ Bytes(WantedSoFar)' = Bytes(WantedSoFar)
  BY <1>1, <1>2, SameHeader
<1>4. Ranked(WantedSoFar)' <=> Ranked(WantedSoFar)
  BY <1>1, <1>2, SameHeader DEF Ranked
<1>5. \A i : WellFormed(header[i])' = WellFormed(header[i])
  BY <1>1, SameHeader
<1>6. PrefixInv'
  BY <1>1, <1>2, <1>3, <1>4, <1>5 DEF PrefixInv, parseVars
<1> QED
  BY <1>6, ParseStepInv

LEMMA RightAnswer ==
    ASSUME UNCHANGED <<header, size, req>>, NEW r, Right(r), resp' = r
    PROVE  AnswerAsRequested'
<1>1. Wanted' = Wanted
  BY DEF Wanted, Specs, Selected
<1>2. Valid' = Valid /\ BytesWanted' = BytesWanted
  BY SameHeader
<1>3. IfRangeAllowsRange' = IfRangeAllowsRange
  BY DEF IfRangeAllowsRange
<1>4. \A i : Rank(i)' = Rank(i) /\ Selected(header[i])' = Selected(header[i])
  BY SameHeader
<1> QED
  BY <1>1, <1>2, <1>3, <1>4 DEF Right, AnswerAsRequested

LEMMA AnswerFields ==
    ASSUME NEW s \in {304, 403, 413, 416, 500}
    PROVE  /\ Answer(s) \in Response /\ Answer(s).status = s /\ Answer(s).body = None
           /\ NoResponse \in Response /\ NoResponse.status = 0
<1>1. <<>> \in Seq([start : Nat, length : Nat])
  OBVIOUS
<1>2. NoResponse \in Response
  BY <1>1 DEF NoResponse, Response
<1>3. Answer(s) = [status |-> s, parts |-> <<>>, length |-> 0, body |-> None]
  BY DEF Answer, NoResponse
<1>4. s \in {0, 200, 206, 304, 403, 413, 416, 500}
  OBVIOUS
<1>5. NoResponse.status = 0
  BY DEF NoResponse
<1> QED
  BY <1>1, <1>2, <1>3, <1>4, <1>5 DEF Response

\* A header that selects nothing is valid, and selects nothing.
LEMMA UnsatisfiableRight ==
    ASSUME ParseInv, PrefixInv, Honoured, result = "unsatisfiable"
    PROVE  Right(Answer(416))
<1>1. /\ pos = Len(header) /\ Specs # {} /\ ranges = <<>> /\ header \in Seq(Elements)
      /\ \A i \in SpecsSoFar : WellFormed(header[i])
      /\ Len(ranges) = Cardinality(WantedSoFar) /\ specs = Cardinality(SpecsSoFar)
      /\ specs <= MaxRanges
  BY HeadersAssumption DEF PrefixInv, ParseInv, ParseTypeOK
<1>2. SpecsSoFar = Specs /\ WantedSoFar = Wanted /\ IsFiniteSet(Wanted)
  BY <1>1, PlacesFinite DEF SpecsSoFar, WantedSoFar
<1>3. Wanted = {}
  BY <1>1, <1>2, FS_EmptySet
<1>4. Valid
  BY <1>1, <1>2 DEF Valid
<1> QED
  BY <1>3, <1>4, AnswerFields DEF Right, Honoured

\* Content answers with the ranges asked for, or with everything.
LEMMA ContentRight ==
    ASSUME ParseInv, PrefixInv, NEW b,
           IF Honoured THEN result \in {"ranges", "ignored"} ELSE result = "parsing"
    PROVE  Right(Content(b))
<1>0. header \in Seq(Elements) /\ size \in Nat
  BY HeadersAssumption, SizesAssumption DEF ParseInv, ParseTypeOK
<1>1. CASE result = "ranges"
  <2>1. Content(b).status = 206 /\ Content(b).parts = ranges /\ Content(b).length = total
    BY <1>1 DEF Content, Partial
  <2>2. /\ pos = Len(header) /\ Specs # {} /\ ranges # <<>>
        /\ \A i \in SpecsSoFar : WellFormed(header[i])
        /\ Len(ranges) = Cardinality(WantedSoFar) /\ specs = Cardinality(SpecsSoFar)
        /\ total = Cardinality(Bytes(WantedSoFar)) /\ Ranked(WantedSoFar)
        /\ specs <= MaxRanges /\ total <= size
        /\ ranges \in Seq([start : Nat, length : Nat])
    BY <1>1 DEF PrefixInv, ParseInv, ParseTypeOK, NoAmplification
  <2>3. SpecsSoFar = Specs /\ WantedSoFar = Wanted /\ IsFiniteSet(Wanted)
    BY <1>0, <2>2, PlacesFinite DEF SpecsSoFar, WantedSoFar
  <2>4. Wanted # {}
    <3>1. Len(ranges) # 0
      BY <2>2
    <3> QED
      BY <2>2, <2>3, <3>1, FS_EmptySet
  <2>5. Valid /\ Honoured
    BY <1>1, <2>2, <2>3 DEF Valid
  <2>6. BytesWanted = total
    BY <2>2, <2>3 DEF BytesWanted
  <2> QED
    BY <2>1, <2>2, <2>3, <2>4, <2>5, <2>6 DEF Right, Honoured, Ranked
<1>2. CASE result # "ranges"
  <2>1. Content(b).status = 200 /\ Content(b).parts = <<>> /\ Content(b).length = size
    BY <1>2 DEF Content, Partial, Full
  <2>2. CASE ~Honoured
    BY <2>1, <2>2 DEF Right, Honoured
  <2>3. CASE Honoured
    <3>1. ~Valid \/ BytesWanted > size
      BY <1>2, <2>3 DEF PrefixInv
    <3>2. CASE ~Valid
      BY <2>1, <3>2 DEF Right
    <3>3. CASE BytesWanted > size
      <4>1. Bytes({}) = {} /\ Cardinality({}) = 0
        BY FS_EmptySet DEF Bytes
      <4>2. Wanted # {}
        <5>1. Wanted = {} => BytesWanted = 0
          BY <4>1 DEF BytesWanted
        <5> QED
          BY <1>0, <3>3, <5>1
      <4>3. BytesWanted \in Nat
        BY <1>0, PlacesFinite, BytesFinite DEF BytesWanted
      <4> QED
        BY <1>0, <2>1, <3>3, <4>2, <4>3 DEF Right
    <3> QED
      BY <3>1, <3>2, <3>3
  <2> QED
    BY <2>2, <2>3
<1> QED
  BY <1>1, <1>2

-----------------------------------------------------------------------------
(* The state machine.                                                        *)

LEMMA InitInv == Init => IInv
<1> SUFFICES ASSUME Init PROVE IInv
  OBVIOUS
<1>1. /\ ParseInit /\ req \in Requests /\ size = SizeOf[req.info] /\ disk = req.info
      /\ at = IF req.large THEN "limit" ELSE IF req.cached THEN "conditional" ELSE "ifrange"
      /\ handle = None /\ opened = 0 /\ closed = 0 /\ resp = NoResponse
  BY DEF Init
<1>2. ParseInv /\ PrefixInv
  BY <1>1, ParseInitInv, PrefixInit
<1>3. disk \in Versions
  BY <1>1 DEF Requests
<1>4. resp \in Response /\ resp.status = 0
  BY <1>1, AnswerFields
<1>5. result = "parsing"
  BY <1>1 DEF ParseInit
<1>6. TypeOK
  BY <1>1, <1>2, <1>3, <1>4 DEF TypeOK, ParseInv
<1>7. FlowInv /\ HandleInv
  BY <1>1, <1>5 DEF FlowInv, HandleInv, HandleClosedOnce
<1> QED
  BY <1>2, <1>4, <1>6, <1>7
     DEF IInv, AnswerAsRequested

\* A step that gives no answer keeps the property of the answer.
LEMMA NoAnswerStep ==
    ASSUME IInv, UNCHANGED <<header, size, req, resp>>
    PROVE  AnswerAsRequested'
<1>1. Right(resp)
  BY DEF IInv, AnswerAsRequested, Right
<1> QED
  BY <1>1, RightAnswer

\* A step of the handler that gives no answer keeps the invariant if it keeps
\* what belongs to the handle.
LEMMA FlowStep ==
    ASSUME IInv, UNCHANGED <<parseVars, req, disk, resp>>, HandleInv',
           at' \in {"sniff", "seek", "conditional", "ifrange", "parse", "body"},
           at \notin {"streaming", "done"}, handle' \in Versions \cup {None},
           opened' \in Nat, closed' \in Nat,
           at' \in {"sniff", "seek", "conditional", "ifrange"} => result = "parsing",
           at' = "parse" => Honoured,
           at' = "body" =>
              IF Honoured THEN result \in {"ranges", "ignored"} ELSE result = "parsing"
    PROVE  IInv'
<1>1. UNCHANGED parseVars /\ UNCHANGED <<header, size, req, resp>> /\ result' = result
  BY DEF parseVars
<1>2. ParseInv' /\ PrefixInv'
  BY <1>1, Frozen DEF IInv
<1>3. Honoured' = Honoured
  BY DEF Honoured, IfRangeAllowsRange
<1>4. FlowInv'
  BY <1>1, <1>3 DEF FlowInv, IInv
<1>5. TypeOK'
  BY <1>2 DEF IInv, TypeOK, ParseInv
<1> QED
  BY <1>1, <1>2, <1>4, <1>5, NoAnswerStep DEF IInv

\* The handler returns with an answer that is right.
LEMMA ReturnStep ==
    ASSUME IInv, UNCHANGED <<parseVars, req, disk>>, at # "done",
           NEW r \in Response, ReturnWith(r), Right(r)
    PROVE  IInv'
<1>1. /\ UNCHANGED parseVars /\ UNCHANGED <<header, size, req>> /\ at' = "done" /\ resp' = r
      /\ handle' = None /\ opened' = opened
      /\ closed' = IF handle = None THEN closed ELSE closed + 1
  BY DEF parseVars, ReturnWith, Close
<1>2. ParseInv' /\ PrefixInv'
  BY <1>1, Frozen DEF IInv
<1>3. AnswerAsRequested'
  BY <1>1, RightAnswer
<1>4. HandleInv'
  BY <1>1 DEF IInv, TypeOK, HandleInv, HandleClosedOnce
<1>5. FlowInv'
  BY <1>1 DEF FlowInv
<1>6. TypeOK'
  BY <1>1, <1>2 DEF IInv, TypeOK, ParseInv
<1> QED
  BY <1>2, <1>3, <1>4, <1>5, <1>6 DEF IInv

\* So it is with an error or a 304.
LEMMA ErrorStep ==
    ASSUME IInv, UNCHANGED <<parseVars, req, disk>>, at # "done",
           NEW s \in {304, 403, 413, 500}, ReturnWith(Answer(s))
    PROVE  IInv'
<1>1. Answer(s) \in Response /\ Answer(s).status = s
  BY AnswerFields
<1>2. Right(Answer(s))
  BY <1>1 DEF Right
<1> QED
  BY <1>1, <1>2, ReturnStep

LEMMA ContentType ==
    ASSUME ParseInv, NEW b \in Versions \cup {None}
    PROVE  /\ Content(b) \in Response /\ Content(b).body = b
           /\ Content(b).status \in {200, 206}
           /\ Content(b).status = 206 => result = "ranges"
<1>1. /\ size \in Nat /\ total \in Nat /\ ranges \in Seq([start : Nat, length : Nat])
      /\ <<>> \in Seq([start : Nat, length : Nat])
  BY SizesAssumption DEF ParseInv, ParseTypeOK
<1>2. CASE Partial
  <2>1. Content(b) = [status |-> 206, parts |-> ranges, length |-> total, body |-> b]
    BY <1>2 DEF Content
  <2> QED
    BY <1>1, <1>2, <2>1 DEF Response, Partial
<1>3. CASE ~Partial
  <2>1. Content(b) = [status |-> 200, parts |-> <<>>, length |-> size, body |-> b]
    BY <1>3 DEF Content, Full
  <2> QED
    BY <1>1, <2>1 DEF Response
<1> QED
  BY <1>2, <1>3

\* And so it is with the content, from memory or for HEAD.
LEMMA ContentStep ==
    ASSUME IInv, UNCHANGED <<parseVars, req, disk>>, at = "body",
           NEW b \in {None, req.info}, ReturnWith(Content(b))
    PROVE  IInv'
<1>1. b \in Versions \cup {None}
  BY DEF IInv, TypeOK, Requests
<1>2. /\ Content(b) \in Response /\ Content(b).body = b /\ Content(b).status \in {200, 206}
      /\ Content(b).status = 206 => result = "ranges"
  BY <1>1, ContentType DEF IInv
<1>3. IF Honoured THEN result \in {"ranges", "ignored"} ELSE result = "parsing"
  BY DEF IInv, FlowInv
<1>4. Right(Content(b))
  BY <1>3, ContentRight DEF IInv
<1> QED
  BY <1>2, <1>3, <1>4, ReturnStep

\* parseRange runs on while the request waits for it.
LEMMA ParseStep == ASSUME IInv, Parse PROVE IInv'
<1>1. /\ at = "parse" /\ ParseNext /\ UNCHANGED <<header, size>>
      /\ UNCHANGED <<req, disk, at, handle, opened, closed, resp>>
  BY DEF Parse, ParseNext, SkipBlank, Malformed, SkipUnsatisfiable, AddRange, Conclude
<1>2. ParseInv'
  BY <1>1, ParseStepInv DEF IInv
<1>3. PrefixInv'
  BY <1>1, PrefixStep DEF IInv
<1>4. FlowInv' /\ HandleInv'
  BY <1>1 DEF IInv, FlowInv, HandleInv, HandleClosedOnce, Honoured, IfRangeAllowsRange
<1>5. TypeOK'
  BY <1>1, <1>2 DEF IInv, TypeOK, ParseInv
<1> QED
  BY <1>1, <1>2, <1>3, <1>4, <1>5, NoAnswerStep DEF IInv

\* The result of parseRange is honoured.
LEMMA ParsedStep == ASSUME IInv, Parsed PROVE IInv'
<1>1. at = "parse" /\ Honoured /\ UNCHANGED <<parseVars, req, disk>> /\ result # "parsing"
  BY DEF Parsed, IInv, FlowInv
<1>2. CASE result = "unsatisfiable"
  <2>1. Right(Answer(416)) /\ ReturnWith(Answer(416))
    BY <1>1, <1>2, UnsatisfiableRight DEF Parsed, IInv
  <2> QED
    BY <1>1, <2>1, AnswerFields, ReturnStep
<1>3. CASE result # "unsatisfiable"
  <2>1. at' = "body" /\ KeepHandle /\ UNCHANGED resp
    BY <1>3 DEF Parsed
  <2>2. result \in {"ranges", "ignored"}
    BY <1>1, <1>3 DEF IInv, ParseInv, ParseTypeOK, Results
  <2>3. HandleInv'
    BY <1>1, <2>1 DEF IInv, HandleInv, HandleClosedOnce, KeepHandle
  <2> QED
    BY <1>1, <2>1, <2>2, <2>3, FlowStep DEF IInv, TypeOK, KeepHandle
<1> QED
  BY <1>2, <1>3

\* serveLargeFile and CheckNotModified before the ranges.
LEMMA CheckLimitStep == ASSUME IInv, CheckLimit PROVE IInv'
<1>1. at = "limit" /\ UNCHANGED <<parseVars, req, disk>> /\ result = "parsing"
  BY DEF CheckLimit, IInv, FlowInv
<1>2. CASE MaxServeFileSize > 0 /\ size > MaxServeFileSize
  <2>1. ReturnWith(Answer(413))
    BY <1>2 DEF CheckLimit
  <2> QED
    BY <1>1, <2>1, ErrorStep
<1>3. CASE ~(MaxServeFileSize > 0 /\ size > MaxServeFileSize)
  <2>1. /\ at' = IF req.sniff THEN "sniff" ELSE "conditional"
        /\ KeepHandle /\ UNCHANGED resp
    BY <1>3 DEF CheckLimit
  <2>2. HandleInv'
    BY <1>1, <2>1 DEF IInv, HandleInv, HandleClosedOnce, KeepHandle
  <2> QED
    BY <1>1, <2>1, <2>2, FlowStep DEF IInv, TypeOK, KeepHandle
<1> QED
  BY <1>2, <1>3

LEMMA SniffOpenStep == ASSUME IInv, SniffOpen PROVE IInv'
<1>1. at = "sniff" /\ UNCHANGED <<parseVars, req, disk>> /\ result = "parsing"
  BY DEF SniffOpen, IInv, FlowInv
<1>2. CASE at' = "seek" /\ Open /\ UNCHANGED resp
  <2>1. /\ opened = 0 /\ closed = 0 /\ handle' = disk /\ opened' = 1 /\ closed' = 0
        /\ disk \in Versions /\ handle' # None
    BY <1>1, <1>2, VersionsAssumption DEF Open, IInv, TypeOK, HandleInv
  <2>2. HandleInv'
    BY <1>2, <2>1 DEF HandleInv, HandleClosedOnce
  <2> QED
    BY <1>1, <1>2, <2>1, <2>2, FlowStep
<1>3. ASSUME NEW s \in {403, 500}, ReturnWith(Answer(s)) PROVE IInv'
  BY <1>1, <1>3, ErrorStep
<1> QED
  BY <1>2, <1>3 DEF SniffOpen

LEMMA SniffSeekStep == ASSUME IInv, SniffSeek PROVE IInv'
<1>1. at = "seek" /\ UNCHANGED <<parseVars, req, disk>> /\ result = "parsing"
  BY DEF SniffSeek, IInv, FlowInv
<1>2. CASE at' = "conditional" /\ KeepHandle /\ UNCHANGED resp
  <2>1. HandleInv'
    BY <1>1, <1>2 DEF IInv, HandleInv, HandleClosedOnce, KeepHandle
  <2> QED
    BY <1>1, <1>2, <2>1, FlowStep DEF IInv, TypeOK, KeepHandle
<1>3. CASE ReturnWith(Answer(500))
  BY <1>1, <1>3, ErrorStep
<1> QED
  BY <1>2, <1>3 DEF SniffSeek

LEMMA ConditionalStep == ASSUME IInv, Conditional PROVE IInv'
<1>1. at = "conditional" /\ UNCHANGED <<parseVars, req, disk>> /\ result = "parsing"
  BY DEF Conditional, IInv, FlowInv
<1>2. CASE CheckNotModified
  <2>1. ReturnWith(Answer(304))
    BY <1>2 DEF Conditional
  <2> QED
    BY <1>1, <1>2, <2>1, ErrorStep
<1>3. CASE ~CheckNotModified
  <2>1. at' = "ifrange" /\ KeepHandle /\ UNCHANGED resp
    BY <1>3 DEF Conditional
  <2>2. HandleInv'
    BY <1>1, <2>1 DEF IInv, HandleInv, HandleClosedOnce, KeepHandle
  <2> QED
    BY <1>1, <2>1, <2>2, FlowStep DEF IInv, TypeOK, KeepHandle
<1> QED
  BY <1>2, <1>3

LEMMA IfRangeStep == ASSUME IInv, IfRange PROVE IInv'
<1>1. /\ at = "ifrange" /\ result = "parsing"
      /\ at' = IF Honoured THEN "parse" ELSE "body"
      /\ UNCHANGED <<parseVars, req, disk, handle, opened, closed, resp>>
  BY DEF IfRange, Honoured, IInv, FlowInv
<1>2. HandleInv'
  BY <1>1 DEF IInv, HandleInv, HandleClosedOnce
<1>3. UNCHANGED <<parseVars, req, disk, resp>>
  BY <1>1
<1> QED
  BY <1>1, <1>2, <1>3, FlowStep DEF IInv, TypeOK

-----------------------------------------------------------------------------
(* The response is given, and the handle closed.                             *)

LEMMA ServeStep == ASSUME IInv, ServeMemory \/ ServeHead PROVE IInv'
<1>1. at = "body" /\ UNCHANGED <<parseVars, req, disk>>
  BY DEF ServeMemory, ServeHead
<1>2. \E b \in {None, req.info} : ReturnWith(Content(b))
  BY DEF ServeMemory, ServeHead
<1> QED
  BY <1>1, <1>2, ContentStep

LEMMA OpenBodyStep == ASSUME IInv, OpenBody PROVE IInv'
<1>1. at = "body" /\ handle = None /\ UNCHANGED <<parseVars, req, disk>>
  BY DEF OpenBody
<1>2. CASE Open /\ UNCHANGED <<at, resp>>
  <2>1. /\ opened = 0 /\ closed = 0 /\ handle' = disk /\ opened' = 1 /\ closed' = 0
        /\ disk \in Versions /\ handle' # None
    BY <1>1, <1>2, VersionsAssumption DEF Open, IInv, TypeOK, HandleInv, HandleClosedOnce
  <2>2. HandleInv'
    BY <1>1, <1>2, <2>1 DEF HandleInv, HandleClosedOnce
  <2>3. at' = "body" /\ UNCHANGED <<parseVars, req, disk, resp>>
    BY <1>1, <1>2
  <2>4. IF Honoured THEN result \in {"ranges", "ignored"} ELSE result = "parsing"
    BY <1>1 DEF IInv, FlowInv
  <2> QED
    BY <1>1, <2>1, <2>2, <2>3, <2>4, FlowStep
<1>3. ASSUME NEW s \in {403, 500}, ReturnWith(Answer(s)) PROVE IInv'
  BY <1>1, <1>3, ErrorStep
<1> QED
  BY <1>2, <1>3 DEF OpenBody

\* The stream takes the version that was opened, which need not be the one
\* that os.Stat saw.
LEMMA PassStreamStep == ASSUME IInv, PassStream PROVE IInv'
<1>1. at = "body" /\ handle # None /\ UNCHANGED <<parseVars, req, disk>>
  BY DEF PassStream
<1>2. CASE Content(handle).length > MaxInt
  BY <1>1, <1>2, ErrorStep DEF PassStream
<1>3. CASE ~(Content(handle).length > MaxInt)
  <2>1. /\ at' = "streaming" /\ resp' = Content(handle)
        /\ UNCHANGED <<handle, opened, closed>>
    BY <1>3 DEF PassStream, KeepHandle
  <2>2. UNCHANGED parseVars /\ UNCHANGED <<header, size, req>>
    BY <1>1 DEF parseVars
  <2>3. ParseInv' /\ PrefixInv'
    BY <2>2, Frozen DEF IInv
  <2>4. IF Honoured THEN result \in {"ranges", "ignored"} ELSE result = "parsing"
    BY <1>1 DEF IInv, FlowInv
  <2>5. Content(handle) \in Response /\ Content(handle).body = handle
    BY ContentType DEF IInv, TypeOK
  <2>6. AnswerAsRequested'
    <3>1. Right(Content(handle))
      BY <2>4, ContentRight DEF IInv
    <3> QED
      BY <2>1, <2>2, <3>1, RightAnswer
  <2>7. HandleInv' /\ FlowInv'
    BY <1>1, <2>1, <2>5 DEF IInv, HandleInv, HandleClosedOnce, FlowInv
  <2>8. TypeOK'
    BY <1>1, <2>1, <2>3, <2>5 DEF IInv, TypeOK, ParseInv
  <2> QED
    BY <2>3, <2>6, <2>7, <2>8 DEF IInv
<1> QED
  BY <1>2, <1>3

LEMMA CloseStreamStep == ASSUME IInv, CloseStream PROVE IInv'
<1>1. /\ at = "streaming" /\ at' = "done" /\ handle # None /\ handle' = None
      /\ opened' = opened /\ closed' = closed + 1
      /\ UNCHANGED <<parseVars, req, disk, resp>>
  BY DEF CloseStream, Close, IInv, HandleInv, HandleClosedOnce
<1>2. UNCHANGED parseVars /\ UNCHANGED <<header, size, req, resp>>
  BY <1>1 DEF parseVars
<1>3. ParseInv' /\ PrefixInv'
  BY <1>2, Frozen DEF IInv
<1>4. HandleInv' /\ FlowInv'
  BY <1>1 DEF IInv, TypeOK, HandleInv, HandleClosedOnce, FlowInv
<1>5. TypeOK'
  BY <1>1, <1>3 DEF IInv, TypeOK, ParseInv
<1> QED
  BY <1>2, <1>3, <1>4, <1>5, NoAnswerStep DEF IInv

LEMMA ReplaceStep == ASSUME IInv, Replace \/ UNCHANGED vars PROVE IInv'
<1>1. /\ UNCHANGED <<parseVars, req, at, handle, opened, closed, resp>>
      /\ disk' \in Versions
  BY DEF Replace, vars, IInv, TypeOK
<1>2. UNCHANGED parseVars /\ UNCHANGED <<header, size, req, resp>> /\ result' = result
  BY <1>1 DEF parseVars
<1>3. ParseInv' /\ PrefixInv'
  BY <1>2, Frozen DEF IInv
<1>4. HandleInv' /\ FlowInv'
  BY <1>1, <1>2 DEF IInv, HandleInv, HandleClosedOnce, FlowInv, Honoured, IfRangeAllowsRange
<1>5. TypeOK'
  BY <1>1, <1>3 DEF IInv, TypeOK, ParseInv
<1> QED
  BY <1>2, <1>3, <1>4, <1>5, NoAnswerStep DEF IInv

LEMMA InvStep == IInv /\ [Next]_vars => IInv'
  BY CheckLimitStep, SniffOpenStep, SniffSeekStep, ConditionalStep, IfRangeStep,
     ParseStep, ParsedStep, ServeStep, OpenBodyStep, PassStreamStep, CloseStreamStep,
     ReplaceStep
     DEF Next

-----------------------------------------------------------------------------
(* Theorems.                                                                 *)

\* The inductive invariant holds for every request.
THEOREM Invariance == Spec => []IInv
  BY InitInv, InvStep, PTL DEF Spec

\* Every variable keeps its type: in particular every answer is one.
THEOREM TypeCorrect == Spec => []TypeOK
<1>1. IInv => TypeOK
  BY DEF IInv
<1> QED
  BY <1>1, Invariance, PTL

\* serveRange and serveLargeFile answer as RFC 9110 reads the header.
THEOREM RangesAsRequested == Spec => []AnswerAsRequested
<1>1. IInv => AnswerAsRequested
  BY DEF IInv
<1> QED
  BY <1>1, Invariance, PTL

\* Every handle that is opened is closed once, on every path.
THEOREM HandleCorrect == Spec => []HandleClosedOnce
<1>1. IInv => HandleClosedOnce
  BY DEF IInv, HandleInv
<1> QED
  BY <1>1, Invariance, PTL

=============================================================================

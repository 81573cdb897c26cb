--------------------------- MODULE RangeParseProofs ---------------------------
(* Proofs about parseRange for headers of any length, contents of any size     *)
(* and any limit on the number of ranges.                                      *)
EXTENDS RangeParse, TLAPS

\* An element that is neither blank nor without a dash has both numbers.
LEMMA ElementFields ==
    ASSUME NEW e \in Elements, e # Blank, e # NoDash
    PROVE  e \in [first : Numbers, last : Numbers]
  BY DEF Elements

\* The range of a valid, satisfiable element is a non-empty part of the content.
LEMMA HttpRangeInside ==
    ASSUME NEW e \in Elements, WellFormed(e), size \in Nat, ~Unsatisfiable(e)
    PROVE  /\ HttpRange(e) \in [start : Nat, length : Nat]
           /\ HttpRange(e).length > 0
           /\ HttpRange(e).start + HttpRange(e).length <= size
  <1>1. e \in [first : Numbers, last : Numbers]
    BY ElementFields DEF WellFormed
  <1>2. e.first \in Numbers /\ e.last \in Numbers
    BY <1>1
  <1>3. CASE e.first = Absent
    <2>1. e.last \in Nat /\ e.last > 0 /\ size > 0
      BY <1>2, <1>3, ElementAssumption DEF WellFormed, Unsatisfiable, Numbers, NotANumber
    <2> QED
      BY <2>1, <1>3 DEF HttpRange
  <1>4. CASE e.first # Absent
    <2>1. e.first \in Nat /\ e.first < size
      BY <1>2, <1>4, ElementAssumption DEF WellFormed, Unsatisfiable, Numbers, NotANumber
    <2>2. e.last # Absent => e.last \in Nat /\ e.last >= e.first
      BY <1>2, <1>4, <2>1, ElementAssumption DEF WellFormed, Numbers, NotANumber
    <2> QED
      BY <2>1, <2>2, <1>4 DEF HttpRange
  <1> QED
    BY <1>3, <1>4

\* The loop invariant of parseRange.
ParseInv == ParseTypeOK /\ RangesInside /\ NoAmplification

LEMMA ParseInitInv == ParseInit => ParseInv
  BY HeadersAssumption, SizesAssumption, MaxRangesAssumption
     DEF ParseInit, ParseInv, ParseTypeOK, RangesInside, NoAmplification, Results

\* The element the loop is at is one of the header.
LEMMA ElementIsOne == ASSUME ParseTypeOK, AtElement PROVE Element \in Elements
  BY HeadersAssumption DEF ParseTypeOK, AtElement, Element

\* Every iteration of the loop keeps its invariant.
LEMMA ParseStepInv == ParseInv /\ [ParseNext]_parseVars => ParseInv'
  <1> SUFFICES ASSUME ParseInv, [ParseNext]_parseVars PROVE ParseInv'
    OBVIOUS
  <1> USE DEF ParseInv
  <1>0. /\ header \in Seq(Elements) /\ Len(header) \in Nat /\ size \in Nat
        /\ pos \in Nat /\ specs \in Nat /\ Len(ranges) \in Nat
    BY HeadersAssumption, SizesAssumption DEF ParseTypeOK
  <1>1. CASE SkipBlank
    BY <1>0, <1>1 DEF SkipBlank, AtElement, ParseTypeOK, RangesInside, NoAmplification
  <1>2. CASE Malformed
    BY <1>0, <1>2 DEF Malformed, AtElement, ParseTypeOK, RangesInside, NoAmplification, Results
  <1>3. CASE SkipUnsatisfiable
    BY <1>0, <1>3, MaxRangesAssumption
       DEF SkipUnsatisfiable, AtSpec, AtElement, ParseTypeOK, RangesInside, NoAmplification
  <1>4. CASE AddRange
    <2> DEFINE r == HttpRange(Element)
    <2>1. r \in [start : Nat, length : Nat] /\ r.length > 0 /\ r.start + r.length <= size
      BY <1>0, <1>4, ElementIsOne, HttpRangeInside DEF AddRange, AtSpec
    <2>2. /\ total' = total + r.length
          /\ total' > size => result' = "ignored" /\ ranges' = ranges
          /\ ~(total' > size) => ranges' = Append(ranges, r) /\ result' = result
          /\ pos' = pos + 1 /\ specs' = specs + 1 /\ UNCHANGED <<header, size>>
          /\ specs + 1 <= MaxRanges /\ result = "parsing" /\ pos < Len(header)
      BY <1>4 DEF AddRange, AtSpec, AtElement
    <2> HIDE DEF r
    <2>3. ParseTypeOK'
      <3>1. ranges' \in Seq([start : Nat, length : Nat])
        <4>1. ranges' = ranges \/ ranges' = Append(ranges, r)
          BY <2>2
        <4> DEFINE R == [start : Nat, length : Nat]
        <4>2. ranges \in Seq(R) /\ r \in R
          BY <2>1 DEF ParseTypeOK
        <4> HIDE DEF R
        <4>3. ranges' \in Seq(R)
          BY <4>1, <4>2
        <4> QED
          BY <4>3 DEF R
      <3>2. result' \in Results
        BY <2>2 DEF ParseTypeOK, Results
      <3>3. total' \in Nat
        BY <2>1, <2>2 DEF ParseTypeOK
      <3>4. pos' \in 0 .. Len(header') /\ specs' \in 0 .. pos'
        BY <1>0, <2>2 DEF ParseTypeOK
      <3> QED
        BY <2>2, <3>1, <3>2, <3>3, <3>4 DEF ParseTypeOK
    <2>4. RangesInside'
      <3>1. CASE total' > size
        BY <2>2, <3>1 DEF RangesInside
      <3>2. CASE ~(total' > size)
        <4> SUFFICES ASSUME NEW i \in DOMAIN ranges'
                     PROVE ranges'[i].length > 0
                           /\ ranges'[i].start + ranges'[i].length <= size'
          BY DEF RangesInside
        <4>1. ranges' = Append(ranges, r) /\ size' = size
          BY <2>2, <3>2
        <4>2. CASE i = Len(ranges) + 1
          BY <4>1, <4>2, <2>1 DEF ParseTypeOK
        <4>3. CASE i # Len(ranges) + 1
          <5>1. i \in DOMAIN ranges /\ ranges'[i] = ranges[i]
            BY <4>1, <4>3 DEF ParseTypeOK
          <5> QED
            BY <5>1, <4>1 DEF RangesInside
        <4> QED
          BY <4>2, <4>3
      <3> QED
        BY <3>1, <3>2
    <2>5. NoAmplification'
      BY <1>0, <2>1, <2>2, MaxRangesAssumption DEF ParseTypeOK, NoAmplification
    <2> QED
      BY <2>3, <2>4, <2>5
  <1>5. CASE Conclude
    BY <1>0, <1>5 DEF Conclude, ParseTypeOK, RangesInside, NoAmplification, Results
  <1>6. CASE UNCHANGED parseVars
    BY <1>6 DEF parseVars, ParseTypeOK, RangesInside, NoAmplification
  <1> QED
    BY <1>1, <1>2, <1>3, <1>4, <1>5, <1>6 DEF ParseNext

\* The loop invariant holds throughout, for every header and content size.
THEOREM ParseInvariance == ParseSpec => []ParseInv
  BY ParseInitInv, ParseStepInv, PTL DEF ParseSpec

\* A range of the result never reaches outside the content, so that serveRange
\* can slice the data by it and serveLargeFile can seek to it.
THEOREM RangesInsideContent == ParseSpec => []RangesInside
  BY ParseInvariance, PTL DEF ParseInv

\* A Range header is never amplified: the ranges of a result are at most
\* MaxRanges and together no longer than the content.
THEOREM RangesBounded == ParseSpec => []NoAmplification
  BY ParseInvariance, PTL DEF ParseInv

===============================================================================

----------------------------- MODULE RangeParse -----------------------------
(***************************************************************************)
(* parseRange (internal/handler/file.go): the byte ranges that a Range     *)
(* header selects in a content of a given size.  The loop over the         *)
(* comma-separated elements is a state machine with one step per element.  *)
(*                                                                         *)
(* An element is what is left of its text once trimmed and split at "-":   *)
(* Blank, NoDash, or the numbers on both sides, each possibly Absent.      *)
(* NotANumber (-1) is a text that strconv.ParseInt refuses (a number above *)
(* int64 included); the code treats it as it treats negative numbers.      *)
(***************************************************************************)
EXTENDS Integers, Sequences

CONSTANTS
    Headers,    \* the headers to parse, as sequences of elements
    Sizes,      \* content sizes
    MaxRanges,  \* maxRanges
    Blank,      \* an empty element
    NoDash,     \* an element without "-"
    Absent      \* nothing on this side of the "-"

NotANumber == -1

Numbers == Nat \cup {NotANumber, Absent}
Elements == [first : Numbers, last : Numbers] \cup {Blank, NoDash}

ASSUME HeadersAssumption == Headers \subseteq Seq(Elements)
ASSUME SizesAssumption == Sizes \subseteq Nat
ASSUME MaxRangesAssumption == MaxRanges \in Nat
ASSUME ElementAssumption == Blank # NoDash /\ Absent \notin Int

VARIABLES
    header,
    size,
    pos,        \* elements already parsed
    specs,      \* of which this many were not blank
    ranges,     \* the satisfiable ranges found, as start and length
    total,      \* the sum of their lengths
    result      \* "parsing", or what parseRange returns

parseVars == <<header, size, pos, specs, ranges, total, result>>

Results == {"parsing", "ranges", "unsatisfiable", "ignored"}

-----------------------------------------------------------------------------
\* A syntactically valid element: a suffix length, or a first position with
\* no last one or one that does not precede it.
WellFormed(e) ==
    /\ e \notin {Blank, NoDash}
    /\ IF e.first = Absent
       THEN e.last # Absent /\ e.last >= 0
       ELSE /\ e.first >= 0
            /\ e.last # Absent => e.last >= e.first

\* Mutants of Unsatisfiable: a first position is not looked at; one byte too
\* generous.
UnsatisfiableSuffix(e) == e.first = Absent /\ (e.last = 0 \/ size = 0)

UnsatisfiableOffByOne(e) ==
    IF e.first = Absent THEN e.last = 0 \/ size = 0 ELSE e.first > size

\* A valid element that selects no byte of the content.
Unsatisfiable(e) ==
    IF e.first = Absent THEN e.last = 0 \/ size = 0 ELSE e.first >= size

\* Mutant of HttpRange: a last position may be one past the content.
HttpRangeOffByOne(e) ==
    IF e.first = Absent
    THEN LET n == IF e.last > size THEN size ELSE e.last
         IN [start |-> size - n, length |-> n]
    ELSE LET last == IF e.last # Absent /\ e.last < size + 1 THEN e.last
                     ELSE size - 1
         IN [start |-> e.first, length |-> last - e.first + 1]

\* The range of a valid, satisfiable element, clamped to the content.
HttpRange(e) ==
    IF e.first = Absent
    THEN LET n == IF e.last > size THEN size ELSE e.last
         IN [start |-> size - n, length |-> n]
    ELSE LET last == IF e.last # Absent /\ e.last < size - 1 THEN e.last
                     ELSE size - 1
         IN [start |-> e.first, length |-> last - e.first + 1]

-----------------------------------------------------------------------------
ParseInit ==
    /\ header \in Headers
    /\ size \in Sizes
    /\ pos = 0
    /\ specs = 0
    /\ ranges = <<>>
    /\ total = 0
    /\ result = "parsing"

\* The loop is at another element.
AtElement == result = "parsing" /\ pos < Len(header)
Element == header[pos + 1]

SkipBlank ==
    /\ AtElement
    /\ Element = Blank
    /\ pos' = pos + 1
    /\ UNCHANGED <<header, size, specs, ranges, total, result>>

\* Too many elements, or a malformed one.
Malformed ==
    /\ AtElement
    /\ Element # Blank
    /\ specs + 1 > MaxRanges \/ ~WellFormed(Element)
    /\ pos' = pos + 1
    /\ specs' = specs + 1
    /\ result' = "ignored"
    /\ UNCHANGED <<header, size, ranges, total>>

\* The loop is at a valid element.
AtSpec == AtElement /\ WellFormed(Element) /\ specs + 1 <= MaxRanges

SkipUnsatisfiable ==
    /\ AtSpec
    /\ Unsatisfiable(Element)
    /\ pos' = pos + 1
    /\ specs' = specs + 1
    /\ UNCHANGED <<header, size, ranges, total, result>>

\* Mutant of AddRange: the sum of the lengths is not limited.
AddAnyRange ==
    /\ AtSpec
    /\ ~Unsatisfiable(Element)
    /\ LET r == HttpRange(Element) IN
         /\ total' = total + r.length
         /\ ranges' = Append(ranges, r)
    /\ pos' = pos + 1
    /\ specs' = specs + 1
    /\ UNCHANGED <<header, size, result>>

\* A range is added, unless the sum of the lengths now exceeds the content.
AddRange ==
    /\ AtSpec
    /\ ~Unsatisfiable(Element)
    /\ LET r == HttpRange(Element) IN
         /\ total' = total + r.length
         /\ IF total' > size
            THEN result' = "ignored" /\ UNCHANGED ranges
            ELSE ranges' = Append(ranges, r) /\ UNCHANGED result
    /\ pos' = pos + 1
    /\ specs' = specs + 1
    /\ UNCHANGED <<header, size>>

\* After the last element.
Conclude ==
    /\ result = "parsing"
    /\ pos = Len(header)
    /\ result' = IF specs = 0 THEN "ignored"
                 ELSE IF ranges = <<>> THEN "unsatisfiable" ELSE "ranges"
    /\ UNCHANGED <<header, size, pos, specs, ranges, total>>

ParseNext ==
    \/ SkipBlank
    \/ Malformed
    \/ SkipUnsatisfiable
    \/ AddRange
    \/ Conclude

ParseSpec == ParseInit /\ [][ParseNext]_parseVars

-----------------------------------------------------------------------------
\* Every variable has its type.
ParseTypeOK ==
    /\ header \in Headers
    /\ size \in Sizes
    /\ pos \in 0 .. Len(header)
    /\ specs \in 0 .. pos
    /\ ranges \in Seq([start : Nat, length : Nat])
    /\ total \in Nat
    /\ result \in Results

\* Every range found lies inside the content and is not empty, so that
\* slicing the data by it cannot fail.
RangesInside ==
    \A i \in DOMAIN ranges :
        ranges[i].length > 0 /\ ranges[i].start + ranges[i].length <= size

\* However the elements overlap, what is answered is bounded: at most
\* MaxRanges ranges, and never more bytes than the content has.
NoAmplification ==
    /\ result \in {"parsing", "ranges"} => total <= size
    /\ Len(ranges) <= specs
    /\ result \in {"parsing", "ranges"} => specs <= MaxRanges

=============================================================================

---------------------------- MODULE MCRangeServing ----------------------------
(* An instance of RangeServing for TLC.                                      *)
EXTENDS RangeServing, SequencesExt, TLC

Span(f, l) == [first |-> f, last |-> l]

\* "", "x", "-x", "0-1", "0-", "1-1", "2-3", "2-9", "3-", "4-", "-2", "-0",
\* "-9", "-" and "2-1".
MCElements == {Blank, NoDash, Span(Absent, NotANumber), Span(0, 1), Span(0, Absent),
               Span(1, 1), Span(2, 3), Span(2, 9), Span(3, Absent), Span(4, Absent),
               Span(Absent, 2), Span(Absent, 0), Span(Absent, 9), Span(Absent, Absent),
               Span(2, 1)}

\* Those that a third element is chosen from, after MaxRanges others.
FewElements == {Blank, Span(1, 1), Span(4, Absent), Span(Absent, 2)}

MCHeaders == BoundedSeq(MCElements, 2) \cup [1 .. 3 -> FewElements]

MCConditionalHeaders == {<<>>, <<Span(1, 1)>>, <<Span(4, Absent)>>}

\* Version 2 is an older release that has been restored with its date.
\* Version 3 is empty, as a file that is being rewritten in place would be.
\* Version 1 is streamed, version 2 has parts that are and a whole that is more
\* than an int, and version 4 is refused.
MCSizeOf == 1 :> 3 @@ 2 :> 5 @@ 3 :> 0 @@ 4 :> 6
MCMTime == 1 :> 2 @@ 2 :> 1 @@ 3 :> 3 @@ 4 :> 4
===============================================================================

------------------------------ MODULE Tracing -------------------------------
(***************************************************************************)
(* src/peon/tracing.py: the spans a Tracer has open, innermost last.       *)
(* start_span is a context manager, so a span ends when the block it       *)
(* traces is left, by an exception too, which is then recorded in it.      *)
(***************************************************************************)
EXTENDS Naturals, Sequences

VARIABLES
  spans,       \* the spans that are open
  recorded     \* the names of the spans an exception was recorded in

tracing == <<spans, recorded>>

\* The blocks named are entered, outermost first.
Started(open, names) == open \o names

\* All but the outermost n are left.
Left(open, n) == SubSeq(open, 1, n)
NamesLeft(open, n) == {open[i] : i \in (n + 1)..Len(open)}

EnterSpans(names) ==
  /\ spans' = Started(spans, names)
  /\ UNCHANGED recorded

LeaveSpans(n) ==
  /\ spans' = Left(spans, n)
  /\ UNCHANGED recorded

\* An exception leaves all but the outermost n.
UnwindSpans(n) ==
  /\ spans' = Left(spans, n)
  /\ recorded' = recorded \cup NamesLeft(spans, n)
=============================================================================

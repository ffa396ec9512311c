---------------------------- MODULE MCAggregate -----------------------------
(* Instances of Aggregate for TLC.                                         *)
EXTENDS Aggregate

\* A window that slides by one, by a part of it that divides it or does not,
\* and by the whole of it; and no aggregation.
SomeSettings ==
  {[window |-> 1, step |-> 1], [window |-> 3, step |-> 1], [window |-> 4, step |-> 2],
   [window |-> 3, step |-> 2], [window |-> 3, step |-> 3]}

Busy == {[len |-> 2, lo |-> 5, hi |-> 9]}
\* A frame without replies and one with one.
SilentAndSingle == {[len |-> 0, lo |-> -1, hi |-> -1], [len |-> 1, lo |-> 5, hi |-> 9]}
=============================================================================

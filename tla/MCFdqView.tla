----------------------------- MODULE MCFdqView ------------------------------
(* Instances of FdqView for TLC.                                           *)
EXTENDS FdqView

\* Frames half a second, two and a half and fifty seconds apart, and one that
\* goes back.
Distances == {1, 5, 100, -3}
SomeFiles ==
  {[i \in 1 .. Len(d) + 1 |-> 12 + FoldFunctionOnSet(+, 0, d, 1 .. i - 1)] :
     d \in BoundedSeq(Distances, 3)} \cup {<<>>}
=============================================================================

------------------------------ MODULE MCPinger ------------------------------
(* Instances of Pinger for TLC.                                            *)
EXTENDS Pinger

OneInterval == <<1>>
TwoIntervals == <<6, 4>>

\* A packet that answers no ping but has the identifier 2 and the sequence 1.
OneForeign == {[ident |-> 2, seqn |-> 1, from |-> 0, n |-> 0]}
=============================================================================

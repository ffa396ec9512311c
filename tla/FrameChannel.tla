---------------------------- MODULE FrameChannel ----------------------------
(***************************************************************************)
(* What a frame file promises, whatever format it has: the frames come     *)
(* back in the order they were written, none lost, none twice. A frame is  *)
(* written here as what the format keeps of it.                            *)
(***************************************************************************)
EXTENDS Naturals, Sequences

CONSTANT Frames       \* what the format can keep

VARIABLES
  written,            \* the frames written so far
  read                \* the frames read so far

vars == <<written, read>>

Init == written = <<>> /\ read = <<>>

Write ==
  /\ \E f \in Frames : written' = Append(written, f)
  /\ UNCHANGED read

Read ==
  /\ Len(read) < Len(written)
  /\ read' = Append(read, written[Len(read) + 1])
  /\ UNCHANGED written

Next == Write \/ Read

Spec == Init /\ [][Next]_vars
=============================================================================

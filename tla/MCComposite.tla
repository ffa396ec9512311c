---------------------------- MODULE MCComposite -----------------------------
(* Instances of Composite for TLC, with the quantizer of precision 1/2 and *)
(* the predictor of the code.                                              *)
EXTENDS Composite

Logs == INSTANCE LinearLog
Medians == INSTANCE Predictor
ToLog(v) == Logs!Encode(2, v)
FromLog(z) == Logs!Decode(2, z)
ByMedian(buffer) == Medians!Predict(buffer)

\* Quantized they are -1, 0, 2, 4, 7 and 10.
SomeValues == {-1, 0, 2, 5, 17, 60}

\* Zero alone, two blocks of one value, two of two and two of four.
FourRanges ==
  <<[blocks |-> 1, size |-> 1], [blocks |-> 2, size |-> 1],
    [blocks |-> 2, size |-> 2], [blocks |-> 2, size |-> 4]>>
=============================================================================

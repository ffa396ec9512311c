----------------------------- MODULE Predictor ------------------------------
(***************************************************************************)
(* WindowMedianPredictor of zzping-lib/src/compress/predict.rs: the next   *)
(* value from the last few, the last one moved on by its distance to their *)
(* median. The code's f64 holds the eighths that arise here exactly; the   *)
(* corrector rounds them.                                                  *)
(***************************************************************************)
EXTENDS Signs, Sequences, SequencesExt

\* Of x eighths, halves away from zero.
Rounded(x) == LET units == (2 * Magnitude(x) + 8) \div 16 IN IF x < 0 THEN -units ELSE units

\* Twice the median: the values at the floor and the ceiling of the middle.
TwiceMedian(buffer) ==
  LET v == SortSeq(buffer, <)
      n == Len(buffer) IN
  v[(n - 1) \div 2 + 1] + v[n \div 2 + 1]

\* A quarter of the distance is added on the way down, half of it on the way up.
Extrapolated(last, twiceMedian) ==
  LET delta == 2 * last - twiceMedian IN
  IF delta < 0 THEN 8 * last + delta ELSE 8 * last + 2 * delta

Predict(buffer) == Rounded(Extrapolated(Last(buffer), TwiceMedian(buffer)))
=============================================================================

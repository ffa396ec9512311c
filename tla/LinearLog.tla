----------------------------- MODULE LinearLog ------------------------------
(***************************************************************************)
(* LinearLogQuantizer of zzping-lib/src/compress/quantize.rs for the       *)
(* precisions 1/m, in integers: linear up to m, and beyond it the powers   *)
(* of 1 + 1/m. The logarithm that the code rounds is compared through its  *)
(* powers: it rounds to k when (1+1/m)^(k-1/2) <= v/zero < (1+1/m)^(k+1/2),*)
(* both sides squared; zero is where the logarithm is 0.                   *)
(***************************************************************************)
EXTENDS Signs, FiniteSetsExt

\* b to the power n.
Pow(b, n) ==
  LET pow[i \in 0 .. n] == IF i = 0 THEN 1 ELSE b * pow[i - 1] IN pow[n]

\* Fault: one less.
LinearPartLess(m) == m - 1

\* linear_part: the reciprocal of the precision, rounded up.
LinearPart(m) == m

\* v is below the upper end of the k-th step from zero.
BelowStep(m, zero, v, k) == v * v * Pow(m, 2 * k + 1) < Pow(m + 1, 2 * k + 1) * zero * zero

\* The logarithm of v/zero to the base 1 + 1/m, rounded.
LogOver(m, zero, v) ==
  CHOOSE k \in 0 .. (m + 1) * v :
    BelowStep(m, zero, v, k) /\ (k > 0 => ~BelowStep(m, zero, v, k - 1))

\* Fault: rounded up.
LogRoundedUp(m, v) ==
  CHOOSE k \in 1 .. v :
    /\ v * Pow(m, k) <= Pow(m + 1, k) * m
    /\ v * Pow(m, k - 1) > Pow(m + 1, k - 1) * m

\* v is above m, the reciprocal of the precision.
Log(m, v) == LogOver(m, m, v)

Encode(m, v) ==
  IF Magnitude(v) <= LinearPart(m) THEN v
  ELSE (Log(m, Magnitude(v)) + LinearPart(m)) * Sign(v)

\* m * (1 + 1/m)^k, rounded.
Power(m, k) == (2 * Pow(m + 1, k) + Pow(m, k - 1)) \div (2 * Pow(m, k - 1))

Decode(m, z) ==
  IF Magnitude(z) <= LinearPart(m) THEN z
  ELSE Power(m, Magnitude(z) - LinearPart(m)) * Sign(z)

\* m * (1 + 1/m)^(h/2), rounded.
PowerOfHalves(m, h) ==
  CHOOSE n \in 0 .. m * Pow(2, h \div 2 + 1) :
    /\ (2 * n - 1) * (2 * n - 1) * Pow(m, h - 1) <= 4 * m * Pow(m + 1, h)
    /\ (2 * n + 1) * (2 * n + 1) * Pow(m, h - 1) > 4 * m * Pow(m + 1, h)

\* decode_f64 of h/2; halves are rounded away from zero.
DecodeHalves(m, h) ==
  LET rounded == (Magnitude(h) + 1) \div 2 IN
  Sign(h) * (IF rounded <= LinearPart(m) THEN rounded
             ELSE PowerOfHalves(m, Magnitude(h) - 2 * LinearPart(m)))

\* Fault: from the whole value below to the one above.
BucketSizeWhole(m, z) == DecodeHalves(m, 2 * z + 1) - DecodeHalves(m, 2 * z - 1) + 1

\* The first and the last value between the two ends that is encoded as z; an
\* end itself where there is none.
BucketSize(m, z) ==
  LET ends == DecodeHalves(m, 2 * z - 1) .. DecodeHalves(m, 2 * z + 1)
      bucket == {n \in ends : Encode(m, n) = z}
      found == IF bucket = {} THEN ends ELSE bucket
  IN Max(found) - Min(found) + 1
=============================================================================

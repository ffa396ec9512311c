----------------------------- MODULE MCFDCodec ------------------------------
(* Instances of FDCodec for TLC, with the quantizer of precision 1.        *)
EXTENDS FDCodec

Powers == INSTANCE LinearLog
\* Tables, which TLC computes once. Differences of the codes of -1 and 3 lie
\* between -4 and 4, and what they decode to between -8 and 8.
Exponents == [v \in -8 .. 8 |-> Powers!Encode(1, v)]
PowersOf == [z \in -4 .. 4 |-> Powers!Decode(1, z)]
ToExponent(v) == Exponents[v]
ToPower(z) == PowersOf[z]

\* The builds and settings that datareadq and fdqread have: a release build
\* with a quantizer, a checked one with delta_enc, and a release build with both.
Release == [quantized |-> TRUE, delta_enc |-> FALSE, overflow_checks |-> FALSE]
Checked == [quantized |-> FALSE, delta_enc |-> TRUE, overflow_checks |-> TRUE]
Deltas == [quantized |-> TRUE, delta_enc |-> TRUE, overflow_checks |-> FALSE]
All == {Release, Checked, Deltas}
=============================================================================

------------------------------- MODULE Signs --------------------------------
(* f64::abs and f64::signum, as zzping-lib/src/compress uses them.         *)
EXTENDS Integers

Magnitude(v) == IF v < 0 THEN -v ELSE v
Sign(v) == IF v < 0 THEN -1 ELSE IF v = 0 THEN 0 ELSE 1
=============================================================================

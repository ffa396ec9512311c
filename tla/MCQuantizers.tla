---------------------------- MODULE MCQuantizers ----------------------------
(* Instances of Quantizers for TLC: as far as its integers reach.          *)
EXTENDS Quantizers

Reach == [m \in {1, 2, 3} |-> IF m = 1 THEN 300 ELSE IF m = 2 THEN 60 ELSE 19]

\* In the order of their values: HuffmanQ does not see another.
Sorted(n, values) == {s \in [1 .. n -> values] : \A i \in 1 .. n - 1 : s[i] <= s[i + 1]}
SomeColumns == Sorted(6, 1 .. 6) \cup Sorted(1, {5})
=============================================================================

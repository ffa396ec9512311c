------------------------------ MODULE HuffmanQ ------------------------------
(***************************************************************************)
(* LogQuantizer and LinearQuantizer of compress/quantize.rs, and HuffmanU64*)
(* of compress/huffman.rs behind them, which may give a rare symbol the    *)
(* code of a neighbour. The logarithm has the precision 1/m; what floats   *)
(* round away is not modelled. No program calls them: dataread's test of   *)
(* HuffmanQ and the FFT experiments that hold one are not run.             *)
(***************************************************************************)
EXTENDS LinearLog, Sequences, SequencesExt, Functions, FiniteSets

CONSTANT MaxCount  \* max_count: bound of a weight, 3600

ASSUME CountAssumption == MaxCount \in Nat \ {0, 1}

Least(data) == Min(Range(data))
Greatest(data) == Max(Range(data))

-----------------------------------------------------------------------------
(* The quantizers. Their data are positive.                                *)

\* LogQuantizer::compress.
LogSymbols(m, data) == [i \in DOMAIN data |-> LogOver(m, Least(data), data[i])]

\* LinearQuantizer::compress. Where all are equal, 0/0 is converted to 0.
LinearSymbols(max_value, data) ==
  LET wide == Greatest(data) - Least(data) IN
  [i \in DOMAIN data |->
     IF wide = 0 THEN 0 ELSE (2 * (data[i] - Least(data)) * max_value + wide) \div (2 * wide)]

\* Fault: one less.
BitsLess(max_value) == CHOOSE b \in 0 .. max_value :
  Pow(2, b + 1) >= max_value /\ (b > 0 => Pow(2, b) < max_value)

\* LogQuantizer::bits, the logarithm of the greatest symbol, rounded up.
Bits(max_value) == CHOOSE b \in 0 .. max_value :
  Pow(2, b) >= max_value /\ (b > 0 => Pow(2, b - 1) < max_value)

\* LogQuantizer::serialize_data and deserialize_data: so many bits of each.
Packed(symbols) ==
  LET values == Pow(2, Bits(Greatest(symbols))) IN [i \in DOMAIN symbols |-> symbols[i] % values]

-----------------------------------------------------------------------------
(* HuffmanU64::compress.                                                   *)

Counts(symbols) ==
  [k \in Range(symbols) |-> Cardinality({i \in DOMAIN symbols : symbols[i] = k})]

\* Fault: rounded down.
ScaledDown(weights) ==
  LET q == Max(Range(weights)) \div MaxCount IN
  IF q > 1 THEN [k \in DOMAIN weights |-> weights[k] \div q] ELSE weights

\* Weights above MaxCount are scaled down; none becomes 0.
Scaled(weights) ==
  LET q == Max(Range(weights)) \div MaxCount IN
  IF q > 1 THEN [k \in DOMAIN weights |-> (weights[k] + q - 1) \div q] ELSE weights

\* The symbol above, or else the one below.
Neighbours(k, weights) ==
  IF k + 1 \in DOMAIN weights THEN {k + 1} ELSE {k - 1} \cap DOMAIN weights

\* The neighbour that takes a symbol seen once, unless it was taken by then.
TakenBy(k, weights, translate) ==
  IF weights[k] = 1 THEN Neighbours(k, weights) \ DOMAIN translate ELSE {}

\* The weights at last, of symbols that have a code.
Clamped(weights) ==
  LET clamped == [k \in DOMAIN weights |-> IF weights[k] < MaxCount THEN weights[k] ELSE MaxCount - 1]
  IN Restrict(clamped, {k \in DOMAIN weights : clamped[k] > 0})

Translated(translate, k) == IF k \in DOMAIN translate THEN translate[k] ELSE k
=============================================================================

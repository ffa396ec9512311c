----------------------------- MODULE Quantizers -----------------------------
(***************************************************************************)
(* Latencies that go through a quantizer and come back. fdqread writes one *)
(* with LinearLogQuantizer, reads it and writes it again, any number of    *)
(* times, as files are joined and recompressed (bin/fdqread.rs). A column  *)
(* goes through HuffmanQ of a LogQuantizer or a LinearQuantizer: that half *)
(* is code of the library that no program runs, since its one caller,      *)
(* test_batchdata_compression of bin/dataread.rs, is commented out there.  *)
(***************************************************************************)
EXTENDS HuffmanQ

CONSTANTS
  Precisions,   \* the m of the precisions 1/m
  Largest,      \* Largest[m]: bound of a latency that is rewritten
  Columns,      \* columns of HuffmanQ: sequences of positive latencies
  Maxima        \* possible max_value of the LinearQuantizer

ASSUME PrecisionAssumption ==
  /\ Precisions \subseteq Nat \ {0}
  /\ Largest \in [Precisions -> Nat]
  /\ Maxima \subseteq Nat
  /\ Columns \subseteq Seq(Nat \ {0}) \ {<<>>}

VARIABLES
  method,       \* "rewrite", "log" or "linear"
  param,        \* the reciprocal of the precision, or max_value
  original,     \* the latencies as the daemon logged them
  kept,         \* what was last read: latencies, or symbols of the quantizer
  passes,       \* number of times they were written, up to two
  weights,      \* HuffmanU64: weights
  keys,         \* symbols it still has to look at
  translate     \* symbols that share the code of another

huffman == <<weights, keys, translate>>
latencyvars == <<method, param, original, kept, passes, huffman>>

LatencyInit ==
  /\ \/ /\ method = "rewrite"
        /\ param \in Precisions
        /\ original \in {<<v>> : v \in -1 .. Largest[param]}
     \/ method = "log" /\ param \in Precisions /\ original \in Columns
     \/ method = "linear" /\ param \in Maxima /\ original \in Columns
  /\ kept = original
  /\ passes = 0
  /\ weights = <<>>
  /\ keys = {}
  /\ translate = <<>>

\* A frame is written with the quantizer and read.
Rewrite ==
  /\ method = "rewrite"
  /\ kept' = [i \in DOMAIN kept |-> Decode(param, Encode(param, kept[i]))]
  /\ passes' = IF passes < 2 THEN passes + 1 ELSE 2
  /\ UNCHANGED <<method, param, original, huffman>>

Symbols ==
  IF method = "log" THEN LogSymbols(param, original) ELSE LinearSymbols(param, original)

\* The quantizer's compress, and the weights of HuffmanU64.
CountSymbols ==
  /\ method # "rewrite"
  /\ weights = <<>>
  /\ weights' = Scaled(Counts(Symbols))
  /\ keys' = Range(Symbols)
  /\ UNCHANGED <<method, param, original, kept, passes, translate>>

\* A key in the order of a HashMap, which is any.
Look(k) ==
  /\ k \in keys
  /\ keys' = keys \ {k}
  /\ LET taken == TakenBy(k, weights, translate) IN
       \/ taken = {} /\ UNCHANGED <<weights, translate>>
       \/ \E dk \in taken :
            /\ translate' = [j \in DOMAIN translate \cup {k} |-> IF j = k THEN dk ELSE translate[j]]
            /\ weights' = [weights EXCEPT ![k] = 0, ![dk] = @ + weights[k]]
  /\ UNCHANGED <<method, param, original, kept, passes>>

\* The symbols are encoded, each with a code of weights, and decoded.
Decompress ==
  /\ weights # <<>> /\ keys = {}
  /\ passes = 0
  /\ kept' = [i \in DOMAIN original |-> Translated(translate, Symbols[i])]
  /\ weights' = Clamped(weights)
  /\ passes' = 1
  /\ UNCHANGED <<method, param, original, keys, translate>>

LatencyNext ==
  \/ Rewrite
  \/ CountSymbols
  \/ \E k \in keys : Look(k)
  \/ Decompress

LatencySpec == LatencyInit /\ [][LatencyNext]_latencyvars

-----------------------------------------------------------------------------
(* Properties.                                                             *)

\* v and m * (1 + 1/m)^k from zero on are at most a step and a half apart.
NearLog(m, zero, v, k) ==
  /\ v * v * Pow(m, 2 * k + 3) <= zero * zero * Pow(m + 1, 2 * k + 3)
  /\ v * v * Pow(m, 2 * k) * Pow(m + 1, 3) >= zero * zero * Pow(m + 1, 2 * k) * Pow(m, 3)

\* "the value encoded is always within a 0.1% margin of the original" for a
\* quantizer of 0.001 (zzping-lib/README.md), here of 1/param: half a
\* microsecond of rounding aside, and however often the file is rewritten. The
\* linear part is exact, the mark of a frame without pings, -1, in it. Through
\* HuffmanQ a value comes back within a step and a half of its quantizer, half
\* of rounding and one of sharing the code of a neighbour, in whatever order
\* the symbols are looked at.
WithinMargin ==
  \A i \in DOMAIN original :
    LET v == original[i] IN
    CASE method = "rewrite" ->
           IF v <= param THEN kept[i] = v
           ELSE 2 * param * Magnitude(kept[i] - v) <= 2 * v + param
      [] method = "log" -> passes = 1 => NearLog(param, Least(original), v, kept[i])
      [] method = "linear" ->
           LET wide == Greatest(original) - Least(original) IN
           passes = 1 =>
             2 * Magnitude((v - Least(original)) * param - kept[i] * wide) <= 3 * wide

\* Rewriting a file does not wear it out.
Stable == [][method = "rewrite" /\ passes > 0 => kept' = kept]_latencyvars

\* A bucket has as many values as are encoded so ("assert_eq!(sz, *l as i64)",
\* quantize.rs:396), on both sides of zero and at the seam of the scales.
BucketCounts ==
  method = "rewrite" =>
    LET largest == Largest[param]
        z == Encode(param, original[1])
        bucket == {n \in 0 .. largest : Encode(param, n) = z}
    IN z \in 0 .. Encode(param, largest) - 1 =>
         /\ BucketSize(param, z) = Cardinality(bucket)
         /\ BucketSize(param, -z) = Cardinality(bucket)

\* Every symbol has a code, or a neighbour whose code it shares and who has
\* kept it, so that no symbol fails to be encoded; and weights are in range.
CodesAll ==
  passes = 1 /\ method # "rewrite" =>
    \A i \in DOMAIN kept : kept[i] \in DOMAIN weights /\ weights[kept[i]] \in 1 .. MaxCount - 1

\* The symbols of a LogQuantizer that were serialized come back, unless the
\* greatest is a power of two: that is taken for 0 (quantize.rs:26 says the
\* bits are those "required to serialize one value").
PacksBack ==
  method = "log" =>
    LET symbols == Symbols
        greatest == Greatest(symbols)
        lost == {Pow(2, b) : b \in 0 .. greatest} \cap {greatest}
    IN Packed(symbols) = [i \in DOMAIN symbols |-> IF symbols[i] \in lost THEN 0 ELSE symbols[i]]
=============================================================================

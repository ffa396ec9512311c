----------------------------- MODULE Composite ------------------------------
(***************************************************************************)
(* CompositeStage of zzping-lib/src/compress/composite.rs, which writes    *)
(* each value as what is left of it when a prediction from the values      *)
(* before is subtracted: quantizer, predictor, corrector (corrector.rs),   *)
(* the blocks of HuffmanMapS (huffmapper.rs) and a huffman code. Writer    *)
(* and reader each run a predictor, which must agree. The quantizer and    *)
(* the predictor are parameters. The huffman code is that of a library:    *)
(* both sides build the same, and a symbol comes back as it was written.   *)
(***************************************************************************)
EXTENDS Signs, Sequences, SequencesExt

CONSTANTS
  Quantize(_),     \* LinearLogQuantizer::encode
  Dequantize(_),   \* LinearLogQuantizer::decode
  Prediction(_),   \* WindowMedianPredictor::predict and its rounding, of some values
  WindowSize,      \* window_size of the predictor
  Ranges,          \* the calls of update_from_fn_range: numbers and sizes of blocks
  RawSize,         \* values of a raw symbol's extra bits
  Values,          \* what is written
  MaxValues        \* bound of the values in a buffer

ASSUME StageAssumption ==
  /\ WindowSize \in Nat \ {0}
  /\ RawSize \in Nat \ {0}
  /\ MaxValues \in Nat
  /\ \A v \in Values : Quantize(v) \in Int

\* The first range is that of zero alone: a key of zero has no sign.
ASSUME RangeAssumption ==
  /\ Ranges \in Seq([blocks : Nat \ {0}, size : Nat \ {0}])
  /\ Ranges # <<>>
  /\ Ranges[1] = [blocks |-> 1, size |-> 1]

\* What a predictor is asked about.
Buffers == UNION {[1 .. n -> {Quantize(v) : v \in Values}] : n \in 1 .. WindowSize}

ASSUME PredictorAssumption == \A buffer \in Buffers : Prediction(buffer) \in Int

\* The predictor goes on from the last value by no more than half of its distance
\* to the median: it leaves the values it holds by half of their range, and a
\* rounding.
ASSUME DistanceAssumption ==
  \A buffer \in Buffers : \E i, j \in DOMAIN buffer :
    LET range == buffer[j] - buffer[i] IN
    /\ 2 * buffer[i] - range - 1 <= 2 * Prediction(buffer)
    /\ 2 * Prediction(buffer) <= 2 * buffer[j] + range + 1

VARIABLES
  cur,      \* where the next range of blocks begins
  blocks,   \* HuffmanMapS.blocks
  input,    \* the values written
  enc,      \* buffer of the writer's predictor
  bits,     \* the symbols with their extra data
  dec,      \* buffer of the reader's predictor
  output,   \* the values read
  panic     \* the side that panicked: "none", "writer" or "reader"

map == <<cur, blocks>>
vars == <<map, input, enc, bits, dec, output, panic>>

-----------------------------------------------------------------------------
(* WindowMedianPredictor: its buffer.                                      *)

PushValue(buffer, v) ==
  LET longer == Append(buffer, v) IN
  IF Len(longer) > WindowSize THEN Tail(longer) ELSE longer

-----------------------------------------------------------------------------
(* BasicCorrector. A value without a prediction is raw.                    *)

Diff(buffer, qval) ==
  IF buffer = <<>> THEN [raw |-> TRUE, value |-> qval]
  ELSE [raw |-> FALSE, value |-> qval - Prediction(buffer)]

Undiff(buffer, diff) == IF diff.raw THEN diff.value ELSE diff.value + Prediction(buffer)

-----------------------------------------------------------------------------
(* HuffmanMapS. A key of the raw symbol is told from the others by its     *)
(* number, here by "raw".                                                  *)

\* update_from_fn_range: the blocks of a range begin where the last one ended.
UpdateFromFnRange(r) ==
  LET next == [quantized |-> cur.quantized + r.blocks * r.size,
               huffman |-> cur.huffman + r.blocks] IN
  /\ blocks' = Append(blocks, [start_quantized |-> cur.quantized,
                               start_huffman |-> cur.huffman,
                               end_quantized |-> next.quantized,
                               end_huffman |-> next.huffman,
                               block_size |-> r.size])
  /\ cur' = next

\* Fault: the first value of a block is not found.
QvalBlockInside(v) ==
  {b \in ToSet(blocks) : b.start_quantized < Magnitude(v) /\ Magnitude(v) < b.end_quantized}

\* get_qval_block and get_hkey_block.
QvalBlock(v) ==
  {b \in ToSet(blocks) : b.start_quantized <= Magnitude(v) /\ Magnitude(v) < b.end_quantized}
HkeyBlock(k) ==
  {b \in ToSet(blocks) : b.start_huffman <= Magnitude(k) /\ Magnitude(k) < b.end_huffman}

\* tr_corrected2hk, for the block b of v.
BlockKey(b, v) ==
  LET within == Magnitude(v) - b.start_quantized IN
  [raw |-> FALSE,
   key |-> (within \div b.block_size + b.start_huffman) * Sign(v),
   extra |-> within % b.block_size]

\* encode_extra keeps the low bits of a raw value.
RawKey(v) == [raw |-> TRUE, key |-> 0, extra |-> v % RawSize]

\* Fault: the reader forgets the sign of a key.
CorrectedUnsigned(b, h) ==
  (Magnitude(h.key) - b.start_huffman) * b.block_size + h.extra + b.start_quantized

\* tr_hk2corrected, for the block b of h.key.
Corrected(b, h) ==
  ((Magnitude(h.key) - b.start_huffman) * b.block_size + h.extra + b.start_quantized)
    * Sign(h.key)

-----------------------------------------------------------------------------
Init ==
  /\ cur = [quantized |-> 0, huffman |-> 0]
  /\ blocks = <<>>
  /\ input = <<>>
  /\ enc = <<>>
  /\ bits = <<>>
  /\ dec = <<>>
  /\ output = <<>>
  /\ panic = "none"

\* One call of update_from_fn, which both sides make.
Build ==
  /\ Len(blocks) < Len(Ranges)
  /\ UpdateFromFnRange(Ranges[Len(blocks) + 1])
  /\ UNCHANGED <<input, enc, bits, dec, output, panic>>

Built == Len(blocks) = Len(Ranges)

\* CompositeStage::encode. The predictor has the value when the unwrap of
\* to_hkey panics, on a difference that no block reaches.
StageEncode ==
  /\ Built
  /\ panic = "none"
  /\ Len(input) < MaxValues
  /\ \E value \in Values :
       LET qval == Quantize(value)
           diff == Diff(enc, qval) IN
       /\ input' = Append(input, value)
       /\ enc' = PushValue(enc, qval)
       /\ IF diff.raw \/ QvalBlock(diff.value) # {}
          THEN /\ \/ diff.raw /\ bits' = Append(bits, RawKey(diff.value))
                  \/ /\ ~diff.raw
                     /\ \E b \in QvalBlock(diff.value) :
                          bits' = Append(bits, BlockKey(b, diff.value))
               /\ UNCHANGED panic
          ELSE panic' = "writer" /\ UNCHANGED bits
  /\ UNCHANGED <<map, dec, output>>

\* What the reader makes of a symbol: the value is pushed and dequantized.
Restore(diff) ==
  LET qval == Undiff(dec, diff) IN
  /\ dec' = PushValue(dec, qval)
  /\ output' = Append(output, Dequantize(qval))
  /\ UNCHANGED panic

\* CompositeStage::decode. It panics on a key of no block, and on a difference
\* without a prediction.
StageDecode ==
  /\ panic # "reader"
  /\ Len(output) < Len(bits)
  /\ LET h == bits[Len(output) + 1] IN
       IF h.raw THEN Restore([raw |-> TRUE, value |-> h.extra])
       ELSE IF dec # <<>> /\ HkeyBlock(h.key) # {}
       THEN \E b \in HkeyBlock(h.key) : Restore([raw |-> FALSE, value |-> Corrected(b, h)])
       ELSE panic' = "reader" /\ UNCHANGED <<dec, output>>
  /\ UNCHANGED <<map, input, enc, bits>>

Next == Build \/ StageEncode \/ StageDecode

Spec == Init /\ [][Next]_vars

-----------------------------------------------------------------------------
(* Properties.                                                             *)

\* The first value fits into the extra bits of a raw symbol ("12 bit raw
\* only"): up to 22 ms at the precision that is used.
FirstFits == input # <<>> => Quantize(input[1]) \in 0 .. RawSize - 1

\* What the reader gets back is what was written, as precise as the quantizer
\* keeps it: the two predictors see the same values although one is asked
\* before and the other after the difference is known, and every difference,
\* whatever its sign and its block, is restored.
ValuesKept ==
  FirstFits =>
    \A i \in DOMAIN output : output[i] = Dequantize(Quantize(input[i]))

\* Nothing panics while the quantized values lie within two thirds of what the
\* blocks reach: the prediction leaves the range of the values by half of it.
NoPanic ==
  /\ panic # "reader"
  /\ (\A i, j \in DOMAIN input :
        3 * (Quantize(input[i]) - Quantize(input[j])) + 1 < 2 * cur.quantized)
       => panic = "none"
=============================================================================

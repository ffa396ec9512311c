--------------------------- MODULE CompressProofs ---------------------------
(***************************************************************************)
(* Proofs about what zzping-lib/src/compress promises. That the composite  *)
(* stage keeps every value, ValuesKept, for any quantizer, predictor,      *)
(* ranges of blocks and window, and that it does not panic, NoPanic, with  *)
(* a predictor that keeps its distance to the values. That a latency comes *)
(* back from its quantizer within the margin, WithinMargin, and does not   *)
(* change when it is written again, Stable; that buckets are counted,      *)
(* BucketCounts, symbols packed, PacksBack, and all of them coded,         *)
(* CodesAll: for every precision 1/m, latency and column.                  *)
(***************************************************************************)
EXTENDS Composite, Quantizers, NatProofs, FiniteSetTheorems, SequenceTheorems, TLAPS

Block == [start_quantized : Nat, start_huffman : Nat,
          end_quantized : Nat, end_huffman : Nat, block_size : Nat \ {0}]

\* A block's keys and values correspond, and only zero has the key zero.
WellFormed(b) ==
  /\ b.start_huffman < b.end_huffman
  /\ b.end_quantized = b.start_quantized + (b.end_huffman - b.start_huffman) * b.block_size
  /\ b.start_huffman = 0 => b.start_quantized = 0 /\ b.end_quantized = 1
  /\ b.start_huffman # 0 => b.start_quantized # 0

\* The blocks built so far lie in a row, and cur behind them.
RowInv ==
  /\ cur \in [quantized : Nat, huffman : Nat]
  /\ blocks \in Seq(Block)
  /\ Len(blocks) <= Len(Ranges)
  /\ blocks = <<>> => cur.quantized = 0 /\ cur.huffman = 0
  /\ blocks # <<>> => cur.quantized # 0 /\ cur.huffman # 0
  /\ \A i \in 1 .. Len(blocks) : WellFormed(blocks[i]) /\ blocks[i].end_huffman <= cur.huffman
  /\ \A i, j \in 1 .. Len(blocks) : i < j => blocks[i].end_huffman <= blocks[j].start_huffman

-----------------------------------------------------------------------------
(* The blocks.                                                             *)

\* The next block begins where the last one ended.
LEMMA NextBlock ==
  ASSUME RowInv, NEW r \in [blocks : Nat \ {0}, size : Nat \ {0}],
         blocks = <<>> => r = [blocks |-> 1, size |-> 1],
         NEW b,
         b = [start_quantized |-> cur.quantized, start_huffman |-> cur.huffman,
              end_quantized |-> cur.quantized + r.blocks * r.size,
              end_huffman |-> cur.huffman + r.blocks, block_size |-> r.size]
  PROVE  /\ b \in Block
         /\ WellFormed(b)
         /\ [quantized |-> b.end_quantized, huffman |-> b.end_huffman]
              \in [quantized : Nat \ {0}, huffman : Nat \ {0}]
<1>1. r.blocks * r.size \in Nat \ {0}
  <2> DEFINE m == r.blocks
             s == r.size
  <2>1. m \in Nat /\ s \in Nat /\ m > 0 /\ s > 0
    OBVIOUS
  <2> HIDE DEF m, s
  <2>2. m * s \in Nat /\ m * s # 0
    BY <2>1
  <2> QED BY <2>2 DEF m, s
<1>2. cur.quantized \in Nat /\ cur.huffman \in Nat
  BY DEF RowInv
<1>3. b \in Block
  BY <1>1, <1>2 DEF Block
<1>4. b.end_huffman - b.start_huffman = r.blocks
  BY <1>2
<1>5. b.start_huffman = 0 => b.start_quantized = 0 /\ b.end_quantized = 1
  BY <1>2 DEF RowInv
<1>6. b.start_huffman # 0 => b.start_quantized # 0
  BY <1>2 DEF RowInv
<1>7. WellFormed(b)
  BY <1>2, <1>4, <1>5, <1>6 DEF WellFormed
<1> QED BY <1>1, <1>2, <1>3, <1>7

LEMMA BuildRow == RowInv /\ Build => RowInv'
<1> SUFFICES ASSUME RowInv, Build PROVE RowInv'
  OBVIOUS
<1> DEFINE r == Ranges[Len(blocks) + 1]
           b == [start_quantized |-> cur.quantized, start_huffman |-> cur.huffman,
                 end_quantized |-> cur.quantized + r.blocks * r.size,
                 end_huffman |-> cur.huffman + r.blocks, block_size |-> r.size]
<1>1. Len(blocks) \in Nat /\ Len(blocks) < Len(Ranges)
  BY DEF RowInv, Build
<1>2. r \in [blocks : Nat \ {0}, size : Nat \ {0}]
  <2>1. /\ Ranges \in Seq([blocks : Nat \ {0}, size : Nat \ {0}])
        /\ Len(Ranges) \in Nat
    BY RangeAssumption
  <2>2. Len(blocks) + 1 \in 1 .. Len(Ranges)
    BY <1>1, <2>1
  <2> QED BY <2>1, <2>2, ElementOfSeq
<1>3. blocks = <<>> => r = [blocks |-> 1, size |-> 1]
  BY RangeAssumption
<1>4. /\ b \in Block
      /\ WellFormed(b)
      /\ [quantized |-> b.end_quantized, huffman |-> b.end_huffman]
           \in [quantized : Nat \ {0}, huffman : Nat \ {0}]
  BY <1>2, <1>3, NextBlock
<1>5. /\ blocks' = Append(blocks, b)
      /\ cur' = [quantized |-> b.end_quantized, huffman |-> b.end_huffman]
  BY DEF Build, UpdateFromFnRange
<1>6. b.start_huffman = cur.huffman /\ cur.huffman <= b.end_huffman
  BY <1>4 DEF WellFormed, Block
<1> HIDE DEF b, r
<1>7. /\ blocks \in Seq(Block)
      /\ cur.huffman \in Nat
      /\ \A i \in 1 .. Len(blocks) : WellFormed(blocks[i]) /\ blocks[i].end_huffman <= cur.huffman
      /\ \A i, j \in 1 .. Len(blocks) : i < j => blocks[i].end_huffman <= blocks[j].start_huffman
  BY DEF RowInv
<1>8. /\ blocks' \in Seq(Block) /\ blocks' # <<>>
      /\ Len(blocks') = Len(blocks) + 1
      /\ \A i \in 1 .. Len(blocks) : blocks'[i] = blocks[i]
      /\ blocks'[Len(blocks) + 1] = b
  BY <1>4, <1>5, <1>7
<1>9. \A i \in 1 .. Len(blocks') : WellFormed(blocks'[i]) /\ blocks'[i].end_huffman <= cur'.huffman
  <2> SUFFICES ASSUME NEW i \in 1 .. Len(blocks')
               PROVE  WellFormed(blocks'[i]) /\ blocks'[i].end_huffman <= cur'.huffman
    OBVIOUS
  <2>1. CASE i = Len(blocks) + 1
    BY <2>1, <1>4, <1>5, <1>8 DEF Block
  <2>2. CASE i \in 1 .. Len(blocks)
    <3>1. blocks[i] \in Block
      BY <2>2, <1>7
    <3>2. blocks[i].end_huffman \in Nat /\ b.end_huffman \in Nat /\ cur'.huffman = b.end_huffman
      BY <3>1, <1>4, <1>5 DEF Block
    <3> QED BY <3>2, <2>2, <1>6, <1>7, <1>8
  <2> QED BY <2>1, <2>2, <1>1, <1>8
<1>10. \A i, j \in 1 .. Len(blocks') :
         i < j => blocks'[i].end_huffman <= blocks'[j].start_huffman
  <2> SUFFICES ASSUME NEW i \in 1 .. Len(blocks'), NEW j \in 1 .. Len(blocks'), i < j
               PROVE  blocks'[i].end_huffman <= blocks'[j].start_huffman
    OBVIOUS
  <2>1. i \in 1 .. Len(blocks)
    BY <1>1, <1>8
  <2>2. CASE j = Len(blocks) + 1
    BY <2>1, <2>2, <1>6, <1>7, <1>8
  <2>3. CASE j \in 1 .. Len(blocks)
    BY <2>1, <2>3, <1>7, <1>8
  <2> QED BY <2>2, <2>3, <1>1, <1>8
<1> QED BY <1>1, <1>4, <1>5, <1>8, <1>9, <1>10 DEF RowInv

-----------------------------------------------------------------------------
(* A key leads back to its block and its value.                            *)

\* Division by the size of a block.
LEMMA DivideBlock ==
  ASSUME NEW v \in Nat, NEW s \in Nat \ {0}, NEW n \in Nat, v < n * s
  PROVE  /\ v \div s \in Nat /\ v \div s < n
         /\ v % s \in Nat
         /\ (v \div s) * s + (v % s) = v
<1>1. /\ v \div s \in Nat
      /\ v % s \in 0 .. s - 1
      /\ v = s * (v \div s) + (v % s)
  <2>1. v \div s \in Nat
    OBVIOUS
  <2>2. v % s \in 0 .. s - 1
    OBVIOUS
  <2>3. v = s * (v \div s) + (v % s)
    OBVIOUS
  <2> QED BY <2>1, <2>2, <2>3
<1> DEFINE d == v \div s
           m == v % s
<1>2. d \in Nat /\ m \in Nat /\ v = s * d + m
  BY <1>1
<1> HIDE DEF d, m
<1>3. d < n
  <2> SUFFICES ASSUME n <= d PROVE FALSE
    BY <1>2
  <2>1. PICK e \in Nat : d = n + e
    <3>1. d - n \in Nat /\ d = n + (d - n)
      BY <1>2
    <3> QED BY <3>1
  <2>2. d * s = n * s + e * s
    BY <1>2, <2>1
  <2>3. e * s \in Nat /\ n * s \in Nat /\ d * s \in Nat /\ s * d = d * s
    BY <1>2
  <2> QED BY <2>2, <2>3, <1>2
<1>4. d * s = s * d
  BY <1>2
<1> QED BY <1>1, <1>2, <1>3, <1>4 DEF d, m

\* The key of v in its block b.
LEMMA KeyOfBlock ==
  ASSUME NEW b \in Block, WellFormed(b), NEW v \in Int,
         b.start_quantized <= Magnitude(v), Magnitude(v) < b.end_quantized
  PROVE  LET h == BlockKey(b, v) IN
         /\ h.key \in Int
         /\ b.start_huffman <= Magnitude(h.key) /\ Magnitude(h.key) < b.end_huffman
         /\ Corrected(b, h) = v
<1> DEFINE within == Magnitude(v) - b.start_quantized
           s == b.block_size
           d == within \div s
           m == within % s
           n == b.end_huffman - b.start_huffman
           h == BlockKey(b, v)
<1>1. /\ b.start_quantized \in Nat /\ b.start_huffman \in Nat
      /\ b.end_quantized \in Nat /\ b.end_huffman \in Nat
      /\ s \in Nat \ {0}
  BY DEF Block
<1>2. n \in Nat /\ b.end_quantized = b.start_quantized + n * s
  BY <1>1 DEF WellFormed
<1>3. Magnitude(v) \in Nat
  BY DEF Magnitude
<1>4. within \in Nat /\ within < n * s
  <2> HIDE DEF n, s
  <2> QED BY <1>1, <1>2, <1>3
<1>5. d \in Nat /\ d < n /\ m \in Nat /\ d * s + m = within
  <2> HIDE DEF n, s, within
  <2> QED BY <1>1, <1>2, <1>4, DivideBlock
<1>6. h.key = (d + b.start_huffman) * Sign(v) /\ h.extra = m
  BY DEF BlockKey
<1>7. Sign(v) = 0 => d + b.start_huffman = 0
  <2>1. Sign(v) = 0 => Magnitude(v) = 0
    BY DEF Sign, Magnitude
  <2>2. Magnitude(v) = 0 => b.start_quantized = 0 /\ within = 0
    BY <1>1, <1>3
  <2>3. b.start_quantized = 0 => b.start_huffman = 0
    BY <1>1 DEF WellFormed
  <2>4. within = 0 => d = 0
    <3> HIDE DEF within
    <3> QED BY <1>1
  <2> QED BY <2>1, <2>2, <2>3, <2>4
<1>8. Sign(v) # 0 => d + b.start_huffman > 0
  <2>1. Sign(v) # 0 => Magnitude(v) > 0
    BY DEF Sign, Magnitude
  <2>2. Magnitude(v) > 0 => b.end_quantized # 1 \/ b.start_quantized # 0
    BY <1>1, <1>3
  <2>3. b.start_huffman # 0 \/ (b.start_quantized = 0 /\ b.end_quantized = 1)
    BY DEF WellFormed
  <2>4. Sign(v) # 0 => b.start_huffman # 0
    BY <2>1, <2>2, <2>3
  <2>5. b.start_huffman \in Nat /\ d \in Nat
    BY <1>1, <1>5
  <2> HIDE DEF d
  <2> QED BY <2>4, <2>5
<1>9. /\ (d * s + m + b.start_quantized) = Magnitude(v)
      /\ d + b.start_huffman \in Nat
      /\ d + b.start_huffman < b.end_huffman
      /\ d + b.start_huffman >= b.start_huffman
  <2> HIDE DEF d, m, s
  <2>1. within + b.start_quantized = Magnitude(v)
    BY <1>1, <1>3
  <2> QED BY <2>1, <1>1, <1>5
<1> DEFINE k == d + b.start_huffman
<1> HIDE DEF d, m, s, within, n, h
<1>10. k \in Nat /\ h.key = k * Sign(v) /\ (Sign(v) = 0 => k = 0) /\ (Sign(v) # 0 => k > 0)
  BY <1>6, <1>7, <1>8, <1>9
<1>11. Sign(v) \in {-1, 0, 1}
  BY DEF Sign
<1>12. h.key \in Int /\ Magnitude(h.key) = k /\ Sign(h.key) = Sign(v)
  <2> HIDE DEF k
  <2>1. h.key = IF Sign(v) = 1 THEN k ELSE IF Sign(v) = 0 THEN 0 ELSE -k
    BY <1>10, <1>11
  <2> QED BY <2>1, <1>10, <1>11 DEF Magnitude, Sign
<1>13. Corrected(b, h) = ((k - b.start_huffman) * s + m + b.start_quantized) * Sign(v)
  BY <1>6, <1>12 DEF Corrected, s
<1>14. k - b.start_huffman = d
  BY <1>1, <1>5 DEF k
<1>15. Corrected(b, h) = Magnitude(v) * Sign(v)
  BY <1>9, <1>13, <1>14
<1>16. Magnitude(v) * Sign(v) = v
  BY DEF Magnitude, Sign
<1> QED BY <1>9, <1>12, <1>15, <1>16 DEF k, h

\* No other block has a key of b.
LEMMA BlockOfKey ==
  ASSUME RowInv, NEW b \in ToSet(blocks), NEW c \in ToSet(blocks), NEW k \in Int,
         b.start_huffman <= Magnitude(k), Magnitude(k) < b.end_huffman,
         c.start_huffman <= Magnitude(k), Magnitude(k) < c.end_huffman
  PROVE  b = c
<1>1. PICK i \in 1 .. Len(blocks), j \in 1 .. Len(blocks) : blocks[i] = b /\ blocks[j] = c
  BY DEF ToSet, RowInv
<1>2. b \in Block /\ c \in Block
  BY <1>1, ElementOfSeq DEF RowInv
<1>3. /\ b.start_huffman \in Nat /\ b.end_huffman \in Nat
      /\ c.start_huffman \in Nat /\ c.end_huffman \in Nat
      /\ Magnitude(k) \in Nat
  BY <1>2 DEF Block, Magnitude
<1>4. /\ i < j => b.end_huffman <= c.start_huffman
      /\ j < i => c.end_huffman <= b.start_huffman
  BY <1>1 DEF RowInv
<1>5. i = j
  BY <1>3, <1>4
<1> QED BY <1>1, <1>5

\* The reader finds the block of a key and in it the value.
LEMMA KeyLeadsBack ==
  ASSUME RowInv, NEW v \in Int, NEW b \in QvalBlock(v)
  PROVE  /\ HkeyBlock(BlockKey(b, v).key) = {b}
         /\ Corrected(b, BlockKey(b, v)) = v
<1>1. b \in ToSet(blocks) /\ b.start_quantized <= Magnitude(v) /\ Magnitude(v) < b.end_quantized
  BY DEF QvalBlock
<1>2. PICK i \in 1 .. Len(blocks) : blocks[i] = b
  BY <1>1 DEF ToSet, RowInv
<1>3. b \in Block /\ WellFormed(b)
  BY <1>2, ElementOfSeq DEF RowInv
<1> DEFINE h == BlockKey(b, v)
<1>4. /\ h.key \in Int
      /\ b.start_huffman <= Magnitude(h.key) /\ Magnitude(h.key) < b.end_huffman
      /\ Corrected(b, h) = v
  BY <1>1, <1>3, KeyOfBlock
<1> HIDE DEF h
<1>5. b \in HkeyBlock(h.key)
  BY <1>1, <1>4 DEF HkeyBlock
<1>6. ASSUME NEW c \in HkeyBlock(h.key) PROVE c = b
  BY <1>1, <1>4, BlockOfKey DEF HkeyBlock
<1> QED BY <1>4, <1>5, <1>6 DEF h

-----------------------------------------------------------------------------
(* The predictors.                                                         *)

Smaller(a, b) == IF a < b THEN a ELSE b

\* The quantized values that a predictor holds after the first n of s.
Recent(s, n) ==
  [i \in 1 .. Smaller(n, WindowSize) |-> Quantize(s[n - Smaller(n, WindowSize) + i])]

LEMMA QuantizedInt == \A v \in Values : Quantize(v) \in Int
BY StageAssumption

LEMMA RecentType ==
  ASSUME NEW s \in Seq(Values), NEW n \in 0 .. Len(s)
  PROVE  /\ Recent(s, n) \in Seq(Int)
         /\ Len(Recent(s, n)) = Smaller(n, WindowSize)
         /\ n # 0 => Recent(s, n) \in Buffers
<1> DEFINE w == Smaller(n, WindowSize)
<1>1. w \in Nat /\ w <= n /\ w <= WindowSize /\ (n # 0 => w # 0) /\ WindowSize \in Nat \ {0}
  BY StageAssumption DEF Smaller
<1>2. ASSUME NEW i \in 1 .. w PROVE s[n - w + i] \in Values
  <2>1. n - w + i \in 1 .. Len(s)
    BY <1>1
  <2> QED BY <2>1, ElementOfSeq
<1> HIDE DEF w
<1>3. Recent(s, n) = [i \in 1 .. w |-> Quantize(s[n - w + i])]
  BY DEF Recent, w
<1>4. Recent(s, n) \in [1 .. w -> {Quantize(v) : v \in Values}]
  BY <1>2, <1>3
<1>5. Recent(s, n) \in [1 .. w -> Int]
  BY <1>2, <1>3, QuantizedInt
<1>6. Recent(s, n) \in Seq(Int) /\ Len(Recent(s, n)) = w
  <2>1. Recent(s, n) \in Seq(Int)
    BY <1>1, <1>5, SeqDef
  <2>2. DOMAIN Recent(s, n) = 1 .. w
    BY <1>5
  <2> QED BY <2>1, <2>2, <1>1, LenProperties
<1>7. n # 0 => w \in 1 .. WindowSize
  BY <1>1
<1>8. n # 0 => Recent(s, n) \in Buffers
  BY <1>4, <1>7 DEF Buffers
<1> QED BY <1>6, <1>8 DEF w

\* Pushing a value moves the window on by one.
LEMMA RecentPushed ==
  ASSUME NEW s \in Seq(Values), NEW n \in 1 .. Len(s)
  PROVE  PushValue(Recent(s, n - 1), Quantize(s[n])) = Recent(s, n)
<1> DEFINE W == WindowSize
           buffer == Recent(s, n - 1)
           q == Quantize(s[n])
           longer == Append(buffer, q)
<1>1. W \in Nat \ {0} /\ n \in Nat \ {0} /\ n - 1 \in 0 .. Len(s)
  BY StageAssumption
<1>2. buffer \in Seq(Int) /\ Len(buffer) = Smaller(n - 1, W)
  BY <1>1, RecentType
<1>3. q \in Int
  BY QuantizedInt, ElementOfSeq
<1>4. /\ longer \in Seq(Int) /\ Len(longer) = Smaller(n - 1, W) + 1
      /\ \A i \in 1 .. Smaller(n - 1, W) : longer[i] = buffer[i]
      /\ longer[Smaller(n - 1, W) + 1] = q
  BY <1>2, <1>3
<1>5. \A i \in 1 .. Smaller(n - 1, W) :
        buffer[i] = Quantize(s[(n - 1) - Smaller(n - 1, W) + i])
  BY DEF Recent
<1> HIDE DEF buffer, q, longer, W
<1>6. CASE n <= W
  <2>1. Smaller(n - 1, W) = n - 1 /\ Smaller(n, W) = n
    BY <1>1, <1>6 DEF Smaller
  <2>2. PushValue(buffer, q) = longer
    BY <1>1, <1>4, <1>6, <2>1 DEF PushValue, longer, W
  <2>3. Recent(s, n) = [i \in 1 .. n |-> Quantize(s[n - n + i])]
    BY <2>1 DEF Recent, W
  <2>4. \A i \in 1 .. n : longer[i] = Quantize(s[n - n + i])
    <3> SUFFICES ASSUME NEW i \in 1 .. n PROVE longer[i] = Quantize(s[n - n + i])
      OBVIOUS
    <3>1. n - n + i = i /\ (n - 1) - (n - 1) + i = i
      BY <1>1
    <3>2. CASE i = n
      <4>1. longer[i] = q
        BY <1>1, <1>4, <2>1, <3>2
      <4> QED BY <4>1, <3>1, <3>2 DEF q
    <3>3. CASE i \in 1 .. n - 1
      <4>1. longer[i] = buffer[i] /\ buffer[i] = Quantize(s[(n - 1) - (n - 1) + i])
        BY <1>4, <1>5, <2>1, <3>3
      <4> QED BY <4>1, <3>1
    <3> QED BY <3>2, <3>3, <1>1
  <2>5. longer = [i \in 1 .. n |-> longer[i]]
    BY <1>1, <1>4, <2>1
  <2> QED BY <2>2, <2>3, <2>4, <2>5 DEF buffer, q
<1>7. CASE n > W
  <2>1. Smaller(n - 1, W) = W /\ Smaller(n, W) = W
    BY <1>1, <1>7 DEF Smaller
  <2>2. PushValue(buffer, q) = Tail(longer)
    BY <1>1, <1>4, <1>7, <2>1 DEF PushValue, longer, W
  <2>3. Recent(s, n) = [i \in 1 .. W |-> Quantize(s[n - W + i])]
    BY <2>1 DEF Recent, W
  <2>4. /\ Tail(longer) \in Seq(Int)
        /\ Len(Tail(longer)) = W
        /\ \A i \in 1 .. W : Tail(longer)[i] = longer[i + 1]
    <3>1. longer # <<>> /\ Len(longer) = W + 1
      BY <1>1, <1>4, <2>1
    <3>2. /\ Tail(longer) \in Seq(Int)
          /\ Len(Tail(longer)) = Len(longer) - 1
          /\ \A i \in 1 .. Len(Tail(longer)) : Tail(longer)[i] = longer[i + 1]
      BY <1>4, <3>1, HeadTailProperties
    <3> QED BY <3>1, <3>2, <1>1
  <2>5. \A i \in 1 .. W : longer[i + 1] = Quantize(s[n - W + i])
    <3> SUFFICES ASSUME NEW i \in 1 .. W PROVE longer[i + 1] = Quantize(s[n - W + i])
      OBVIOUS
    <3>1. CASE i = W
      <4>1. longer[i + 1] = q /\ n - W + i = n
        BY <1>1, <1>4, <2>1, <3>1
      <4> QED BY <4>1 DEF q
    <3>2. CASE i + 1 \in 1 .. W
      <4>1. longer[i + 1] = buffer[i + 1]
        BY <1>4, <2>1, <3>2
      <4>2. buffer[i + 1] = Quantize(s[(n - 1) - W + (i + 1)])
        BY <1>5, <2>1, <3>2
      <4>3. (n - 1) - W + (i + 1) = n - W + i
        BY <1>1
      <4> QED BY <4>1, <4>2, <4>3
    <3> QED BY <3>1, <3>2, <1>1
  <2>6. Recent(s, n) \in Seq(Int) /\ Len(Recent(s, n)) = W
    BY <1>1, <2>1, RecentType DEF W
  <2>7. \A i \in 1 .. W : Tail(longer)[i] = Recent(s, n)[i]
    BY <2>3, <2>4, <2>5
  <2>8. Tail(longer) = Recent(s, n)
    BY <2>4, <2>6, <2>7, SeqEqual
  <2> QED BY <2>2, <2>8 DEF buffer, q
<1> QED BY <1>1, <1>6, <1>7 DEF W

-----------------------------------------------------------------------------
(* Writer and reader in step.                                              *)

HuffmanKeys == {RawKey(v) : v \in Int} \cup {BlockKey(b, v) : b \in Block, v \in Int}

\* What the predictor left of value i.
Residue(i) == Quantize(input[i]) - Prediction(Recent(input, i - 1))

\* Symbol i is that of value i.
Written(i) ==
  IF i = 1 THEN bits[1] = RawKey(Quantize(input[1]))
  ELSE \E b \in QvalBlock(Residue(i)) : bits[i] = BlockKey(b, Residue(i))

\* Each predictor holds the values that its side has come past, and the symbols
\* between them are those of the values between.
Synced ==
  /\ bits \in Seq(HuffmanKeys) /\ Len(bits) <= Len(input)
  /\ output \in Seq({Dequantize(q) : q \in Int}) /\ Len(output) <= Len(bits)
  /\ panic = "none" => Len(bits) = Len(input) /\ enc = Recent(input, Len(input))
  /\ dec = Recent(input, Len(output))
  /\ \A i \in 1 .. Len(bits) : Written(i)
  /\ \A i \in 1 .. Len(output) : output[i] = Dequantize(Quantize(input[i]))

StageInv ==
  /\ RowInv
  /\ input \in Seq(Values)
  /\ ~Built => input = <<>>
  /\ FirstFits => Synced

\* The window of no values is empty, any other has a prediction.
LEMMA NoneRecent == ASSUME NEW s \in Seq(Values) PROVE Recent(s, 0) = <<>>
<1>1. Recent(s, 0) \in Seq(Int) /\ Len(Recent(s, 0)) = Smaller(0, WindowSize)
  BY RecentType, LenProperties
<1>2. Smaller(0, WindowSize) = 0
  BY StageAssumption DEF Smaller
<1> QED BY <1>1, <1>2, EmptySeq

LEMMA SomeRecent ==
  ASSUME NEW s \in Seq(Values), NEW n \in 1 .. Len(s)
  PROVE  Recent(s, n) # <<>> /\ Prediction(Recent(s, n)) \in Int
<1>1. /\ n \in 0 .. Len(s) /\ n # 0 /\ n \in Nat
  BY LenProperties
<1>2. /\ Recent(s, n) \in Buffers
      /\ Len(Recent(s, n)) = Smaller(n, WindowSize)
  BY <1>1, RecentType
<1>3. Smaller(n, WindowSize) # 0
  BY <1>1, StageAssumption DEF Smaller
<1> QED BY <1>2, <1>3, PredictorAssumption, EmptySeq

\* A value that is added does not change the windows before it.
LEMMA RecentKept ==
  ASSUME NEW s \in Seq(Values), NEW v \in Values, NEW n \in 0 .. Len(s)
  PROVE  Recent(Append(s, v), n) = Recent(s, n)
<1> DEFINE w == Smaller(n, WindowSize)
<1>1. w \in Nat /\ w <= n /\ Len(s) \in Nat
  BY StageAssumption, LenProperties DEF Smaller
<1> HIDE DEF w
<1>2. ASSUME NEW i \in 1 .. w PROVE Append(s, v)[n - w + i] = s[n - w + i]
  <2>1. n - w + i \in 1 .. Len(s)
    BY <1>1
  <2> QED BY <2>1
<1>3. /\ Recent(s, n) = [i \in 1 .. w |-> Quantize(s[n - w + i])]
      /\ Recent(Append(s, v), n) = [i \in 1 .. w |-> Quantize(Append(s, v)[n - w + i])]
  BY DEF Recent, w
<1> QED BY <1>2, <1>3

LEMMA InitStage == Init => StageInv
<1> SUFFICES ASSUME Init PROVE StageInv
  OBVIOUS
<1>1. /\ input \in Seq(Values) /\ bits \in Seq(HuffmanKeys)
      /\ output \in Seq({Dequantize(q) : q \in Int}) /\ blocks \in Seq(Block)
      /\ Len(input) = 0 /\ Len(bits) = 0 /\ Len(output) = 0 /\ Len(blocks) = 0
  BY EmptySeq DEF Init
<1>2. RowInv
  <2>1. Len(Ranges) \in Nat
    BY RangeAssumption, LenProperties
  <2> QED BY <1>1, <2>1 DEF Init, RowInv
<1>3. enc = Recent(input, 0) /\ dec = Recent(input, 0)
  BY <1>1, NoneRecent DEF Init
<1>4. Synced
  BY <1>1, <1>3 DEF Synced
<1> QED BY <1>1, <1>2, <1>4 DEF StageInv, Init

LEMMA BuildStage == StageInv /\ Build => StageInv'
<1> SUFFICES ASSUME StageInv, Build PROVE StageInv'
  OBVIOUS
<1>1. RowInv'
  BY BuildRow DEF StageInv
<1>2. /\ UNCHANGED <<input, enc, bits, dec, output, panic>>
      /\ input = <<>> /\ input \in Seq(Values)
  BY DEF Build, Built, StageInv
<1>3. Len(input) = 0
  BY <1>2, EmptySeq
<1>4. Synced
  BY <1>2 DEF StageInv, FirstFits
<1>5. Len(bits) = 0 /\ Len(output) = 0
  BY <1>3, <1>4, LenProperties DEF Synced
<1>6. Synced'
  BY <1>2, <1>4, <1>5 DEF Synced
<1> QED BY <1>1, <1>2, <1>6 DEF StageInv

\* The values before the last one that is added, and their windows, stay.
LEMMA WrittenKept ==
  ASSUME input \in Seq(Values), NEW v \in Values, input' = Append(input, v),
         UNCHANGED blocks, NEW i \in 1 .. Len(input), bits'[i] = bits[i], Written(i)
  PROVE  Written(i)'
<1>1. input'[i] = input[i] /\ i - 1 \in 0 .. Len(input) /\ input'[1] = input[1]
  <2>1. Len(input) \in Nat /\ 1 \in 1 .. Len(input)
    BY LenProperties
  <2> QED BY <2>1
<1>2. Recent(input', i - 1) = Recent(input, i - 1)
  BY <1>1, RecentKept
<1>3. Residue(i)' = Residue(i)
  BY <1>1, <1>2 DEF Residue
<1>4. QvalBlock(Residue(i))' = QvalBlock(Residue(i))
  BY <1>3 DEF QvalBlock
<1>5. CASE i = 1
  BY <1>1, <1>5 DEF Written
<1>6. CASE i # 1
  <2>1. PICK b \in QvalBlock(Residue(i)) : bits[i] = BlockKey(b, Residue(i))
    BY <1>6 DEF Written
  <2>2. b \in QvalBlock(Residue(i))' /\ bits'[i] = BlockKey(b, Residue(i)')
    BY <1>3, <1>4, <2>1
  <2> QED BY <1>6, <2>2 DEF Written
<1> QED BY <1>5, <1>6

LEMMA EncodeStage == StageInv /\ StageEncode => StageInv'
<1> SUFFICES ASSUME StageInv, StageEncode PROVE StageInv'
  OBVIOUS
<1>1. PICK v \in Values :
        /\ input' = Append(input, v)
        /\ enc' = PushValue(enc, Quantize(v))
        /\ LET diff == Diff(enc, Quantize(v)) IN
           IF diff.raw \/ QvalBlock(diff.value) # {}
           THEN /\ \/ diff.raw /\ bits' = Append(bits, RawKey(diff.value))
                   \/ /\ ~diff.raw
                      /\ \E b \in QvalBlock(diff.value) :
                           bits' = Append(bits, BlockKey(b, diff.value))
                /\ UNCHANGED panic
           ELSE panic' = "writer" /\ UNCHANGED bits
  BY DEF StageEncode
<1>2. Built /\ panic = "none" /\ UNCHANGED <<map, dec, output>>
  BY DEF StageEncode
<1> DEFINE q == Quantize(v)
           diff == Diff(enc, q)
<1>0. PICK n : n = Len(input)
  OBVIOUS
<1>3. n = Len(input) /\ input \in Seq(Values) /\ n \in Nat /\ q \in Int
  BY <1>0, LenProperties, QuantizedInt DEF StageInv
<1>4. /\ input' \in Seq(Values) /\ Len(input') = n + 1
      /\ input'[n + 1] = v
      /\ \A i \in 1 .. n : input'[i] = input[i]
  BY <1>1, <1>3
<1>5. RowInv'
  BY <1>2 DEF StageInv, RowInv, map
<1>6. Built'
  BY <1>2 DEF Built, map
<1>7. ASSUME FirstFits' PROVE FirstFits
  <2> SUFFICES ASSUME input # <<>> PROVE Quantize(input[1]) \in 0 .. RawSize - 1
    BY DEF FirstFits
  <2>1. n # 0 /\ input' # <<>>
    BY <1>3, <1>4, EmptySeq
  <2>2. input'[1] = input[1]
    BY <1>3, <1>4, <2>1
  <2> QED BY <1>7, <2>1, <2>2 DEF FirstFits
<1>8. ASSUME FirstFits' PROVE Synced'
  <2>1. Synced
    BY <1>7, <1>8 DEF StageInv
  <2>2. Len(bits) = n /\ enc = Recent(input, n) /\ bits \in Seq(HuffmanKeys)
    BY <1>2, <1>3, <2>1 DEF Synced
  <2>3. output \in Seq({Dequantize(p) : p \in Int}) /\ Len(output) \in 0 .. n
    BY <1>3, <2>1, <2>2, LenProperties DEF Synced
  <2>4. dec' = Recent(input', Len(output'))
    BY <1>1, <1>2, <1>3, <2>1, <2>3, RecentKept DEF Synced
  <2>5. \A i \in 1 .. Len(output') : output'[i] = Dequantize(Quantize(input'[i]))
    BY <1>2, <1>3, <1>4, <2>1, <2>3 DEF Synced
  <2>6. enc' = Recent(input', n + 1)
    <3>1. Recent(input', n) = Recent(input, n)
      BY <1>1, <1>3, RecentKept
    <3>2. n + 1 \in 1 .. Len(input') /\ (n + 1) - 1 = n
      BY <1>3, <1>4
    <3>3. PushValue(Recent(input', (n + 1) - 1), Quantize(input'[n + 1])) = Recent(input', n + 1)
      BY <1>4, <3>2, RecentPushed
    <3> QED BY <1>1, <1>4, <2>2, <3>1, <3>2, <3>3
  <2>7. CASE UNCHANGED bits /\ panic' = "writer"
    <3>1. \A i \in 1 .. Len(bits') : Written(i)'
      BY <1>1, <1>2, <1>3, <2>1, <2>2, <2>7, WrittenKept DEF Synced, map
    <3>2. bits' \in Seq(HuffmanKeys) /\ panic' # "none"
      BY <2>2, <2>7
    <3>3. Len(bits') <= Len(input') /\ Len(output') <= Len(bits')
      <4>1. Len(bits') = n /\ Len(input') = n + 1 /\ Len(output') \in 0 .. n
        BY <1>2, <1>4, <2>2, <2>3, <2>7
      <4> QED BY <1>3, <4>1
    <3> QED BY <1>2, <2>3, <2>4, <2>5, <3>1, <3>2, <3>3 DEF Synced
  <2>8. CASE \E h \in HuffmanKeys :
               /\ bits' = Append(bits, h)
               /\ UNCHANGED panic
               /\ (n = 0 => h = RawKey(q))
               /\ (n # 0 => \E b \in QvalBlock(q - Prediction(Recent(input, n))) :
                              h = BlockKey(b, q - Prediction(Recent(input, n))))
    <3>1. PICK h \in HuffmanKeys :
               /\ bits' = Append(bits, h)
               /\ UNCHANGED panic
               /\ (n = 0 => h = RawKey(q))
               /\ (n # 0 => \E b \in QvalBlock(q - Prediction(Recent(input, n))) :
                              h = BlockKey(b, q - Prediction(Recent(input, n))))
      BY <2>8
    <3>2. /\ bits' \in Seq(HuffmanKeys) /\ Len(bits') = n + 1
          /\ bits'[n + 1] = h
          /\ \A i \in 1 .. n : bits'[i] = bits[i]
      BY <1>3, <2>2, <3>1
    <3>3. \A i \in 1 .. n : Written(i)'
      BY <1>1, <1>2, <1>3, <2>1, <2>2, <3>2, WrittenKept DEF Synced, map
    <3>4. Written(n + 1)'
      <4>1. CASE n = 0
        BY <1>4, <3>1, <3>2, <4>1 DEF Written
      <4>2. CASE n # 0
        <5>1. Recent(input', n) = Recent(input, n) /\ (n + 1) - 1 = n /\ n + 1 # 1
          BY <1>1, <1>3, <4>2, RecentKept
        <5>2. Residue(n + 1)' = q - Prediction(Recent(input, n))
          BY <1>4, <5>1 DEF Residue
        <5>3. PICK b \in QvalBlock(q - Prediction(Recent(input, n))) :
                h = BlockKey(b, q - Prediction(Recent(input, n)))
          BY <3>1, <4>2
        <5>4. b \in QvalBlock(Residue(n + 1))'
          BY <1>2, <5>2, <5>3 DEF QvalBlock, map
        <5>5. bits'[n + 1] = BlockKey(b, Residue(n + 1)')
          BY <3>2, <5>2, <5>3
        <5> QED BY <5>1, <5>4, <5>5 DEF Written
      <4> QED BY <4>1, <4>2
    <3>5. \A i \in 1 .. Len(bits') : Written(i)'
      BY <1>3, <3>2, <3>3, <3>4
    <3>6. bits' \in Seq(HuffmanKeys) /\ Len(bits') = Len(input')
      BY <1>4, <3>2
    <3>7. Len(bits') <= Len(input') /\ Len(output') <= Len(bits')
      <4>1. Len(bits') = n + 1 /\ Len(input') = n + 1 /\ Len(output') \in 0 .. n
        BY <1>2, <1>4, <2>3, <3>2
      <4> QED BY <1>3, <4>1
    <3>8. enc' = Recent(input', Len(input'))
      BY <1>4, <2>6
    <3> QED BY <2>3, <1>2, <2>4, <2>5, <3>5, <3>6, <3>7, <3>8 DEF Synced
  <2>9. CASE n = 0
    <3>1. enc = <<>>
      BY <1>3, <2>2, <2>9, NoneRecent
    <3>2. diff = [raw |-> TRUE, value |-> q]
      BY <3>1 DEF Diff
    <3>3. bits' = Append(bits, RawKey(q)) /\ UNCHANGED panic
      BY <1>1, <3>2
    <3>4. RawKey(q) \in HuffmanKeys
      BY <1>3 DEF HuffmanKeys
    <3> QED BY <2>8, <2>9, <3>3, <3>4
  <2>10. CASE n # 0
    <3> DEFINE e == q - Prediction(Recent(input, n))
    <3>1. enc # <<>> /\ Prediction(Recent(input, n)) \in Int
      BY <1>3, <2>2, <2>10, SomeRecent
    <3>2. diff = [raw |-> FALSE, value |-> e]
      BY <2>2, <3>1 DEF Diff
    <3>3. e \in Int
      BY <1>3, <3>1
    <3>4. CASE QvalBlock(e) = {}
      BY <1>1, <2>7, <3>2, <3>4
    <3>5. CASE QvalBlock(e) # {}
      <4>1. UNCHANGED panic /\ \E b \in QvalBlock(e) : bits' = Append(bits, BlockKey(b, e))
        BY <1>1, <3>2, <3>5
      <4>2. PICK b \in QvalBlock(e) : bits' = Append(bits, BlockKey(b, e))
        BY <4>1
      <4>3. b \in Block
        <5>1. PICK i \in 1 .. Len(blocks) : blocks[i] = b
          BY DEF QvalBlock, ToSet, StageInv, RowInv
        <5> QED BY <5>1, ElementOfSeq DEF StageInv, RowInv
      <4>4. BlockKey(b, e) \in HuffmanKeys
        BY <3>3, <4>3 DEF HuffmanKeys
      <4> QED BY <2>8, <2>10, <4>1, <4>2, <4>4
    <3> QED BY <3>4, <3>5
  <2> QED BY <2>9, <2>10
<1> QED BY <1>4, <1>5, <1>6, <1>8 DEF StageInv

LEMMA DecodeStage == StageInv /\ StageDecode => StageInv'
<1> SUFFICES ASSUME StageInv, StageDecode PROVE StageInv'
  OBVIOUS
<1> DEFINE n == Len(output) + 1
           q == Quantize(input[n])
           h == bits[n]
<1>1. UNCHANGED <<map, input, enc, bits>> /\ Len(output) < Len(bits)
  BY DEF StageDecode
<1>2. RowInv' /\ (~Built' => input' = <<>>) /\ input' \in Seq(Values)
  BY <1>1 DEF StageInv, RowInv, Built, map
<1>3. ASSUME FirstFits PROVE Synced'
  <2>1. Synced
    BY <1>3 DEF StageInv
  <2>2. input \in Seq(Values) /\ Len(output) \in Nat /\ Len(bits) \in Nat /\ Len(input) \in Nat
    BY <2>1, LenProperties DEF StageInv, Synced
  <2>3. n \in 1 .. Len(bits) /\ n \in 1 .. Len(input) /\ n - 1 = Len(output)
    BY <1>1, <2>1, <2>2 DEF Synced
  <2>4. dec = Recent(input, n - 1) /\ Written(n)
    BY <2>1, <2>3 DEF Synced
  <2>5. q \in Int
    BY <2>2, <2>3, QuantizedInt, ElementOfSeq
  <2>6. dec' = PushValue(dec, q) /\ output' = Append(output, Dequantize(q)) /\ UNCHANGED panic
    <3>1. CASE n = 1
      <4>1. h = RawKey(q)
        BY <2>4, <3>1 DEF Written
      <4>2. input # <<>>
        BY <2>3, EmptySeq
      <4>3. q \in 0 .. RawSize - 1
        BY <1>3, <3>1, <4>2 DEF FirstFits
      <4>4. q % RawSize = q
        BY <4>3, StageAssumption
      <4>5. h.raw /\ h.extra = q
        BY <4>1, <4>4 DEF RawKey
      <4>6. Restore([raw |-> TRUE, value |-> q])
        BY <4>5 DEF StageDecode
      <4> QED BY <4>6 DEF Restore, Undiff
    <3>2. CASE n # 1
      <4> DEFINE e == Residue(n)
      <4>1. n - 1 \in 1 .. Len(input)
        BY <2>2, <2>3, <3>2
      <4>2. dec # <<>> /\ Prediction(dec) \in Int
        BY <2>2, <2>4, <4>1, SomeRecent
      <4>3. e = q - Prediction(dec) /\ e \in Int
        BY <2>4, <2>5, <4>2 DEF Residue
      <4>4. PICK b \in QvalBlock(e) : h = BlockKey(b, e)
        BY <2>4, <3>2 DEF Written
      <4> HIDE DEF e
      <4>5. HkeyBlock(h.key) = {b} /\ Corrected(b, h) = e
        BY <4>3, <4>4, KeyLeadsBack DEF StageInv
      <4>6. ~h.raw
        BY <4>4 DEF BlockKey
      <4>7. Restore([raw |-> FALSE, value |-> e])
        BY <4>2, <4>5, <4>6 DEF StageDecode
      <4>8. e + Prediction(dec) = q
        BY <2>5, <4>2, <4>3
      <4> QED BY <4>7, <4>8 DEF Restore, Undiff
    <3> QED BY <3>1, <3>2
  <2> DEFINE Read == {Dequantize(p) : p \in Int}
  <2>7. /\ output' \in Seq(Read) /\ Len(output') = n
        /\ output'[n] = Dequantize(q)
        /\ \A i \in 1 .. n - 1 : output'[i] = output[i]
    <3>1. Dequantize(q) \in Read /\ output \in Seq(Read)
      BY <2>1, <2>5 DEF Synced
    <3> HIDE DEF Read
    <3>2. Len(Append(output, Dequantize(q))) = Len(output) + 1
      BY <3>1
    <3>3. Append(output, Dequantize(q)) \in Seq(Read)
      BY <3>1
    <3>4. \A i \in 1 .. Len(output) : Append(output, Dequantize(q))[i] = output[i]
      BY <3>1
    <3>5. Append(output, Dequantize(q))[Len(output) + 1] = Dequantize(q)
      BY <3>1
    <3> QED BY <2>3, <2>6, <3>2, <3>3, <3>4, <3>5
  <2>8. dec' = Recent(input', Len(output'))
    BY <1>1, <2>2, <2>3, <2>4, <2>6, <2>7, RecentPushed
  <2>9. \A i \in 1 .. Len(output') : output'[i] = Dequantize(Quantize(input'[i]))
    <3> SUFFICES ASSUME NEW i \in 1 .. n PROVE output'[i] = Dequantize(Quantize(input[i]))
      BY <1>1, <2>7
    <3>1. CASE i = n
      BY <2>7, <3>1
    <3>2. CASE i \in 1 .. n - 1
      BY <2>1, <2>3, <2>7, <3>2 DEF Synced
    <3> QED BY <2>2, <2>3, <3>1, <3>2
  <2>10. \A i \in 1 .. Len(bits') : Written(i)'
    <3> SUFFICES ASSUME NEW i \in 1 .. Len(bits) PROVE Written(i)'
      BY <1>1
    <3>1. Written(i)
      BY <2>1 DEF Synced
    <3> QED BY <1>1, <3>1 DEF Written, Residue, QvalBlock, map
  <2>11. /\ bits' \in Seq(HuffmanKeys) /\ Len(bits') <= Len(input')
         /\ panic' = "none" => Len(bits') = Len(input') /\ enc' = Recent(input', Len(input'))
    BY <1>1, <2>1, <2>6 DEF Synced
  <2>12. Len(output') <= Len(bits')
    BY <1>1, <2>3, <2>7
  <2> QED BY <2>7, <2>8, <2>9, <2>10, <2>11, <2>12 DEF Synced
<1>4. FirstFits' <=> FirstFits
  BY <1>1 DEF FirstFits
<1> QED BY <1>2, <1>3, <1>4 DEF StageInv

\* What the reader gets back is what was written, as precise as the quantizer
\* keeps it, for every quantizer, every predictor and every ranges of blocks:
\* decode undoes encode as long as the first value fits into a raw symbol.
THEOREM EveryValueKept == Spec => []ValuesKept
<1>1. Init => StageInv
  BY InitStage
<1>2. StageInv /\ [Next]_vars => StageInv'
  <2> SUFFICES ASSUME StageInv, [Next]_vars PROVE StageInv'
    OBVIOUS
  <2>1. CASE Build
    BY <2>1, BuildStage
  <2>2. CASE StageEncode
    BY <2>2, EncodeStage
  <2>3. CASE StageDecode
    BY <2>3, DecodeStage
  <2>4. CASE UNCHANGED vars
    BY <2>4 DEF vars, map, StageInv, RowInv, Built, FirstFits, Synced, Written, Residue,
                QvalBlock
  <2> QED BY <2>1, <2>2, <2>3, <2>4 DEF Next
<1>3. StageInv => ValuesKept
  <2> SUFFICES ASSUME StageInv, FirstFits
               PROVE  \A i \in DOMAIN output : output[i] = Dequantize(Quantize(input[i]))
    BY DEF ValuesKept
  <2>1. Synced
    BY DEF StageInv
  <2>2. DOMAIN output = 1 .. Len(output)
    BY <2>1, LenProperties DEF Synced
  <2> QED BY <2>1, <2>2 DEF Synced
<1> QED BY <1>1, <1>2, <1>3, PTL DEF Spec

-----------------------------------------------------------------------------
(* The panics. Here the first value need not fit into a raw symbol: what   *)
(* the reader restores is then unknown, but it restores something.         *)

\* The blocks leave no gap.
Covered == \A m \in 0 .. cur.quantized - 1 :
             \E b \in ToSet(blocks) : b.start_quantized <= m /\ m < b.end_quantized

\* The values that are written lie within two thirds of the blocks.
Contained ==
  \A i, j \in DOMAIN input :
    3 * (Quantize(input[i]) - Quantize(input[j])) + 1 < 2 * cur.quantized

\* The first symbol is raw, any other has a key of some block.
Readable ==
  /\ bits \in Seq(HuffmanKeys)
  /\ bits # <<>> => bits[1].raw
  /\ \A i \in 1 .. Len(bits) : bits[i].raw \/ HkeyBlock(bits[i].key) # {}

PanicInv ==
  /\ RowInv
  /\ Covered
  /\ input \in Seq(Values)
  /\ ~Built => input = <<>>
  /\ enc = Recent(input, Len(input))
  /\ bits = <<>> <=> input = <<>>
  /\ Readable
  /\ \E S : output \in Seq(S)
  /\ \E S : dec \in Seq(S)
  /\ dec = <<>> => output = <<>>
  /\ panic \in {"none", "writer"}
  /\ Contained => panic = "none"

LEMMA InitPanic == Init => PanicInv
<1> SUFFICES ASSUME Init PROVE PanicInv
  OBVIOUS
<1>1. /\ input \in Seq(Values) /\ bits \in Seq(HuffmanKeys) /\ blocks \in Seq(Block)
      /\ Len(input) = 0 /\ Len(bits) = 0 /\ Len(blocks) = 0
  BY EmptySeq DEF Init
<1>2. RowInv
  <2>1. Len(Ranges) \in Nat
    BY RangeAssumption, LenProperties
  <2> QED BY <1>1, <2>1 DEF Init, RowInv
<1>3. Covered
  BY DEF Init, Covered
<1>4. enc = Recent(input, Len(input))
  BY <1>1, NoneRecent DEF Init
<1>5. (\E S : output \in Seq(S)) /\ (\E S : dec \in Seq(S))
  BY EmptySeq DEF Init
<1>6. Readable
  BY <1>1 DEF Init, Readable
<1> QED BY <1>1, <1>2, <1>3, <1>4, <1>5, <1>6 DEF Init, PanicInv

\* The next range of blocks begins where the last one ended.
LEMMA BuildCovered == RowInv /\ Covered /\ Build => Covered'
<1> SUFFICES ASSUME RowInv, Covered, Build, NEW m \in 0 .. cur'.quantized - 1
             PROVE  \E b \in ToSet(blocks') : b.start_quantized <= m /\ m < b.end_quantized
  BY DEF Covered
<1> DEFINE r == Ranges[Len(blocks) + 1]
           b == [start_quantized |-> cur.quantized, start_huffman |-> cur.huffman,
                 end_quantized |-> cur.quantized + r.blocks * r.size,
                 end_huffman |-> cur.huffman + r.blocks, block_size |-> r.size]
<1>1. blocks' = Append(blocks, b) /\ cur'.quantized = b.end_quantized
  BY DEF Build, UpdateFromFnRange
<1>2. cur.quantized \in Nat /\ blocks \in Seq(Block) /\ b.start_quantized = cur.quantized
  BY DEF RowInv
<1>3. ToSet(blocks) \subseteq ToSet(blocks') /\ b \in ToSet(blocks')
  <2> HIDE DEF b
  <2> DEFINE T == Block \cup {b}
  <2>1. blocks \in Seq(T) /\ b \in T
    BY <1>2, SeqMonotonic
  <2> HIDE DEF T
  <2>2. /\ Len(blocks) \in Nat /\ blocks' \in Seq(T) /\ Len(blocks') = Len(blocks) + 1
        /\ \A i \in 1 .. Len(blocks) : blocks'[i] = blocks[i]
        /\ blocks'[Len(blocks) + 1] = b
    BY <1>1, <2>1
  <2>3. DOMAIN blocks = 1 .. Len(blocks) /\ DOMAIN blocks' = 1 .. Len(blocks')
    BY <2>1, <2>2
  <2> QED BY <2>2, <2>3 DEF ToSet
<1> HIDE DEF b
<1>4. CASE m \in 0 .. cur.quantized - 1
  BY <1>3, <1>4 DEF Covered
<1>5. CASE m \notin 0 .. cur.quantized - 1
  <2>1. cur'.quantized \in Nat
    BY BuildRow DEF RowInv
  <2>2. b.start_quantized <= m /\ m < b.end_quantized
    BY <1>1, <1>2, <1>5, <2>1
  <2> QED BY <1>3, <2>2
<1> QED BY <1>4, <1>5

LEMMA BuildPanic == PanicInv /\ Build => PanicInv'
<1> SUFFICES ASSUME PanicInv, Build PROVE PanicInv'
  OBVIOUS
<1>1. RowInv' /\ Covered'
  BY BuildRow, BuildCovered DEF PanicInv
<1>2. UNCHANGED <<input, enc, bits, dec, output, panic>> /\ input = <<>> /\ bits = <<>>
  BY DEF Build, Built, PanicInv
<1>3. Contained
  BY <1>2 DEF Contained
<1>4. panic = "none"
  BY <1>3 DEF PanicInv
<1>5. Len(bits) = 0
  BY <1>2, EmptySeq
<1>6. Readable'
  BY <1>2, <1>5 DEF PanicInv, Readable
<1> QED BY <1>1, <1>2, <1>4, <1>6 DEF PanicInv

\* The predictor leaves the values by half of their range, so what is left of
\* a value is less than one and a half times it.
LEMMA ResidueBounded ==
  ASSUME NEW c \in Nat, NEW q \in Int, NEW lo \in Int, NEW hi \in Int, NEW p \in Int,
         2 * lo - (hi - lo) - 1 <= 2 * p, 2 * p <= 2 * hi + (hi - lo) + 1,
         3 * (q - lo) + 1 < 2 * c, 3 * (hi - q) + 1 < 2 * c, 3 * (hi - lo) + 1 < 2 * c
  PROVE  Magnitude(q - p) \in 0 .. c - 1
BY DEF Magnitude

\* A value of the buffer is one that was written.
LEMMA RecentValue ==
  ASSUME NEW s \in Seq(Values), NEW n \in 0 .. Len(s), NEW i \in DOMAIN Recent(s, n)
  PROVE  \E k \in 1 .. n : Recent(s, n)[i] = Quantize(s[k])
<1> DEFINE w == Smaller(n, WindowSize)
<1>1. w \in Nat /\ w <= n /\ n \in Nat
  BY StageAssumption DEF Smaller
<1>2. i \in 1 .. w /\ Recent(s, n)[i] = Quantize(s[n - w + i])
  BY DEF Recent
<1> HIDE DEF w
<1>3. n - w + i \in 1 .. n
  BY <1>1, <1>2
<1> QED BY <1>2, <1>3

\* Such a difference lies in some block.
LEMMA ResidueCovered ==
  ASSUME RowInv, Covered, input \in Seq(Values), NEW n \in 1 .. Len(input), NEW v \in Values,
         input' = Append(input, v), UNCHANGED cur, Contained'
  PROVE  QvalBlock(Quantize(v) - Prediction(Recent(input, n))) # {}
<1> DEFINE buffer == Recent(input, n)
           q == Quantize(v)
           p == Prediction(buffer)
           c == cur.quantized
           l == Len(input)
<1>1. buffer \in Buffers /\ p \in Int /\ q \in Int /\ c \in Nat /\ l \in Nat
  <2>1. l \in Nat /\ n \in 0 .. l /\ n # 0
    BY LenProperties
  <2>2. buffer \in Buffers
    BY <2>1, RecentType
  <2>3. p \in Int
    BY SomeRecent
  <2> QED BY <2>1, <2>2, <2>3, QuantizedInt DEF RowInv
<1>2. /\ l + 1 \in DOMAIN input' /\ input'[l + 1] = v
      /\ \A k \in 1 .. n : k \in DOMAIN input' /\ input'[k] = input[k]
                           /\ Quantize(input[k]) \in Int
  <2>1. input' \in Seq(Values) /\ Len(input') = l + 1
    OBVIOUS
  <2>2. DOMAIN input' = 1 .. l + 1
    BY <2>1
  <2>3. ASSUME NEW k \in 1 .. n
        PROVE k \in DOMAIN input' /\ input'[k] = input[k] /\ Quantize(input[k]) \in Int
    <3>1. k \in 1 .. l /\ k \in 1 .. l + 1
      BY <1>1
    <3>2. input[k] \in Values
      BY <3>1, ElementOfSeq
    <3> QED BY <2>2, <3>1, <3>2, QuantizedInt
  <2> QED BY <1>1, <2>2, <2>3
<1>3. PICK i \in DOMAIN buffer, j \in DOMAIN buffer :
        /\ 2 * buffer[i] - (buffer[j] - buffer[i]) - 1 <= 2 * p
        /\ 2 * p <= 2 * buffer[j] + (buffer[j] - buffer[i]) + 1
  BY <1>1, DistanceAssumption
<1>4. PICK a \in 1 .. n : buffer[i] = Quantize(input[a])
  BY <1>3, RecentValue
<1>5. PICK b \in 1 .. n : buffer[j] = Quantize(input[b])
  BY <1>3, RecentValue
<1> DEFINE lo == Quantize(input[a])
           hi == Quantize(input[b])
<1>6. lo \in Int /\ hi \in Int
  BY <1>2
<1>7. 3 * (q - lo) + 1 < 2 * c /\ 3 * (hi - q) + 1 < 2 * c /\ 3 * (hi - lo) + 1 < 2 * c
  BY <1>2 DEF Contained
<1>8. 2 * lo - (hi - lo) - 1 <= 2 * p /\ 2 * p <= 2 * hi + (hi - lo) + 1
  BY <1>3, <1>4, <1>5
<1> HIDE DEF buffer, q, p, c, lo, hi
<1>9. Magnitude(q - p) \in 0 .. c - 1
  BY <1>1, <1>6, <1>7, <1>8, ResidueBounded
<1>10. QvalBlock(q - p) # {}
  BY <1>9 DEF Covered, QvalBlock, c
<1> QED BY <1>10 DEF q, p, buffer

LEMMA EncodePanic == PanicInv /\ StageEncode => PanicInv'
<1> SUFFICES ASSUME PanicInv, StageEncode PROVE PanicInv'
  OBVIOUS
<1>1. PICK v \in Values :
        /\ input' = Append(input, v)
        /\ enc' = PushValue(enc, Quantize(v))
        /\ LET diff == Diff(enc, Quantize(v)) IN
           IF diff.raw \/ QvalBlock(diff.value) # {}
           THEN /\ \/ diff.raw /\ bits' = Append(bits, RawKey(diff.value))
                   \/ /\ ~diff.raw
                      /\ \E b \in QvalBlock(diff.value) :
                           bits' = Append(bits, BlockKey(b, diff.value))
                /\ UNCHANGED panic
           ELSE panic' = "writer" /\ UNCHANGED bits
  BY DEF StageEncode
<1>2. Built /\ panic = "none" /\ UNCHANGED <<map, dec, output>>
  BY DEF StageEncode
<1> DEFINE n == Len(input)
           q == Quantize(v)
<1>3. input \in Seq(Values) /\ n \in Nat /\ q \in Int
  BY LenProperties, QuantizedInt DEF PanicInv
<1>4. /\ input' \in Seq(Values) /\ Len(input') = n + 1 /\ input' # <<>>
      /\ input'[n + 1] = v
      /\ \A i \in 1 .. n : input'[i] = input[i]
  <2>1. input' \in Seq(Values) /\ Len(input') = n + 1
    BY <1>1, <1>3
  <2> QED BY <1>1, <1>3, <2>1, EmptySeq
<1>5. RowInv' /\ Covered' /\ Built'
  BY <1>2 DEF PanicInv, RowInv, Covered, Built, map
<1>6. enc' = Recent(input', Len(input'))
  <2>1. Recent(input', n) = Recent(input, n)
    BY <1>1, <1>3, RecentKept
  <2>2. n + 1 \in 1 .. Len(input') /\ (n + 1) - 1 = n
    BY <1>3, <1>4
  <2>3. PushValue(Recent(input', (n + 1) - 1), Quantize(input'[n + 1])) = Recent(input', n + 1)
    BY <1>4, <2>2, RecentPushed
  <2> QED BY <1>1, <1>4, <2>1, <2>2, <2>3 DEF PanicInv
<1>7. \A k : HkeyBlock(k)' = HkeyBlock(k)
  BY <1>2 DEF HkeyBlock, map
<1>8. bits \in Seq(HuffmanKeys) /\ Len(bits) \in Nat
  BY LenProperties DEF PanicInv, Readable
<1>9. CASE input = <<>>
  <2>1. enc = <<>> /\ bits = <<>>
    BY <1>3, <1>9, NoneRecent, EmptySeq DEF PanicInv
  <2>2. Diff(enc, q) = [raw |-> TRUE, value |-> q]
    BY <2>1 DEF Diff
  <2>3. bits' = Append(bits, RawKey(q)) /\ UNCHANGED panic
    BY <1>1, <2>2
  <2>4. RawKey(q) \in HuffmanKeys /\ RawKey(q).raw
    <3>1. RawKey(q) \in HuffmanKeys
      BY <1>3 DEF HuffmanKeys
    <3> QED BY <3>1 DEF RawKey
  <2>5. bits' \in Seq(HuffmanKeys) /\ Len(bits') = 1 /\ bits'[1] = RawKey(q)
    <3>1. Len(bits) = 0
      BY <2>1, EmptySeq
    <3> QED BY <1>8, <2>3, <2>4, <3>1
  <2>6. bits' # <<>>
    <3> DEFINE held == bits'
    <3>1. Len(held) = 1
      BY <2>5
    <3> HIDE DEF held
    <3>2. held # <<>>
      BY <3>1, EmptySeq
    <3> QED BY <3>2 DEF held
  <2>7. Readable'
    BY <2>4, <2>5 DEF Readable
  <2> QED BY <1>2, <1>4, <1>5, <1>6, <2>3, <2>6, <2>7 DEF PanicInv
<1>10. CASE input # <<>>
  <2> DEFINE e == q - Prediction(Recent(input, n))
  <2>1. bits # <<>> /\ n \in 1 .. Len(input) /\ enc = Recent(input, n)
    BY <1>3, <1>10, EmptySeq DEF PanicInv
  <2>2. enc # <<>> /\ e \in Int
    BY <1>3, <2>1, SomeRecent
  <2>3. Diff(enc, q) = [raw |-> FALSE, value |-> e]
    BY <2>1, <2>2 DEF Diff
  <2>4. Contained' => QvalBlock(e) # {}
    BY <1>1, <1>2, <1>3, <2>1, ResidueCovered DEF PanicInv, map
  <2> HIDE DEF e
  <2>5. CASE QvalBlock(e) = {}
    <3>1. panic' = "writer" /\ UNCHANGED bits
      BY <1>1, <2>3, <2>5
    <3>2. Readable'
      BY <1>7, <3>1 DEF PanicInv, Readable
    <3> QED BY <1>2, <1>4, <1>5, <1>6, <2>1, <2>4, <2>5, <3>1, <3>2 DEF PanicInv
  <2>6. CASE QvalBlock(e) # {}
    <3>1. UNCHANGED panic /\ \E b \in QvalBlock(e) : bits' = Append(bits, BlockKey(b, e))
      BY <1>1, <2>3, <2>6
    <3>2. PICK b \in QvalBlock(e) : bits' = Append(bits, BlockKey(b, e))
      BY <3>1
    <3>3. b \in Block
      <4>1. PICK i \in 1 .. Len(blocks) : blocks[i] = b
        BY DEF QvalBlock, ToSet, PanicInv, RowInv
      <4> QED BY <4>1, ElementOfSeq DEF PanicInv, RowInv
    <3> DEFINE h == BlockKey(b, e)
    <3>4. h \in HuffmanKeys
      BY <2>2, <3>3 DEF HuffmanKeys
    <3>5. HkeyBlock(h.key) # {}
      BY <2>2, KeyLeadsBack DEF PanicInv
    <3> HIDE DEF h
    <3>6. /\ bits' \in Seq(HuffmanKeys) /\ Len(bits') = Len(bits) + 1
          /\ bits'[Len(bits) + 1] = h
          /\ \A i \in 1 .. Len(bits) : bits'[i] = bits[i]
      BY <1>8, <3>2, <3>4 DEF h
    <3>7. bits' # <<>> /\ Len(bits) # 0
      BY <1>8, <2>1, <3>6, EmptySeq
    <3>8. Readable'
      <4>1. bits'[1].raw
        <5>1. 1 \in 1 .. Len(bits)
          BY <1>8, <3>7
        <5> QED BY <2>1, <3>6, <5>1 DEF PanicInv, Readable
      <4>2. ASSUME NEW i \in 1 .. Len(bits')
            PROVE  bits'[i].raw \/ HkeyBlock(bits'[i].key) # {}
        <5>1. CASE i = Len(bits) + 1
          BY <3>5, <3>6, <5>1
        <5>2. CASE i \in 1 .. Len(bits)
          BY <3>6, <5>2 DEF PanicInv, Readable
        <5> QED BY <1>8, <3>6, <5>1, <5>2
      <4> QED BY <1>7, <3>6, <4>1, <4>2 DEF Readable
    <3> QED BY <1>2, <1>4, <1>5, <1>6, <3>1, <3>7, <3>8 DEF PanicInv
  <2> QED BY <2>5, <2>6
<1> QED BY <1>9, <1>10

\* A predictor that a value is pushed to is not empty.
LEMMA PushedSome ==
  ASSUME NEW S, NEW buffer \in Seq(S), NEW v
  PROVE  (\E T : PushValue(buffer, v) \in Seq(T)) /\ PushValue(buffer, v) # <<>>
<1> DEFINE T == S \cup {v}
           longer == Append(buffer, v)
<1>1. buffer \in Seq(T) /\ v \in T
  BY SeqMonotonic
<1> HIDE DEF T
<1>2. longer \in Seq(T) /\ Len(longer) = Len(buffer) + 1 /\ Len(buffer) \in Nat
  BY <1>1
<1> HIDE DEF longer
<1>3. longer # <<>>
  BY <1>2, EmptySeq
<1>4. CASE Len(longer) > WindowSize
  <2>1. Tail(longer) \in Seq(T) /\ Len(Tail(longer)) = Len(longer) - 1
    BY <1>2, <1>3, HeadTailProperties
  <2>2. Tail(longer) # <<>>
    <3>1. Len(Tail(longer)) # 0
      BY <1>2, <1>4, <2>1, StageAssumption
    <3> QED BY <2>1, <3>1, EmptySeq
  <2> QED BY <1>4, <2>1, <2>2 DEF PushValue, longer
<1>5. CASE ~(Len(longer) > WindowSize)
  BY <1>2, <1>3, <1>5 DEF PushValue, longer
<1> QED BY <1>4, <1>5

LEMMA DecodePanic == PanicInv /\ StageDecode => PanicInv'
<1> SUFFICES ASSUME PanicInv, StageDecode PROVE PanicInv'
  OBVIOUS
<1> DEFINE n == Len(output) + 1
           h == bits[n]
<1>1. UNCHANGED <<map, input, enc, bits>> /\ Len(output) < Len(bits)
  BY DEF StageDecode
<1>2. RowInv' /\ Covered' /\ (Built' <=> Built) /\ Readable' /\ (Contained' <=> Contained)
  BY <1>1 DEF PanicInv, RowInv, Covered, Built, Readable, Contained, HkeyBlock, map
<1>3. PICK S : output \in Seq(S)
  BY DEF PanicInv
<1>4. PICK D : dec \in Seq(D)
  BY DEF PanicInv
<1>5. n \in 1 .. Len(bits) /\ Len(output) \in Nat
  BY <1>1, <1>3, LenProperties DEF PanicInv, Readable
<1>6. h.raw \/ HkeyBlock(h.key) # {}
  BY <1>5 DEF PanicInv, Readable
<1>7. ~h.raw => dec # <<>>
  <2>1. dec = <<>> => n = 1
    BY <1>3, EmptySeq DEF PanicInv
  <2>2. bits # <<>>
    BY <1>5, EmptySeq
  <2> QED BY <2>1, <2>2 DEF PanicInv, Readable
<1>8. PICK diff : Restore(diff)
  BY <1>6, <1>7 DEF StageDecode
<1>9. (\E T : dec' \in Seq(T)) /\ dec' # <<>> /\ UNCHANGED panic
  BY <1>4, <1>8, PushedSome DEF Restore
<1>10. \E T : output' \in Seq(T)
  <2>1. PICK d : output' = Append(output, d)
    BY <1>8 DEF Restore
  <2> DEFINE T == S \cup {d}
  <2>2. output \in Seq(T) /\ d \in T
    BY <1>3, SeqMonotonic
  <2> HIDE DEF T
  <2> QED BY <2>1, <2>2
<1> QED BY <1>1, <1>2, <1>9, <1>10 DEF PanicInv

\* The reader never panics, whatever is written, and the writer not while the
\* values lie within two thirds of what the blocks reach, for every quantizer,
\* every ranges of blocks and every predictor that leaves its values by no
\* more than half of their range (the unwraps of CompositeStage and the asserts
\* of HuffmanMapS).
THEOREM StageNeverPanics == Spec => []NoPanic
<1>1. PanicInv /\ [Next]_vars => PanicInv'
  <2> SUFFICES ASSUME PanicInv, [Next]_vars PROVE PanicInv'
    OBVIOUS
  <2>1. CASE UNCHANGED vars
    BY <2>1 DEF vars, map, PanicInv, RowInv, Covered, Built, Readable, Contained, HkeyBlock
  <2> QED BY <2>1, BuildPanic, EncodePanic, DecodePanic DEF Next
<1>2. PanicInv => NoPanic
  BY DEF PanicInv, NoPanic, Contained
<1> QED BY <1>1, <1>2, InitPanic, PTL DEF Spec

-----------------------------------------------------------------------------
(* Powers.                                                                 *)

\* p is the function of the powers of b up to n.
Powers(b, n, p) ==
  /\ p = [i \in 0 .. n |-> p[i]]
  /\ \A i \in 0 .. n : p[i] = IF i = 0 THEN 1 ELSE b * p[i - 1]

LEMMA PowersExist ==
  ASSUME NEW b \in Nat, NEW n \in Nat
  PROVE  \E p : Powers(b, n, p)
<1> DEFINE S == {k \in Nat : \E p : Powers(b, k, p)}
<1>1. 0 \in S
  <2> DEFINE p == [i \in 0 .. 0 |-> 1]
  <2>1. Powers(b, 0, p)
    BY DEF Powers
  <2> HIDE DEF p
  <2> QED BY <2>1
<1>2. ASSUME NEW k \in S PROVE k + 1 \in S
  <2>1. PICK p : Powers(b, k, p)
    OBVIOUS
  <2> DEFINE q == [i \in 0 .. k + 1 |-> IF i = k + 1 THEN b * p[k] ELSE p[i]]
  <2>2. k \in Nat
    OBVIOUS
  <2>3. q = [i \in 0 .. k + 1 |-> q[i]]
    OBVIOUS
  <2>4. ASSUME NEW i \in 0 .. k + 1 PROVE q[i] = IF i = 0 THEN 1 ELSE b * q[i - 1]
    <3>1. CASE i = k + 1
      BY <2>2, <3>1
    <3>2. CASE i \in 0 .. k
      <4>1. q[i] = p[i] /\ (i # 0 => i - 1 \in 0 .. k /\ q[i - 1] = p[i - 1])
        BY <2>2, <3>2
      <4>2. p[i] = IF i = 0 THEN 1 ELSE b * p[i - 1]
        BY <2>1, <3>2 DEF Powers
      <4> QED BY <4>1, <4>2
    <3> QED BY <2>2, <3>1, <3>2
  <2> HIDE DEF q
  <2>5. Powers(b, k + 1, q)
    BY <2>3, <2>4 DEF Powers
  <2> QED BY <2>2, <2>5
<1>3. S = Nat
  <2>1. S \in SUBSET Nat
    OBVIOUS
  <2> HIDE DEF S
  <2> QED BY <1>1, <1>2, <2>1, SetInduction
<1> QED BY <1>3

LEMMA PowersAgree ==
  ASSUME NEW b \in Nat, NEW n \in Nat, NEW k \in Nat, NEW p, NEW q,
         Powers(b, n, p), Powers(b, k, q)
  PROVE  \A i \in Nat : i <= n /\ i <= k => p[i] = q[i] /\ p[i] \in Nat
<1> DEFINE S == {i \in Nat : i <= n /\ i <= k => p[i] = q[i] /\ p[i] \in Nat}
<1>1. 0 \in S
  <2>1. 0 \in 0 .. n /\ 0 \in 0 .. k
    OBVIOUS
  <2>2. p[0] = 1 /\ q[0] = 1
    BY <2>1 DEF Powers
  <2> QED BY <2>2
<1>2. ASSUME NEW i \in S PROVE i + 1 \in S
  <2> SUFFICES ASSUME i + 1 <= n, i + 1 <= k
               PROVE  p[i + 1] = q[i + 1] /\ p[i + 1] \in Nat
    OBVIOUS
  <2>1. i \in Nat /\ p[i] = q[i] /\ p[i] \in Nat
    OBVIOUS
  <2>2. i + 1 \in 0 .. n /\ i + 1 \in 0 .. k /\ i + 1 # 0 /\ (i + 1) - 1 = i
    BY <2>1
  <2> HIDE DEF S
  <2>3. p[i + 1] = b * p[i] /\ q[i + 1] = b * q[i]
    BY <2>2 DEF Powers
  <2> QED BY <2>1, <2>3
<1>3. S = Nat
  <2>1. S \in SUBSET Nat
    OBVIOUS
  <2> HIDE DEF S
  <2> QED BY <1>1, <1>2, <2>1, SetInduction
<1> QED BY <1>3

\* Pow(b, n) is the last of them.
LEMMA PowOfPowers ==
  ASSUME NEW b \in Nat, NEW n \in Nat
  PROVE  \E p : Powers(b, n, p) /\ Pow(b, n) = p[n]
<1> DEFINE pow == CHOOSE p : p = [i \in 0 .. n |-> IF i = 0 THEN 1 ELSE b * p[i - 1]]
<1>1. PICK p : Powers(b, n, p)
  BY PowersExist
<1>2. p = [i \in 0 .. n |-> IF i = 0 THEN 1 ELSE b * p[i - 1]]
  BY <1>1 DEF Powers
<1>3. pow = [i \in 0 .. n |-> IF i = 0 THEN 1 ELSE b * pow[i - 1]]
  BY <1>2
<1>4. Pow(b, n) = pow[n]
  BY DEF Pow
<1> HIDE DEF pow
<1>5. Powers(b, n, pow)
  BY <1>3 DEF Powers
<1> QED BY <1>4, <1>5

LEMMA PowIs ==
  ASSUME NEW b \in Nat, NEW n \in Nat
  PROVE  Pow(b, n) \in Nat /\ Pow(b, 0) = 1 /\ Pow(b, n + 1) = b * Pow(b, n)
<1>1. PICK p : Powers(b, n, p) /\ Pow(b, n) = p[n]
  BY PowOfPowers
<1> DEFINE z == 0
<1>2. z \in Nat
  OBVIOUS
<1>3. n + 1 \in Nat
  OBVIOUS
<1>4. PICK q : Powers(b, n + 1, q) /\ Pow(b, n + 1) = q[n + 1]
  BY <1>3, PowOfPowers
<1> HIDE DEF z
<1>5. PICK o : Powers(b, z, o) /\ Pow(b, z) = o[z]
  BY <1>2, PowOfPowers
<1>6. p[n] = q[n] /\ p[n] \in Nat
  <2>1. \A i \in Nat : i <= n /\ i <= n + 1 => p[i] = q[i] /\ p[i] \in Nat
    BY <1>1, <1>3, <1>4, PowersAgree
  <2> QED BY <2>1
<1>7. q[n + 1] = b * q[n]
  <2>1. n + 1 \in 0 .. n + 1 /\ n + 1 # 0 /\ (n + 1) - 1 = n
    OBVIOUS
  <2> QED BY <1>4, <2>1 DEF Powers
<1>8. o[z] = 1
  <2>1. z \in 0 .. z
    BY DEF z
  <2> QED BY <1>5, <2>1 DEF Powers, z
<1> QED BY <1>1, <1>4, <1>5, <1>6, <1>7, <1>8 DEF z

-----------------------------------------------------------------------------
(* Products.                                                               *)

LEMMA Products ==
  ASSUME NEW a \in Nat, NEW b \in Nat, NEW c \in Nat, NEW d \in Nat, a <= c, b <= d
  PROVE  /\ a * b <= c * d /\ a * b \in Nat /\ c * d \in Nat
         /\ a < c /\ d > 0 => a * b < c * d
<1>1. a * b <= c * b
  BY MultiplesOrdered
<1>2. b * c <= d * c
  BY MultiplesOrdered
<1>3. a * b \in Nat /\ c * b \in Nat /\ c * d \in Nat /\ b * c = c * b /\ d * c = c * d
  OBVIOUS
<1>4. ASSUME a < c, d > 0 PROVE a * b < c * d
  <2>1. (a + 1) * d <= c * d
    <3>1. a + 1 \in Nat /\ a + 1 <= c
      BY <1>4
    <3> QED BY <3>1, MultiplesOrdered
  <2>2. b * a <= d * a
    BY MultiplesOrdered
  <2>3. (a + 1) * d = a * d + d /\ d * a = a * d /\ b * a = a * b /\ a * d \in Nat
    OBVIOUS
  <2> QED BY <1>3, <1>4, <2>1, <2>2, <2>3
<1> QED BY <1>1, <1>2, <1>3, <1>4

\* What a common factor leaves.
LEMMA Cancelled ==
  ASSUME NEW a \in Nat, NEW b \in Nat, NEW c \in Nat, c > 0
  PROVE  /\ a * c <= b * c => a <= b
         /\ a * c < b * c => a < b
<1>1. ASSUME b < a PROVE b * c < a * c
  BY <1>1, Products
<1>2. ASSUME b <= a PROVE b * c <= a * c
  BY <1>2, MultiplesOrdered
<1>3. a * c \in Nat /\ b * c \in Nat
  OBVIOUS
<1> QED BY <1>1, <1>2, <1>3

-----------------------------------------------------------------------------
(* Laws of powers.                                                         *)

LEMMA PowPositive ==
  ASSUME NEW b \in Nat \ {0}, NEW n \in Nat
  PROVE  Pow(b, n) \in Nat \ {0}
<1> DEFINE S == {k \in Nat : Pow(b, k) \in Nat \ {0}}
<1>1. 0 \in S
  BY PowIs
<1>2. ASSUME NEW k \in S PROVE k + 1 \in S
  <2>1. Pow(b, k + 1) = b * Pow(b, k) /\ k \in Nat /\ Pow(b, k) \in Nat \ {0}
    BY PowIs
  <2> DEFINE p == Pow(b, k)
  <2>2. p \in Nat \ {0}
    BY <2>1
  <2> HIDE DEF p
  <2>3. b * p \in Nat \ {0}
    BY <2>2
  <2> QED BY <2>1, <2>3 DEF p
<1>3. S = Nat
  <2>1. S \in SUBSET Nat
    OBVIOUS
  <2> HIDE DEF S
  <2> QED BY <1>1, <1>2, <2>1, SetInduction
<1> QED BY <1>3

LEMMA PowPlus ==
  ASSUME NEW b \in Nat, NEW i \in Nat, NEW j \in Nat
  PROVE  Pow(b, i + j) = Pow(b, i) * Pow(b, j)
<1> DEFINE S == {k \in Nat : Pow(b, i + k) = Pow(b, i) * Pow(b, k)}
<1>1. 0 \in S
  <2>1. Pow(b, i) \in Nat /\ Pow(b, 0) = 1
    BY PowIs
  <2>2. i + 0 = i
    OBVIOUS
  <2>3. \A q \in Nat : q = q * 1
    OBVIOUS
  <2> HIDE DEF S
  <2>4. Pow(b, i + 0) = Pow(b, i) * Pow(b, 0)
    BY <2>1, <2>2, <2>3
  <2> QED BY <2>4 DEF S
<1>2. ASSUME NEW k \in S PROVE k + 1 \in S
  <2>1. k \in Nat /\ Pow(b, i + k) = Pow(b, i) * Pow(b, k)
    OBVIOUS
  <2>2. i + k \in Nat /\ i + (k + 1) = (i + k) + 1
    BY <2>1
  <2>3. Pow(b, k) \in Nat /\ Pow(b, k + 1) = b * Pow(b, k) /\ Pow(b, i) \in Nat
    BY <2>1, PowIs
  <2>4. Pow(b, (i + k) + 1) = b * Pow(b, i + k)
    BY <2>2, PowIs
  <2> DEFINE p == Pow(b, k)
             q == Pow(b, i)
  <2>5. p \in Nat /\ q \in Nat
    BY <2>3
  <2> HIDE DEF p, q
  <2>6. b * (q * p) = q * (b * p)
    BY <2>5
  <2> QED BY <2>1, <2>2, <2>3, <2>4, <2>6 DEF p, q
<1>3. S = Nat
  <2>1. S \in SUBSET Nat
    OBVIOUS
  <2> HIDE DEF S
  <2> QED BY <1>1, <1>2, <2>1, SetInduction
<1> QED BY <1>3

\* (1 + 1/m)^k is at least 1 + k/m, and at most 2^k.
LEMMA Bernoulli ==
  ASSUME NEW m \in Nat \ {0}, NEW n \in Nat
  PROVE  /\ Pow(m, n) * (m + n) <= Pow(m + 1, n) * m
         /\ Pow(m + 1, n) <= Pow(2, n) * Pow(m, n)
<1> DEFINE S == {k \in Nat : /\ Pow(m, k) * (m + k) <= Pow(m + 1, k) * m
                             /\ Pow(m + 1, k) <= Pow(2, k) * Pow(m, k)}
<1>1. 0 \in S
  <2>1. 2 \in Nat /\ m + 1 \in Nat /\ m \in Nat
    OBVIOUS
  <2>2. Pow(m, 0) = 1 /\ Pow(m + 1, 0) = 1 /\ Pow(2, 0) = 1
    BY <2>1, PowIs
  <2> QED BY <2>2
<1>2. ASSUME NEW k \in S PROVE k + 1 \in S
  <2> DEFINE p == Pow(m, k)
             q == Pow(m + 1, k)
             t == Pow(2, k)
  <2>1. 2 \in Nat /\ m + 1 \in Nat /\ m \in Nat /\ k \in Nat
    OBVIOUS
  <2>2. /\ p \in Nat /\ q \in Nat /\ t \in Nat
        /\ Pow(m, k + 1) = m * p
        /\ Pow(m + 1, k + 1) = (m + 1) * q
        /\ Pow(2, k + 1) = 2 * t
    BY <2>1, PowIs
  <2>3. p * (m + k) <= q * m /\ q <= t * p
    OBVIOUS
  <2> HIDE DEF p, q, t, S
  <2>4. (m * p) * (m + (k + 1)) <= ((m + 1) * q) * m
    <3>1. (p * (m + k)) * (m + 1) <= (q * m) * (m + 1)
      <4>1. p * (m + k) \in Nat /\ q * m \in Nat /\ m + 1 \in Nat
        BY <2>1, <2>2
      <4> QED BY <4>1, <2>3, MultiplesOrdered
    <3>2. (p * (m + k)) * (m + 1) = (m * p) * (m + (k + 1)) + p * k
      BY <2>1, <2>2
    <3>3. (q * m) * (m + 1) = ((m + 1) * q) * m
      BY <2>1, <2>2
    <3>4. p * k \in Nat /\ (m * p) * (m + (k + 1)) \in Nat /\ ((m + 1) * q) * m \in Nat
      BY <2>1, <2>2
    <3> QED BY <3>1, <3>2, <3>3, <3>4
  <2>5. (m + 1) * q <= (2 * t) * (m * p)
    <3>1. t * p \in Nat /\ m + 1 <= 2 * m /\ 2 * m \in Nat
      BY <2>1, <2>2
    <3>2. (m + 1) * q <= (2 * m) * (t * p)
      BY <3>1, <2>1, <2>2, <2>3, Products
    <3>3. (2 * m) * (t * p) = (2 * t) * (m * p)
      BY <2>1, <2>2
    <3> QED BY <3>2, <3>3
  <2>6. k + 1 \in Nat
    BY <2>1
  <2> QED BY <2>2, <2>4, <2>5, <2>6 DEF S
<1>3. S = Nat
  <2>1. S \in SUBSET Nat
    OBVIOUS
  <2> HIDE DEF S
  <2> QED BY <1>1, <1>2, <2>1, SetInduction
<1> QED BY <1>3

-----------------------------------------------------------------------------
(* The logarithm.                                                          *)

\* The powers that two neighbouring steps compare.
LEMMA OddPowers ==
  ASSUME NEW b \in Nat \ {0}, NEW k \in Nat
  PROVE  /\ Pow(b, 2 * k + 1) \in Nat \ {0}
         /\ Pow(b, 2 * (k + 1) + 1) = (b * b) * Pow(b, 2 * k + 1)
         /\ Pow(b, 2 * k + 1) = (b * Pow(b, k)) * Pow(b, k)
         /\ Pow(b, k) \in Nat \ {0}
<1>1. 2 * k \in Nat /\ 2 * k + 1 \in Nat /\ 2 * k + 2 \in Nat /\ b \in Nat
  OBVIOUS
<1>2. /\ 2 * (k + 1) + 1 = (2 * k + 2) + 1
      /\ 2 * k + 2 = (2 * k + 1) + 1
      /\ 2 * k = k + k
  OBVIOUS
<1> DEFINE p == Pow(b, 2 * k + 1)
           q == Pow(b, k)
<1>3. p \in Nat \ {0} /\ q \in Nat \ {0}
  BY <1>1, PowPositive
<1>4. Pow(b, (2 * k + 1) + 1) = b * p
  BY <1>1, PowIs
<1>5. Pow(b, (2 * k + 2) + 1) = b * Pow(b, 2 * k + 2)
  BY <1>1, PowIs
<1>6. Pow(b, k + k) = q * q
  BY <1>1, PowPlus
<1>7. Pow(b, 2 * k + 1) = b * Pow(b, 2 * k)
  BY <1>1, PowIs
<1>8. Pow(b, 2 * (k + 1) + 1) = b * (b * p) /\ Pow(b, 2 * k + 1) = b * (q * q)
  BY <1>2, <1>4, <1>5, <1>6, <1>7
<1>9. b * (b * p) = (b * b) * p /\ b * (q * q) = (b * q) * q
  <2> HIDE DEF p, q
  <2> QED BY <1>1, <1>3
<1> QED BY <1>3, <1>8, <1>9

LEMMA BelowNext ==
  ASSUME NEW m \in Nat \ {0}, NEW zero \in Nat \ {0}, NEW v \in Nat, NEW k \in Nat,
         BelowStep(m, zero, v, k)
  PROVE  BelowStep(m, zero, v, k + 1)
<1> DEFINE p == Pow(m, 2 * k + 1)
           q == Pow(m + 1, 2 * k + 1)
<1>1. m + 1 \in Nat \ {0} /\ m \in Nat
  OBVIOUS
<1>2. p \in Nat \ {0} /\ Pow(m, 2 * (k + 1) + 1) = (m * m) * p
  BY OddPowers
<1>3. q \in Nat \ {0} /\ Pow(m + 1, 2 * (k + 1) + 1) = ((m + 1) * (m + 1)) * q
  BY <1>1, OddPowers
<1>4. v * v * p < q * zero * zero
  BY DEF BelowStep
<1> HIDE DEF p, q
<1> DEFINE x == v * v * p
           y == q * zero * zero
<1>5. x \in Nat /\ y \in Nat
  BY <1>2, <1>3
<1>6. v * v * ((m * m) * p) = x * (m * m)
  BY <1>1, <1>2
<1>7. (((m + 1) * (m + 1)) * q) * zero * zero = y * ((m + 1) * (m + 1))
  BY <1>1, <1>3
<1>8. x < y
  BY <1>4
<1> HIDE DEF x, y
<1>9. x * (m * m) < y * ((m + 1) * (m + 1))
  <2>1. m * m \in Nat /\ (m + 1) * (m + 1) = m * m + 2 * m + 1
    BY <1>1
  <2> DEFINE mm == m * m
             nn == (m + 1) * (m + 1)
  <2>2. mm \in Nat /\ nn \in Nat /\ mm <= nn /\ nn > 0
    BY <2>1, <1>1
  <2> HIDE DEF mm, nn
  <2>3. x * mm < y * nn
    BY <1>5, <1>8, <2>2, Products
  <2> QED BY <2>3 DEF mm, nn
<1> QED BY <1>2, <1>3, <1>6, <1>7, <1>9 DEF BelowStep

LEMMA BelowFrom ==
  ASSUME NEW m \in Nat \ {0}, NEW zero \in Nat \ {0}, NEW v \in Nat, NEW k \in Nat,
         BelowStep(m, zero, v, k), NEW j \in Nat, k <= j
  PROVE  BelowStep(m, zero, v, j)
<1> DEFINE S == {d \in Nat : BelowStep(m, zero, v, k + d)}
<1>1. 0 \in S
  <2>1. k + 0 = k
    OBVIOUS
  <2> QED BY <2>1
<1>2. ASSUME NEW d \in S PROVE d + 1 \in S
  <2>1. d \in Nat /\ k + d \in Nat /\ BelowStep(m, zero, v, k + d) /\ k + (d + 1) = (k + d) + 1
    OBVIOUS
  <2>2. BelowStep(m, zero, v, (k + d) + 1)
    BY <2>1, BelowNext
  <2> QED BY <2>1, <2>2
<1>3. S = Nat
  <2>1. S \in SUBSET Nat
    OBVIOUS
  <2> HIDE DEF S
  <2> QED BY <1>1, <1>2, <2>1, SetInduction
<1>4. j - k \in S /\ k + (j - k) = j
  <2> HIDE DEF S
  <2> QED BY <1>3
<1> QED BY <1>4

\* The bound of LogOver is far enough.
LEMMA BelowBound ==
  ASSUME NEW m \in Nat \ {0}, NEW zero \in Nat \ {0}, NEW v \in Nat \ {0}
  PROVE  (m + 1) * v \in Nat /\ BelowStep(m, zero, v, (m + 1) * v)
<1> DEFINE k == (m + 1) * v
           p == Pow(m, k)
           q == Pow(m + 1, k)
<1>1. m + 1 \in Nat \ {0} /\ m \in Nat /\ k \in Nat /\ m + k = m * v + (m + v)
  OBVIOUS
<1>2. /\ p \in Nat \ {0} /\ q \in Nat \ {0}
      /\ Pow(m, 2 * k + 1) = (m * p) * p
      /\ Pow(m + 1, 2 * k + 1) = ((m + 1) * q) * q
  <2> HIDE DEF k
  <2> QED BY <1>1, OddPowers
<1>3. p * (m + k) <= q * m
  <2> HIDE DEF k
  <2> QED BY <1>1, Bernoulli
<1> HIDE DEF p, q
<1>4. v * p < q
  <2>1. p * (m + k) = (v * p) * m + p * (m + v)
    BY <1>1, <1>2
  <2>2. p * (m + v) \in Nat /\ p * (m + v) > 0 /\ (v * p) * m \in Nat /\ q * m \in Nat /\ v * p \in Nat
    <3>1. m + v \in Nat \ {0}
      OBVIOUS
    <3>2. p * (m + v) \in Nat \ {0}
      BY <1>2, <3>1
    <3> QED BY <1>1, <1>2, <3>2
  <2>3. (v * p) * m < q * m
    BY <1>3, <2>1, <2>2
  <2> QED BY <1>1, <1>2, <2>2, <2>3, Cancelled
<1>5. (v * p) * (v * p) < q * q
  <2>1. v * p \in Nat /\ q > 0
    BY <1>2
  <2> QED BY <1>2, <1>4, <2>1, Products
<1> DEFINE x == (v * p) * (v * p)
           y == q * q
           zz == zero * zero
<1>6. x \in Nat /\ y \in Nat /\ y > 0 /\ zz \in Nat /\ zz > 0
  <2>1. \A a \in Nat \ {0} : a * a \in Nat /\ a * a > 0
    OBVIOUS
  <2>2. v * p \in Nat
    BY <1>2
  <2>3. \A a \in Nat : a * a \in Nat
    OBVIOUS
  <2> QED BY <1>2, <2>1, <2>2, <2>3
<1>7. v * v * ((m * p) * p) = x * m
  BY <1>1, <1>2
<1>8. (((m + 1) * q) * q) * zero * zero = (y * (m + 1)) * zz
  BY <1>1, <1>2
<1>9. x < y
  BY <1>5
<1> HIDE DEF x, y, zz
<1>10. x * m < y * (m + 1)
  BY <1>1, <1>6, <1>9, Products
<1>11. y * (m + 1) <= (y * (m + 1)) * zz
  <2> DEFINE w == y * (m + 1)
  <2>1. w \in Nat
    BY <1>1, <1>6
  <2> HIDE DEF w
  <2>2. w * 1 <= w * zz
    BY <1>6, <2>1, Products
  <2> QED BY <2>1, <2>2 DEF w
<1>12. x * m < (y * (m + 1)) * zz
  <2>1. x * m \in Nat /\ y * (m + 1) \in Nat /\ (y * (m + 1)) * zz \in Nat
    BY <1>1, <1>6
  <2> QED BY <1>10, <1>11, <2>1
<1> HIDE DEF k
<1> QED BY <1>1, <1>2, <1>7, <1>8, <1>12 DEF BelowStep, k

\* k is the logarithm of v/zero, rounded.
Rounds(m, zero, v, k) ==
  BelowStep(m, zero, v, k) /\ (k > 0 => ~BelowStep(m, zero, v, k - 1))

LEMMA RoundsOnce ==
  ASSUME NEW m \in Nat \ {0}, NEW zero \in Nat \ {0}, NEW v \in Nat,
         NEW i \in Nat, NEW j \in Nat, Rounds(m, zero, v, i), Rounds(m, zero, v, j)
  PROVE  i = j
<1>1. ASSUME NEW a \in Nat, NEW b \in Nat, Rounds(m, zero, v, a), Rounds(m, zero, v, b)
      PROVE  ~(a < b)
  <2> SUFFICES ASSUME a < b PROVE FALSE
    OBVIOUS
  <2>1. b - 1 \in Nat /\ a <= b - 1 /\ b > 0
    OBVIOUS
  <2>2. BelowStep(m, zero, v, a)
    BY <1>1 DEF Rounds
  <2>3. BelowStep(m, zero, v, b - 1)
    BY <2>1, <2>2, BelowFrom
  <2> QED BY <1>1, <2>1, <2>3 DEF Rounds
<1> QED BY <1>1

LEMMA LogIs ==
  ASSUME NEW m \in Nat \ {0}, NEW zero \in Nat \ {0}, NEW v \in Nat \ {0}
  PROVE  /\ LogOver(m, zero, v) \in Nat
         /\ Rounds(m, zero, v, LogOver(m, zero, v))
<1> DEFINE bound == (m + 1) * v
           T == {k \in Nat : BelowStep(m, zero, v, k)}
<1>1. bound \in Nat /\ BelowStep(m, zero, v, bound)
  BY BelowBound
<1> HIDE DEF bound
<1>2. PICK k \in T : \A j \in T : k <= j
  <2>1. T \in SUBSET Nat /\ bound \in T
    BY <1>1
  <2> HIDE DEF T
  <2> QED BY <2>1, LeastNat
<1>3. k \in Nat /\ k <= bound
  BY <1>1, <1>2
<1>4. Rounds(m, zero, v, k)
  <2>1. k > 0 => ~BelowStep(m, zero, v, k - 1)
    <3> SUFFICES ASSUME k > 0, BelowStep(m, zero, v, k - 1) PROVE FALSE
      OBVIOUS
    <3>1. k - 1 \in T
      BY <1>3
    <3>2. k <= k - 1
      BY <1>2, <3>1
    <3> QED BY <1>3, <3>2
  <2> QED BY <1>2, <2>1 DEF Rounds
<1>5. k \in 0 .. bound
  BY <1>1, <1>3
<1>6. LogOver(m, zero, v) \in 0 .. bound /\ Rounds(m, zero, v, LogOver(m, zero, v))
  BY <1>4, <1>5 DEF LogOver, Rounds, bound
<1> QED BY <1>1, <1>6

\* What the two sides of the rounding say, without the logarithm: A and B are
\* the powers of m + 1 and of m that Power divides.
Between(m, v, A, B) ==
  /\ (v * v) * (B * B) * m < (A * A) * (m + 1)
  /\ (v * v) * (B * B) * (m + 1) >= (A * A) * m

\* The powers of the k-th step by those of Power.
LEMMA StepPowers ==
  ASSUME NEW b \in Nat \ {0}, NEW k \in Nat \ {0}
  PROVE  /\ Pow(b, k - 1) \in Nat \ {0}
         /\ Pow(b, k) = b * Pow(b, k - 1)
         /\ Pow(b, 2 * k + 1) = (b * b * b) * (Pow(b, k - 1) * Pow(b, k - 1))
         /\ Pow(b, 2 * (k - 1) + 1) = b * (Pow(b, k - 1) * Pow(b, k - 1))
<1> DEFINE j == k - 1
           p == Pow(b, j)
<1>1. j \in Nat /\ j + 1 = k /\ b \in Nat
  OBVIOUS
<1>2. p \in Nat \ {0} /\ Pow(b, k) = b * p
  <2> HIDE DEF j
  <2> QED BY <1>1, PowPositive, PowIs
<1>3. Pow(b, 2 * j + 1) = (b * p) * p /\ Pow(b, 2 * (j + 1) + 1) = (b * b) * Pow(b, 2 * j + 1)
  <2> HIDE DEF j
  <2> QED BY <1>1, OddPowers
<1>4. Pow(b, 2 * k + 1) = (b * b) * ((b * p) * p)
  <2> HIDE DEF j
  <2> QED BY <1>1, <1>3
<1>5. (b * b) * ((b * p) * p) = (b * b * b) * (p * p) /\ (b * p) * p = b * (p * p)
  <2> HIDE DEF p
  <2> QED BY <1>1, <1>2
<1> QED BY <1>2, <1>3, <1>4, <1>5

LEMMA RoundsBetween ==
  ASSUME NEW m \in Nat \ {0}, NEW v \in Nat, NEW k \in Nat \ {0}
  PROVE  Rounds(m, m, v, k) <=> Between(m, v, Pow(m + 1, k), Pow(m, k - 1))
<1> DEFINE A == Pow(m + 1, k)
           B == Pow(m, k - 1)
           C == Pow(m + 1, k - 1)
<1>1. m + 1 \in Nat \ {0} /\ m \in Nat /\ k \in Nat /\ k > 0
  OBVIOUS
<1>2. /\ B \in Nat \ {0}
      /\ Pow(m, 2 * k + 1) = (m * m * m) * (B * B)
      /\ Pow(m, 2 * (k - 1) + 1) = m * (B * B)
  BY StepPowers
<1>3. /\ C \in Nat \ {0}
      /\ A = (m + 1) * C
      /\ Pow(m + 1, 2 * k + 1) = ((m + 1) * (m + 1) * (m + 1)) * (C * C)
      /\ Pow(m + 1, 2 * (k - 1) + 1) = (m + 1) * (C * C)
  BY <1>1, StepPowers
<1> HIDE DEF A, B, C
<1>4. A \in Nat
  BY <1>1, <1>3
<1> DEFINE x == (v * v) * (B * B)
           y == A * A
           z == C * C
<1>5. x \in Nat /\ y \in Nat /\ z \in Nat /\ y = ((m + 1) * (m + 1)) * z
  BY <1>1, <1>2, <1>3, <1>4
<1>6. BelowStep(m, m, v, k) <=> x * m < y * (m + 1)
  <2>1. BelowStep(m, m, v, k)
          <=> v * v * ((m * m * m) * (B * B))
                < (((m + 1) * (m + 1) * (m + 1)) * (C * C)) * m * m
    BY <1>2, <1>3 DEF BelowStep
  <2>2. v * v * ((m * m * m) * (B * B)) = (x * m) * (m * m)
    BY <1>1, <1>2
  <2>3. (((m + 1) * (m + 1) * (m + 1)) * (C * C)) * m * m = (y * (m + 1)) * (m * m)
    BY <1>1, <1>3
  <2> HIDE DEF x, y, z
  <2> DEFINE f == x * m
             g == y * (m + 1)
             mm == m * m
  <2>4. f \in Nat /\ g \in Nat /\ mm \in Nat /\ mm > 0
    <3>1. \A a \in Nat \ {0} : a * a \in Nat /\ a * a > 0
      OBVIOUS
    <3> QED BY <1>1, <1>5, <3>1
  <2> HIDE DEF f, g, mm
  <2>5. f * mm < g * mm <=> f < g
    BY <2>4, Cancelled, Products
  <2> QED BY <2>1, <2>2, <2>3, <2>5 DEF f, g, mm
<1>7. BelowStep(m, m, v, k - 1) <=> x * (m + 1) < y * m
  <2>1. BelowStep(m, m, v, k - 1) <=> v * v * (m * (B * B)) < ((m + 1) * (C * C)) * m * m
    BY <1>2, <1>3 DEF BelowStep
  <2>2. v * v * (m * (B * B)) = x * m /\ ((m + 1) * (C * C)) * m * m = (z * (m + 1) * m) * m
    BY <1>1, <1>2, <1>3
  <2>3. y * m = (z * (m + 1) * m) * (m + 1)
    BY <1>1, <1>5
  <2> HIDE DEF x, y, z
  <2> DEFINE g == z * (m + 1) * m
  <2>4. g \in Nat
    BY <1>1, <1>5
  <2> HIDE DEF g
  <2>5. x * m < g * m <=> x < g
    BY <1>1, <1>5, <2>4, Cancelled, Products
  <2>6. x * (m + 1) < g * (m + 1) <=> x < g
    BY <1>1, <1>5, <2>4, Cancelled, Products
  <2> QED BY <2>1, <2>2, <2>3, <2>5, <2>6 DEF g
<1>8. x * (m + 1) \in Nat /\ y * m \in Nat
  <2> HIDE DEF x, y, z
  <2> QED BY <1>1, <1>5
<1>9. Rounds(m, m, v, k) <=> x * m < y * (m + 1) /\ ~(x * (m + 1) < y * m)
  <2> HIDE DEF x, y, z
  <2> QED BY <1>1, <1>6, <1>7 DEF Rounds
<1>10. ~(x * (m + 1) < y * m) <=> x * (m + 1) >= y * m
  <2> HIDE DEF x, y, z
  <2> QED BY <1>8
<1>11. Between(m, v, A, B) <=> x * m < y * (m + 1) /\ x * (m + 1) >= y * m
  BY DEF Between
<1>12. Rounds(m, m, v, k) <=> Between(m, v, A, B)
  <2> HIDE DEF x, y, z
  <2> QED BY <1>9, <1>10, <1>11
<1> QED BY <1>12 DEF A, B

\* Beyond the linear part the logarithm is at least 1.
LEMMA LogBeyond ==
  ASSUME NEW m \in Nat \ {0}, NEW v \in Nat, v > m
  PROVE  /\ Log(m, v) \in Nat \ {0}
         /\ Rounds(m, m, v, Log(m, v))
<1>1. v \in Nat \ {0}
  OBVIOUS
<1>2. LogOver(m, m, v) \in Nat /\ Rounds(m, m, v, LogOver(m, m, v))
  BY <1>1, LogIs
<1>3. ~BelowStep(m, m, v, 0)
  <2>1. m \in Nat /\ m + 1 \in Nat /\ 0 \in Nat
    OBVIOUS
  <2>2. Pow(m, 0) = 1 /\ Pow(m, 0 + 1) = m * Pow(m, 0)
    BY <2>1, PowIs
  <2>3. Pow(m + 1, 0) = 1 /\ Pow(m + 1, 0 + 1) = (m + 1) * Pow(m + 1, 0)
    BY <2>1, PowIs
  <2>4. 2 * 0 + 1 = 1 /\ 0 + 1 = 1
    OBVIOUS
  <2>5. Pow(m, 2 * 0 + 1) = m /\ Pow(m + 1, 2 * 0 + 1) = m + 1
    <3>1. m * 1 = m /\ (m + 1) * 1 = m + 1
      OBVIOUS
    <3> QED BY <2>2, <2>3, <2>4, <3>1
  <2>6. BelowStep(m, m, v, 0) <=> v * v * m < (m + 1) * m * m
    BY <2>5 DEF BelowStep
  <2>7. (m + 1) * m * m <= v * v * m
    <3>1. (m + 1) * m <= v * v /\ (m + 1) * m \in Nat /\ v * v \in Nat
      <4>1. m + 1 <= v /\ m <= v
        OBVIOUS
      <4> QED BY <2>1, <4>1, Products
    <3>2. ((m + 1) * m) * m <= (v * v) * m
      BY <2>1, <3>1, MultiplesOrdered
    <3> QED BY <3>2
  <2>8. v * v * m \in Nat /\ (m + 1) * m * m \in Nat
    OBVIOUS
  <2> QED BY <2>6, <2>7, <2>8
<1>4. LogOver(m, m, v) # 0
  BY <1>2, <1>3 DEF Rounds
<1> QED BY <1>2, <1>4 DEF Log

\* Power is a quotient, rounded, and beyond the linear part.
LEMMA PowerIs ==
  ASSUME NEW m \in Nat \ {0}, NEW k \in Nat \ {0}
  PROVE  /\ Power(m, k) \in Nat
         /\ Power(m, k) > m
         /\ Pow(m + 1, k) \in Nat \ {0}
         /\ Pow(m, k - 1) \in Nat \ {0}
         /\ Pow(m, k - 1) * (2 * Power(m, k) - 1) <= 2 * Pow(m + 1, k)
         /\ 2 * Pow(m + 1, k) < Pow(m, k - 1) * (2 * Power(m, k) + 1)
<1> DEFINE A == Pow(m + 1, k)
           B == Pow(m, k - 1)
           P == Power(m, k)
<1>1. m \in Nat /\ m + 1 \in Nat \ {0} /\ k \in Nat /\ k - 1 \in Nat
  OBVIOUS
<1>2. A \in Nat \ {0} /\ B \in Nat \ {0} /\ Pow(m, k) = m * B
  BY <1>1, PowPositive, StepPowers
<1>3. Pow(m, k) * (m + k) <= A * m
  BY <1>1, Bernoulli
<1>4. P = (2 * A + B) \div (2 * B)
  BY DEF Power
<1> HIDE DEF A, B, P
<1>5. B * (m + k) <= A
  <2>1. (m * B) * (m + k) = (B * (m + k)) * m
    BY <1>1, <1>2
  <2>2. B * (m + k) \in Nat
    BY <1>1, <1>2
  <2>3. (B * (m + k)) * m <= A * m
    BY <1>2, <1>3, <2>1
  <2> QED BY <1>1, <1>2, <2>2, <2>3, Cancelled
<1> DEFINE x == 2 * A + B
           s == 2 * B
<1>6. x \in Nat /\ s \in Nat \ {0} /\ P = x \div s
  BY <1>2, <1>4
<1>7. P \in Nat /\ \A q \in Int : q <= P <=> q * s <= x
  <2> HIDE DEF x, s
  <2> QED BY <1>6, Quotient
<1>8. P > m
  <2>1. m + 1 \in Int /\ (m + 1 <= P <=> (m + 1) * s <= x)
    BY <1>1, <1>7
  <2>2. (m + 1) * s <= x
    <3>1. (m + 1) * B <= (m + k) * B
      BY <1>1, <1>2, MultiplesOrdered
    <3>2. (m + k) * B = B * (m + k) /\ (m + 1) * s = 2 * ((m + 1) * B)
      BY <1>1, <1>2
    <3>3. (m + 1) * B \in Nat /\ (m + k) * B \in Nat
      BY <1>1, <1>2
    <3> QED BY <1>2, <1>5, <3>1, <3>2, <3>3
  <2> QED BY <1>1, <1>7, <2>1, <2>2
<1>9. P * s <= x /\ ~((P + 1) * s <= x)
  BY <1>7
<1>10. P * s = 2 * (B * P) /\ (P + 1) * s = 2 * (B * P) + 2 * B
  BY <1>2, <1>7
<1>11. B * (2 * P - 1) = 2 * (B * P) - B /\ B * (2 * P + 1) = 2 * (B * P) + B /\ B * P \in Nat
  BY <1>2, <1>7
<1>12. B * (2 * P - 1) <= 2 * A /\ 2 * A < B * (2 * P + 1)
  BY <1>2, <1>9, <1>10, <1>11
<1> QED BY <1>2, <1>7, <1>8, <1>12 DEF A, B, P

-----------------------------------------------------------------------------
(* A value that is written and read.                                       *)

\* P is the quotient of A and B, rounded.
Divides(P, A, B) == B * (2 * P - 1) <= 2 * A /\ 2 * A < B * (2 * P + 1)

\* The value that is read has the logarithm of the one that was written.
LEMMA QuotientBetween ==
  ASSUME NEW m \in Nat \ {0}, NEW P \in Nat, P > m, NEW A \in Nat \ {0}, NEW B \in Nat \ {0},
         Divides(P, A, B)
  PROVE  Between(m, P, A, B)
<1> DEFINE b == B * B
           a == A * A
           p == P * P
<1>1. m \in Nat /\ m + 1 \in Nat /\ m + 1 <= P /\ P > 0
  OBVIOUS
<1>2. a \in Nat /\ p \in Nat /\ b \in Nat /\ b > 0
  <2>1. \A x \in Nat \ {0} : x * x \in Nat /\ x * x > 0
    OBVIOUS
  <2> QED BY <1>1, <2>1
<1>3. b * (4 * p - 4 * P + 1) <= 4 * a
  <2> DEFINE u == B * (2 * P - 1)
  <2>1. u \in Nat /\ u <= 2 * A /\ 2 * A \in Nat
    <3>1. 2 * P - 1 \in Nat
      BY <1>1
    <3> QED BY <3>1 DEF Divides
  <2>2. u * u = b * (4 * p - 4 * P + 1)
    OBVIOUS
  <2>3. (2 * A) * (2 * A) = 4 * a
    OBVIOUS
  <2> HIDE DEF u, a, b, p
  <2>4. u * u <= (2 * A) * (2 * A)
    BY <2>1, Products
  <2> QED BY <2>2, <2>3, <2>4
<1>4. 4 * a < b * (4 * p + 4 * P + 1)
  <2> DEFINE w == B * (2 * P + 1)
  <2>1. w \in Nat /\ 2 * A < w /\ 2 * A \in Nat /\ w > 0
    BY DEF Divides
  <2>2. w * w = b * (4 * p + 4 * P + 1)
    OBVIOUS
  <2>3. (2 * A) * (2 * A) = 4 * a
    OBVIOUS
  <2> HIDE DEF w, a, b, p
  <2>4. (2 * A) * (2 * A) < w * w
    BY <2>1, Products
  <2> QED BY <2>2, <2>3, <2>4
<1>5. (p * b) * m < a * (m + 1)
  <2>1. (4 * P - 1) * (m + 1) <= (4 * P - 1) * P
    <3>1. 4 * P - 1 \in Nat
      BY <1>1
    <3> DEFINE c == 4 * P - 1
    <3> HIDE DEF c
    <3>2. (m + 1) * c <= P * c
      BY <1>1, <3>1, MultiplesOrdered DEF c
    <3>3. c \in Nat
      BY <3>1 DEF c
    <3> QED BY <3>2, <3>3 DEF c
  <2>2. (4 * P - 1) * P = 4 * p - P
    OBVIOUS
  <2>3. (4 * P - 1) * (m + 1) + 1 <= 4 * p
    <3>1. (4 * P - 1) * (m + 1) \in Int
      OBVIOUS
    <3> QED BY <1>1, <1>2, <2>1, <2>2, <3>1
  <2>4. (4 * p - 4 * P + 1) * (m + 1) = 4 * (p * m) + (4 * p - (4 * P - 1) * (m + 1))
    OBVIOUS
  <2>5. 4 * (p * m) + 1 <= (4 * p - 4 * P + 1) * (m + 1)
    <3>1. (4 * P - 1) * (m + 1) \in Int /\ p * m \in Nat /\ (4 * p - 4 * P + 1) * (m + 1) \in Int
      OBVIOUS
    <3> HIDE DEF p
    <3> QED BY <1>2, <2>3, <2>4, <3>1
  <2> HIDE DEF a, b, p
  <2> DEFINE g == 4 * p - 4 * P + 1
  <2>6. g \in Int
    BY <1>2
  <2>7. (b * g) * (m + 1) <= (4 * a) * (m + 1)
    <3>1. b * g \in Int /\ 4 * a \in Int
      BY <1>2, <2>6
    <3> QED BY <1>1, <1>3, <3>1, MultiplesOrdered
  <2>8. (4 * (p * m) + 1) * b <= (g * (m + 1)) * b
    <3>1. 4 * (p * m) + 1 \in Int /\ g * (m + 1) \in Int
      BY <1>2, <2>6
    <3> QED BY <1>2, <2>5, <3>1, MultiplesOrdered
  <2> HIDE DEF g
  <2>9. (b * g) * (m + 1) = (g * (m + 1)) * b /\ (4 * a) * (m + 1) = 4 * (a * (m + 1))
    BY <1>2, <2>6
  <2>10. (4 * (p * m) + 1) * b = 4 * ((p * b) * m) + b
    BY <1>2
  <2>11. (p * b) * m \in Nat /\ a * (m + 1) \in Nat /\ (g * (m + 1)) * b \in Int
    BY <1>2, <2>6
  <2> QED BY <1>2, <2>7, <2>8, <2>9, <2>10, <2>11
<1>6. (p * b) * (m + 1) >= a * m
  <2>1. 4 * P * (m + 1) <= 4 * p
    <3>1. (m + 1) * P <= P * P
      BY <1>1, MultiplesOrdered
    <3>2. 4 * P * (m + 1) = 4 * ((m + 1) * P) /\ (m + 1) * P \in Nat
      OBVIOUS
    <3> HIDE DEF p
    <3> QED BY <1>2, <3>1, <3>2 DEF p
  <2>2. (4 * p + 4 * P + 1) * m <= 4 * (p * (m + 1))
    <3>1. (4 * p + 4 * P + 1) * m = 4 * (p * m) + (4 * P * (m + 1) - 4 * P) + m
      OBVIOUS
    <3>2. 4 * (p * (m + 1)) = 4 * (p * m) + 4 * p
      OBVIOUS
    <3>3. m <= 4 * P
      OBVIOUS
    <3>4. p * m \in Nat /\ 4 * P * (m + 1) \in Nat
      OBVIOUS
    <3> HIDE DEF p
    <3> QED BY <1>2, <2>1, <3>1, <3>2, <3>3, <3>4
  <2> HIDE DEF a, b, p
  <2> DEFINE g == 4 * p + 4 * P + 1
  <2>3. g \in Nat
    BY <1>2
  <2>4. (4 * a) * m <= (b * g) * m
    <3>1. b * g \in Nat /\ 4 * a \in Nat
      BY <1>2, <2>3
    <3>2. 4 * a <= b * g
      BY <1>4, <3>1
    <3> HIDE DEF g
    <3> QED BY <3>1, <3>2, MultiplesOrdered
  <2>5. (g * m) * b <= (4 * (p * (m + 1))) * b
    <3>1. g * m \in Nat /\ 4 * (p * (m + 1)) \in Nat
      BY <1>2, <2>3
    <3> QED BY <1>2, <2>2, <3>1, MultiplesOrdered
  <2> HIDE DEF g
  <2>6. (b * g) * m = (g * m) * b /\ (4 * a) * m = 4 * (a * m)
    BY <1>2, <2>3
  <2>7. (4 * (p * (m + 1))) * b = 4 * ((p * b) * (m + 1))
    BY <1>2
  <2>8. (p * b) * (m + 1) \in Nat /\ a * m \in Nat /\ (g * m) * b \in Nat
    BY <1>2, <2>3
  <2> QED BY <2>4, <2>5, <2>6, <2>7, <2>8
<1> QED BY <1>5, <1>6 DEF Between

LEMMA SquaresOrdered ==
  ASSUME NEW x \in Nat, NEW y \in Nat, x * x <= y * y
  PROVE  x <= y
<1> SUFFICES ASSUME y < x PROVE FALSE
  OBVIOUS
<1>1. y * y < x * x
  BY Products
<1>2. x * x \in Nat /\ y * y \in Nat
  OBVIOUS
<1> QED BY <1>1, <1>2

\* And is not far from it.
LEMMA MarginBetween ==
  ASSUME NEW m \in Nat \ {0}, NEW v \in Nat, NEW P \in Nat, P > m,
         NEW A \in Nat \ {0}, NEW B \in Nat \ {0}, Divides(P, A, B), Between(m, v, A, B)
  PROVE  /\ 2 * m * P <= 2 * m * v + (2 * v + m)
         /\ 2 * m * v <= 2 * m * P + (2 * v + m)
<1>1. m \in Nat /\ m + 1 \in Nat /\ m - 1 \in Nat /\ P > 0
  OBVIOUS
<1> DEFINE r == v * B
           rr == r * r
           a == A * A
<1>2. r \in Nat /\ rr \in Nat /\ a \in Nat
  OBVIOUS
<1>3. rr * m < a * (m + 1) /\ a * m <= rr * (m + 1)
  <2>1. (v * v) * (B * B) = rr
    OBVIOUS
  <2>2. rr * (m + 1) \in Nat /\ a * m \in Nat
    OBVIOUS
  <2> HIDE DEF rr, a
  <2> QED BY <2>1, <2>2 DEF Between, a
<1>4. m * A <= (m + 1) * r
  <2>1. (m * A) * (m * A) = (a * m) * m /\ ((m + 1) * r) * ((m + 1) * r) = (rr * (m + 1)) * (m + 1)
    OBVIOUS
  <2>2. (a * m) * m <= (rr * (m + 1)) * (m + 1)
    <3> HIDE DEF rr, a, r
    <3>1. a * m \in Nat /\ rr * (m + 1) \in Nat /\ m <= m + 1
      BY <1>1, <1>2
    <3> QED BY <1>1, <1>3, <3>1, Products
  <2>3. m * A \in Nat /\ (m + 1) * r \in Nat
    OBVIOUS
  <2> DEFINE x == m * A
             y == (m + 1) * r
  <2> HIDE DEF x, y, rr, a, r
  <2> QED BY <2>1, <2>2, <2>3, SquaresOrdered DEF x, y
<1>5. (m - 1) * r <= m * A
  <2>1. ((m - 1) * r) * ((m - 1) * r) = ((m - 1) * (m - 1)) * rr /\ (m * A) * (m * A) = (m * m) * a
    OBVIOUS
  <2>2. ((m - 1) * (m - 1)) * rr <= (m * m) * a
    <3> HIDE DEF rr, a, r
    <3> DEFINE c == (m - 1) * (m - 1)
               mm == m * m
    <3>1. c \in Nat /\ mm \in Nat
      BY <1>1
    <3>2. c * (m + 1) = mm * m - mm - m + 1
      OBVIOUS
    <3>3. mm * m \in Nat
      BY <1>1, <3>1
    <3>4. c * (m + 1) <= mm * m
      BY <1>1, <3>1, <3>2, <3>3
    <3> HIDE DEF c, mm
    <3>5. (rr * m) * c <= (a * (m + 1)) * c
      <4>1. rr * m \in Nat /\ a * (m + 1) \in Nat
        BY <1>1, <1>2
      <4>2. rr * m <= a * (m + 1)
        BY <1>3, <4>1
      <4> QED BY <3>1, <4>1, <4>2, MultiplesOrdered
    <3>6. (c * (m + 1)) * a <= (mm * m) * a
      <4>1. c * (m + 1) \in Nat
        BY <1>1, <3>1
      <4> QED BY <1>2, <3>3, <3>4, <4>1, MultiplesOrdered
    <3>7. /\ (rr * m) * c = (c * rr) * m
          /\ (a * (m + 1)) * c = (c * (m + 1)) * a
          /\ (mm * m) * a = (mm * a) * m
      BY <1>1, <1>2, <3>1
    <3>8. c * rr \in Nat /\ mm * a \in Nat /\ (c * rr) * m \in Nat /\ (mm * a) * m \in Nat
          /\ (c * (m + 1)) * a \in Nat
      BY <1>1, <1>2, <3>1
    <3>9. (c * rr) * m <= (mm * a) * m
      BY <3>5, <3>6, <3>7, <3>8
    <3>10. c * rr <= mm * a
      BY <3>8, <3>9, Cancelled
    <3> QED BY <3>10 DEF c, mm
  <2>3. m * A \in Nat /\ (m - 1) * r \in Nat
    BY <1>1, <1>2
  <2> DEFINE x == m * A
             y == (m - 1) * r
  <2> HIDE DEF x, y, rr, a, r
  <2> QED BY <2>1, <2>2, <2>3, SquaresOrdered DEF x, y
<1>6. m * (2 * P - 1) <= 2 * ((m + 1) * v)
  <2>1. (B * (2 * P - 1)) * m <= (2 * A) * m
    <3>1. B * (2 * P - 1) \in Int
      OBVIOUS
    <3> QED BY <1>1, <3>1, MultiplesOrdered DEF Divides
  <2>2. (B * (2 * P - 1)) * m = (m * (2 * P - 1)) * B /\ (2 * A) * m = 2 * (m * A)
    OBVIOUS
  <2>3. 2 * ((m + 1) * r) = (2 * ((m + 1) * v)) * B
    OBVIOUS
  <2>4. m * A \in Nat /\ (m + 1) * r \in Nat
    OBVIOUS
  <2>5. m * (2 * P - 1) \in Nat /\ 2 * ((m + 1) * v) \in Nat
    <3>1. 2 * P - 1 \in Nat
      BY <1>1
    <3> QED BY <3>1
  <2>6. (m * (2 * P - 1)) * B \in Int
    OBVIOUS
  <2>7. (m * (2 * P - 1)) * B <= (2 * ((m + 1) * v)) * B
    <3> HIDE DEF r
    <3> QED BY <1>4, <2>1, <2>2, <2>3, <2>4, <2>6
  <2> QED BY <2>5, <2>7, Cancelled
<1>7. 2 * ((m - 1) * v) <= m * (2 * P + 1)
  <2>1. (2 * A) * m <= (B * (2 * P + 1)) * m
    <3>1. B * (2 * P + 1) \in Int /\ 2 * A <= B * (2 * P + 1)
      BY DEF Divides
    <3> QED BY <1>1, <3>1, MultiplesOrdered
  <2>2. (B * (2 * P + 1)) * m = (m * (2 * P + 1)) * B /\ (2 * A) * m = 2 * (m * A)
    OBVIOUS
  <2>3. 2 * ((m - 1) * r) = (2 * ((m - 1) * v)) * B
    OBVIOUS
  <2>4. m * A \in Nat /\ (m - 1) * r \in Nat
    BY <1>1, <1>2
  <2>5. m * (2 * P + 1) \in Nat /\ 2 * ((m - 1) * v) \in Nat
    BY <1>1
  <2>6. (m * (2 * P + 1)) * B \in Int
    OBVIOUS
  <2>7. (2 * ((m - 1) * v)) * B <= (m * (2 * P + 1)) * B
    <3> HIDE DEF r
    <3> QED BY <1>5, <2>1, <2>2, <2>3, <2>4, <2>6
  <2> QED BY <2>5, <2>7, Cancelled
<1>8. m * (2 * P - 1) = 2 * m * P - m /\ m * (2 * P + 1) = 2 * m * P + m
  OBVIOUS
<1>9. 2 * ((m + 1) * v) = 2 * m * v + 2 * v /\ 2 * ((m - 1) * v) = 2 * m * v - 2 * v
  OBVIOUS
<1>10. 2 * m * P \in Nat /\ 2 * m * v \in Nat
  OBVIOUS
<1> HIDE DEF r, rr, a
<1> QED BY <1>6, <1>7, <1>8, <1>9, <1>10

LEMMA EncodeSmall ==
  ASSUME NEW m \in Nat \ {0}, NEW v \in Int, Magnitude(v) <= m
  PROVE  Encode(m, v) = v /\ Decode(m, v) = v
BY DEF Encode, Decode, LinearPart

LEMMA EncodeLarge ==
  ASSUME NEW m \in Nat \ {0}, NEW v \in Nat, v > m
  PROVE  /\ Log(m, v) \in Nat \ {0}
         /\ Encode(m, v) = Log(m, v) + m
         /\ Encode(m, -v) = -(Log(m, v) + m)
<1>1. Log(m, v) \in Nat \ {0}
  BY LogBeyond
<1>2. Magnitude(v) = v /\ Magnitude(-v) = v /\ Sign(v) = 1 /\ Sign(-v) = -1
  BY DEF Magnitude, Sign
<1>3. ~(v <= m)
  OBVIOUS
<1>4. Encode(m, v) = (Log(m, v) + m) * 1 /\ Encode(m, -v) = (Log(m, v) + m) * (-1)
  BY <1>2, <1>3 DEF Encode, LinearPart
<1> DEFINE k == Log(m, v)
<1>5. (k + m) * 1 = k + m /\ (k + m) * (-1) = -(k + m)
  <2> HIDE DEF k
  <2>1. k \in Nat
    BY <1>1 DEF k
  <2> QED BY <2>1
<1> QED BY <1>1, <1>4, <1>5

LEMMA DecodeLarge ==
  ASSUME NEW m \in Nat \ {0}, NEW k \in Nat \ {0}
  PROVE  Decode(m, k + m) = Power(m, k)
<1>1. Magnitude(k + m) = k + m /\ Sign(k + m) = 1 /\ ~(k + m <= m) /\ (k + m) - m = k
  BY DEF Magnitude, Sign
<1>2. Decode(m, k + m) = Power(m, k) * 1
  BY <1>1 DEF Decode, LinearPart
<1>3. Power(m, k) \in Nat
  BY PowerIs
<1> QED BY <1>2, <1>3

Restored(m, v) == Decode(m, Encode(m, v))

\* The linear part is exact. Beyond it what is read is within the margin, and is
\* read again when it is written again.
LEMMA ReadBack ==
  ASSUME NEW m \in Nat \ {0}, NEW v \in Int, v >= -1
  PROVE  /\ Restored(m, Restored(m, v)) = Restored(m, v)
         /\ IF v <= m THEN Restored(m, v) = v
            ELSE 2 * m * Magnitude(Restored(m, v) - v) <= 2 * v + m
<1>1. CASE v <= m
  <2>1. Magnitude(v) <= m
    BY <1>1 DEF Magnitude
  <2>2. Restored(m, v) = v
    BY <2>1, EncodeSmall DEF Restored
  <2> QED BY <1>1, <2>2
<1>2. CASE v > m
  <2> DEFINE k == Log(m, v)
             P == Power(m, k)
             A == Pow(m + 1, k)
             B == Pow(m, k - 1)
  <2>1. v \in Nat /\ k \in Nat \ {0} /\ Rounds(m, m, v, k) /\ Encode(m, v) = k + m
    BY <1>2, LogBeyond, EncodeLarge
  <2> HIDE DEF k
  <2>2. /\ P \in Nat /\ P > m /\ A \in Nat \ {0} /\ B \in Nat \ {0}
        /\ B * (2 * P - 1) <= 2 * A
        /\ 2 * A < B * (2 * P + 1)
    BY <2>1, PowerIs
  <2>3. Divides(P, A, B)
    BY <2>2 DEF Divides
  <2>4. Between(m, v, A, B)
    BY <2>1, RoundsBetween
  <2>5. Rounds(m, m, P, k)
    <3> HIDE DEF P
    <3>1. Rounds(m, m, P, k) <=> Between(m, P, A, B)
      BY <2>1, <2>2, RoundsBetween
    <3> HIDE DEF A, B
    <3>2. Between(m, P, A, B)
      BY <2>2, <2>3, QuotientBetween
    <3> QED BY <3>1, <3>2
  <2>6. Restored(m, v) = P
    BY <2>1, DecodeLarge DEF Restored
  <2>7. Log(m, P) = k
    <3> HIDE DEF P
    <3>1. Log(m, P) \in Nat \ {0} /\ Rounds(m, m, P, Log(m, P))
      BY <2>2, LogBeyond
    <3> QED BY <2>1, <2>2, <2>5, <3>1, RoundsOnce
  <2>8. Restored(m, P) = P
    <3>1. Encode(m, P) = k + m
      <4> HIDE DEF P
      <4> QED BY <2>2, <2>7, EncodeLarge
    <3> QED BY <2>1, <3>1, DecodeLarge DEF Restored
  <2> HIDE DEF A, B, P
  <2>9. /\ 2 * m * P <= 2 * m * v + (2 * v + m)
        /\ 2 * m * v <= 2 * m * P + (2 * v + m)
    BY <2>1, <2>2, <2>3, <2>4, MarginBetween
  <2>10. 2 * m * Magnitude(P - v) <= 2 * v + m
    <3>1. 2 * m * (P - v) = 2 * m * P - 2 * m * v /\ 2 * m * (-(P - v)) = 2 * m * v - 2 * m * P
      BY <2>1, <2>2
    <3>2. 2 * m * P \in Nat /\ 2 * m * v \in Nat
      BY <2>1, <2>2
    <3>3. Magnitude(P - v) = P - v \/ Magnitude(P - v) = -(P - v)
      BY DEF Magnitude
    <3>4. 2 * m * Magnitude(P - v) <= 2 * v + m
      BY <2>1, <2>9, <3>1, <3>2, <3>3
    <3> QED BY <3>4
  <2>11. ~(v <= m)
    BY <1>2
  <2> QED BY <2>6, <2>8, <2>10, <2>11
<1> QED BY <1>1, <1>2

\* Signs and order survive.
LEMMA EncodeType ==
  ASSUME NEW m \in Nat \ {0}, NEW v \in Nat
  PROVE  Encode(m, v) \in Nat /\ (v <= m => Encode(m, v) = v) /\ (v > m => Encode(m, v) > m)
<1>1. CASE v <= m
  <2>1. Magnitude(v) <= m
    BY <1>1 DEF Magnitude
  <2> QED BY <1>1, <2>1, EncodeSmall
<1>2. CASE v > m
  <2>1. Log(m, v) \in Nat \ {0} /\ Encode(m, v) = Log(m, v) + m
    BY <1>2, EncodeLarge
  <2> QED BY <1>2, <2>1
<1> QED BY <1>1, <1>2

LEMMA EncodeMirrored ==
  ASSUME NEW m \in Nat \ {0}, NEW v \in Nat
  PROVE  Encode(m, -v) = -Encode(m, v)
<1>1. CASE v <= m
  <2>1. Magnitude(v) <= m /\ Magnitude(-v) <= m
    BY <1>1 DEF Magnitude
  <2>2. -v \in Int
    OBVIOUS
  <2> QED BY <2>1, <2>2, EncodeSmall
<1>2. CASE v > m
  BY <1>2, EncodeLarge
<1> QED BY <1>1, <1>2

LEMMA EncodeOrdered ==
  ASSUME NEW m \in Nat \ {0}, NEW v \in Nat, NEW w \in Nat, v <= w
  PROVE  Encode(m, v) <= Encode(m, w)
<1>1. CASE v > m
  <2> DEFINE j == Log(m, v)
             k == Log(m, w)
  <2>1. w > m
    BY <1>1
  <2>2. /\ j \in Nat \ {0} /\ Rounds(m, m, v, j) /\ Encode(m, v) = j + m
        /\ k \in Nat \ {0} /\ Rounds(m, m, w, k) /\ Encode(m, w) = k + m
    BY <1>1, <2>1, LogBeyond, EncodeLarge
  <2> HIDE DEF j, k
  <2>3. BelowStep(m, m, v, k)
    <3> DEFINE p == Pow(m, 2 * k + 1)
               x == Pow(m + 1, 2 * k + 1) * m * m
    <3>1. p \in Nat \ {0} /\ Pow(m + 1, 2 * k + 1) \in Nat
      <4>1. m + 1 \in Nat \ {0} /\ k \in Nat
        BY <2>2
      <4> QED BY <2>2, <4>1, OddPowers
    <3>2. w * w * p < x
      BY <2>2 DEF Rounds, BelowStep
    <3>3. x \in Nat
      BY <3>1
    <3> HIDE DEF p, x
    <3>4. v * v <= w * w /\ v * v \in Nat /\ w * w \in Nat
      BY Products
    <3>5. (v * v) * p <= (w * w) * p
      BY <3>1, <3>4, MultiplesOrdered
    <3>6. (v * v) * p \in Nat /\ (w * w) * p \in Nat
      BY <3>1, <3>4
    <3>7. v * v * p < x
      BY <3>2, <3>3, <3>5, <3>6
    <3> QED BY <3>7 DEF BelowStep, p, x
  <2>4. j <= k
    <3> SUFFICES ASSUME k < j PROVE FALSE
      BY <2>2
    <3>1. j - 1 \in Nat /\ k <= j - 1 /\ k \in Nat /\ j > 0
      BY <2>2
    <3>2. BelowStep(m, m, v, j - 1)
      BY <2>3, <3>1, BelowFrom
    <3> QED BY <2>2, <3>1, <3>2 DEF Rounds
  <2> QED BY <2>2, <2>4
<1>2. CASE v <= m
  <2>1. Encode(m, v) = v /\ Encode(m, w) \in Nat /\ (w <= m => Encode(m, w) = w) /\ (w > m => Encode(m, w) > m)
    BY <1>2, EncodeType
  <2> QED BY <1>2, <2>1
<1> QED BY <1>1, <1>2

-----------------------------------------------------------------------------
(* Sizes of buckets.                                                       *)

\* m * (1 + 1/m)^(h/2) is between n - 1/2 and n + 1/2.
Halves(m, h, n) ==
  /\ (2 * n - 1) * (2 * n - 1) * Pow(m, h - 1) <= 4 * m * Pow(m + 1, h)
  /\ (2 * n + 1) * (2 * n + 1) * Pow(m, h - 1) > 4 * m * Pow(m + 1, h)

LEMMA HalvesBound ==
  ASSUME NEW m \in Nat \ {0}, NEW j \in Nat
  PROVE  /\ m * Pow(2, j + 1) \in Nat
         /\ Pow(m, 2 * j) \in Nat \ {0}
         /\ Pow(m + 1, 2 * j + 1) \in Nat \ {0}
         /\ Pow(m, 2 * j) <= 4 * m * Pow(m + 1, 2 * j + 1)
         /\ (2 * (m * Pow(2, j + 1)) + 1) * (2 * (m * Pow(2, j + 1)) + 1) * Pow(m, 2 * j)
              > 4 * m * Pow(m + 1, 2 * j + 1)
<1> DEFINE B == Pow(m, 2 * j)
           A == Pow(m + 1, 2 * j + 1)
           t == Pow(2, j)
           h == 2 * j + 1
<1>1. /\ m \in Nat /\ m + 1 \in Nat \ {0} /\ 2 \in Nat \ {0} /\ 2 * j \in Nat
      /\ h \in Nat /\ j + 1 \in Nat /\ m + 1 \in Nat
  OBVIOUS
<1>2. t \in Nat \ {0} /\ Pow(2, j + 1) = 2 * t
  BY <1>1, PowPositive, PowIs
<1>3. Pow(2, h) = (2 * t) * t
  BY <1>1, OddPowers
<1>4. B \in Nat \ {0} /\ Pow(m, h) = m * B
  BY <1>1, PowPositive, PowIs
<1>5. A \in Nat \ {0}
  BY <1>1, PowPositive
<1>6. Pow(m, h) * (m + h) <= Pow(m + 1, h) * m /\ Pow(m + 1, h) <= Pow(2, h) * Pow(m, h)
  <2> HIDE DEF h
  <2> QED BY <1>1, Bernoulli
<1>7. (m * B) * (m + (2 * j + 1)) <= A * m /\ A <= ((2 * t) * t) * (m * B)
  BY <1>3, <1>4, <1>6
<1> HIDE DEF A, B, t, h
<1>8. B <= 4 * m * A
  <2>1. (m * B) * (m + (2 * j + 1)) = (m * B) * m + (m * B) * (2 * j) + m * B
    BY <1>1, <1>4
  <2>2. (m * B) * m \in Nat /\ (m * B) * (2 * j) \in Nat /\ A * m \in Nat /\ m * B \in Nat
    BY <1>1, <1>4, <1>5
  <2>3. m * B <= A * m
    BY <1>7, <2>1, <2>2
  <2>4. B * 1 <= B * m /\ B * m = m * B
    <3>1. 1 \in Nat /\ 1 <= m
      BY <1>1
    <3> QED BY <1>1, <1>4, <3>1, Products
  <2>5. 4 * m * A = 4 * (A * m)
    BY <1>1, <1>5
  <2> QED BY <1>4, <2>2, <2>3, <2>4, <2>5
<1> DEFINE s == 2 * (m * (2 * t)) + 1
           x == ((m * t) * (m * t)) * B
<1>9. x \in Nat /\ m * t \in Nat \ {0} /\ (m * t) * B \in Nat
  <2>1. m * t \in Nat \ {0}
    BY <1>1, <1>2
  <2> DEFINE y == m * t
  <2> HIDE DEF y
  <2>2. y \in Nat
    BY <2>1 DEF y
  <2>3. (y * y) * B \in Nat /\ y * B \in Nat
    BY <1>4, <2>2
  <2> QED BY <2>1, <2>3 DEF y
<1>10. (s * s) * B = 16 * x + 8 * ((m * t) * B) + B
  BY <1>1, <1>2, <1>4
<1>11. (4 * m) * (((2 * t) * t) * (m * B)) = 8 * x
  BY <1>1, <1>2, <1>4
<1>12. A * (4 * m) <= (((2 * t) * t) * (m * B)) * (4 * m)
  <2>1. ((2 * t) * t) * (m * B) \in Nat
    BY <1>1, <1>2, <1>4
  <2>2. 4 * m \in Nat
    BY <1>1
  <2> QED BY <1>5, <1>7, <2>1, <2>2, MultiplesOrdered
<1>13. A * (4 * m) = 4 * m * A /\ 4 * m * A \in Nat
  BY <1>1, <1>5
<1>14. (((2 * t) * t) * (m * B)) * (4 * m) = 8 * x
  BY <1>1, <1>2, <1>4
<1>15. (s * s) * B > 4 * m * A
  <2> HIDE DEF x, s
  <2> QED BY <1>4, <1>9, <1>10, <1>12, <1>13, <1>14
<1>16. m * (2 * t) \in Nat
  BY <1>1, <1>2
<1> QED BY <1>2, <1>4, <1>5, <1>8, <1>15, <1>16 DEF A, B, h

LEMMA HalvesIs ==
  ASSUME NEW m \in Nat \ {0}, NEW j \in Nat
  PROVE  /\ PowerOfHalves(m, 2 * j + 1) \in Nat
         /\ Halves(m, 2 * j + 1, PowerOfHalves(m, 2 * j + 1))
<1> DEFINE h == 2 * j + 1
           bound == m * Pow(2, h \div 2 + 1)
           B == Pow(m, 2 * j)
           C == 4 * m * Pow(m + 1, h)
           T == {n \in Nat : (2 * n + 1) * (2 * n + 1) * B > C}
<1>1. h \div 2 = j /\ h - 1 = 2 * j
  OBVIOUS
<1>2. /\ bound \in Nat /\ B \in Nat \ {0} /\ C \in Nat /\ B <= C
      /\ (2 * bound + 1) * (2 * bound + 1) * B > C
  <2>1. bound = m * Pow(2, j + 1)
    BY <1>1
  <2>2. m * Pow(2, j + 1) \in Nat /\ Pow(m + 1, h) \in Nat \ {0}
    BY HalvesBound
  <2>3. C \in Nat
    <3> DEFINE a == Pow(m + 1, h)
    <3>1. a \in Nat
      BY <2>2
    <3> HIDE DEF a
    <3>2. 4 * m * a \in Nat
      BY <3>1
    <3> QED BY <3>2 DEF a
  <2> QED BY <2>1, <2>2, <2>3, HalvesBound
<1>3. \A n : Halves(m, h, n) <=> (2 * n - 1) * (2 * n - 1) * B <= C /\ (2 * n + 1) * (2 * n + 1) * B > C
  BY <1>1 DEF Halves
<1>4. \A n : n = PowerOfHalves(m, h) <=> n = CHOOSE i \in 0 .. bound : Halves(m, h, i)
  BY DEF PowerOfHalves, Halves
<1> HIDE DEF bound, B, C, h
<1>5. bound \in T /\ T \in SUBSET Nat
  BY <1>2
<1>6. PICK n \in T : \A i \in T : n <= i
  <2> HIDE DEF T
  <2> QED BY <1>5, LeastNat
<1>7. n \in Nat /\ n <= bound
  BY <1>5, <1>6
<1>8. (2 * n - 1) * (2 * n - 1) * B <= C
  <2>1. CASE n = 0
    <3>1. (2 * n - 1) * (2 * n - 1) * B = B
      BY <1>2, <2>1
    <3> QED BY <1>2, <3>1
  <2>2. CASE n # 0
    <3>1. n - 1 \in Nat /\ ~(n <= n - 1)
      BY <1>7, <2>2
    <3>2. n - 1 \notin T
      BY <1>6, <3>1
    <3>3. ~((2 * (n - 1) + 1) * (2 * (n - 1) + 1) * B > C)
      BY <3>1, <3>2
    <3>4. 2 * (n - 1) + 1 = 2 * n - 1
      BY <1>7
    <3>5. (2 * n - 1) * (2 * n - 1) * B \in Int
      BY <1>2, <1>7
    <3> QED BY <1>2, <3>3, <3>4, <3>5
  <2> QED BY <2>1, <2>2
<1>9. n \in 0 .. bound /\ Halves(m, h, n)
  BY <1>2, <1>3, <1>6, <1>7, <1>8
<1>10. PowerOfHalves(m, h) \in 0 .. bound /\ Halves(m, h, PowerOfHalves(m, h))
  BY <1>4, <1>9
<1> QED BY <1>2, <1>10 DEF h

\* The end above: no value below the upper end of a step is beyond it.
LEMMA HalvesAbove ==
  ASSUME NEW n \in Nat, NEW i \in Nat, NEW B \in Nat, NEW C \in Nat,
         (2 * i + 1) * (2 * i + 1) * B > 4 * C, n * n * B < C
  PROVE  n <= i
<1> SUFFICES ASSUME i < n PROVE FALSE
  OBVIOUS
<1>1. 2 * i + 1 \in Nat /\ 2 * n \in Nat /\ 2 * i + 1 <= 2 * n
  OBVIOUS
<1>2. (2 * i + 1) * (2 * i + 1) <= (2 * n) * (2 * n)
  BY <1>1, Products
<1>3. (2 * i + 1) * (2 * i + 1) \in Nat /\ (2 * n) * (2 * n) \in Nat
  OBVIOUS
<1>4. (2 * i + 1) * (2 * i + 1) * B <= (2 * n) * (2 * n) * B
  BY <1>2, <1>3, MultiplesOrdered
<1>5. (2 * n) * (2 * n) * B = 4 * (n * n * B)
  OBVIOUS
<1>6. n * n * B \in Nat /\ (2 * i + 1) * (2 * i + 1) * B \in Nat
  OBVIOUS
<1> QED BY <1>4, <1>5, <1>6

LEMMA HalvesBelow ==
  ASSUME NEW n \in Nat, NEW i \in Nat, NEW B \in Nat \ {0}, NEW C \in Nat,
         (2 * i - 1) * (2 * i - 1) * B <= 4 * C, n * n * B >= C
  PROVE  i <= n
<1> SUFFICES ASSUME n < i PROVE FALSE
  OBVIOUS
<1>1. 2 * i - 1 \in Nat /\ 2 * n \in Nat /\ 2 * n < 2 * i - 1 /\ 2 * i - 1 > 0
  OBVIOUS
<1>2. (2 * n) * (2 * n) < (2 * i - 1) * (2 * i - 1)
  <2> DEFINE x == 2 * n
             y == 2 * i - 1
  <2>1. x \in Nat /\ y \in Nat /\ x < y /\ y > 0
    BY <1>1
  <2> HIDE DEF x, y
  <2>2. x * x < y * y
    BY <2>1, Products
  <2> QED BY <2>2 DEF x, y
<1>3. (2 * i - 1) * (2 * i - 1) \in Nat /\ (2 * n) * (2 * n) \in Nat
  BY <1>1
<1>4. (2 * n) * (2 * n) * B < (2 * i - 1) * (2 * i - 1) * B
  <2> DEFINE x == (2 * n) * (2 * n)
             y == (2 * i - 1) * (2 * i - 1)
  <2>1. x \in Nat /\ y \in Nat /\ x < y
    BY <1>2, <1>3
  <2> HIDE DEF x, y
  <2>2. x * B < y * B
    BY <2>1, Products
  <2> QED BY <2>2 DEF x, y
<1>5. (2 * n) * (2 * n) * B = 4 * (n * n * B)
  OBVIOUS
<1>6. n * n * B \in Nat /\ (2 * i - 1) * (2 * i - 1) * B \in Int
  OBVIOUS
<1> QED BY <1>4, <1>5, <1>6

\* The step k of n, from the end below to the end above.
LEMMA StepEnds ==
  ASSUME NEW m \in Nat \ {0}, NEW n \in Nat, NEW k \in Nat
  PROVE  /\ BelowStep(m, m, n, k) => n <= PowerOfHalves(m, 2 * k + 1)
         /\ ~BelowStep(m, m, n, k) => PowerOfHalves(m, 2 * k + 1) <= n
<1> DEFINE h == 2 * k + 1
           i == PowerOfHalves(m, h)
           B == Pow(m, 2 * k)
           A == Pow(m + 1, h)
           C == m * A
<1>1. m \in Nat /\ m + 1 \in Nat \ {0} /\ 2 * k \in Nat /\ h \in Nat /\ h - 1 = 2 * k
  OBVIOUS
<1>2. i \in Nat /\ Halves(m, h, i)
  BY HalvesIs
<1>3. B \in Nat \ {0} /\ A \in Nat \ {0} /\ Pow(m, h) = m * B
  BY <1>1, PowPositive, PowIs
<1>4. /\ (2 * i - 1) * (2 * i - 1) * B <= 4 * m * A
      /\ (2 * i + 1) * (2 * i + 1) * B > 4 * m * A
  BY <1>1, <1>2 DEF Halves
<1>5. BelowStep(m, m, n, k) <=> n * n * (m * B) < A * m * m
  BY <1>3 DEF BelowStep
<1> HIDE DEF h, i, A, B
<1>6. C \in Nat /\ 4 * m * A = 4 * C
  BY <1>1, <1>3
<1>7. n * n * (m * B) = (n * n * B) * m /\ A * m * m = C * m
  BY <1>1, <1>3
<1>8. n * n * B \in Nat
  BY <1>3
<1> HIDE DEF C
<1>9. BelowStep(m, m, n, k) <=> n * n * B < C
  <2> DEFINE x == n * n * B
  <2>1. x \in Nat
    BY <1>8
  <2> HIDE DEF x
  <2>2. x * m < C * m <=> x < C
    BY <1>1, <1>6, <2>1, Cancelled, Products
  <2> QED BY <1>5, <1>7, <2>2 DEF x
<1>10. ASSUME n * n * B < C PROVE n <= i
  BY <1>2, <1>3, <1>4, <1>6, <1>10, HalvesAbove
<1>11. ASSUME ~(n * n * B < C) PROVE i <= n
  <2>1. n * n * B >= C
    BY <1>6, <1>8, <1>11
  <2> QED BY <1>2, <1>3, <1>4, <1>6, <2>1, HalvesBelow
<1> QED BY <1>9, <1>10, <1>11 DEF i, h

LEMMA HalvesDecoded ==
  ASSUME NEW m \in Nat \ {0}, NEW z \in Nat
  PROVE  /\ DecodeHalves(m, 2 * z + 1) =
              IF z < m THEN z + 1 ELSE PowerOfHalves(m, 2 * (z - m) + 1)
         /\ DecodeHalves(m, 2 * z + 1) \in Nat
         /\ DecodeHalves(m, -(2 * z + 1)) = -DecodeHalves(m, 2 * z + 1)
<1> DEFINE h == 2 * z + 1
           d == IF z < m THEN z + 1 ELSE PowerOfHalves(m, 2 * (z - m) + 1)
<1>1. h \in Nat /\ h > 0 /\ (h + 1) \div 2 = z + 1 /\ h - 2 * m = 2 * (z - m) + 1
  OBVIOUS
<1>2. Magnitude(h) = h /\ Magnitude(-h) = h /\ Sign(h) = 1 /\ Sign(-h) = -1
  BY <1>1 DEF Magnitude, Sign
<1>3. z + 1 <= m <=> z < m
  OBVIOUS
<1>4. d \in Nat
  <2>1. CASE z < m
    BY <2>1
  <2>2. CASE ~(z < m)
    <3>1. z - m \in Nat
      BY <2>2
    <3> QED BY <2>2, <3>1, HalvesIs
  <2> QED BY <2>1, <2>2
<1>5. DecodeHalves(m, h) = 1 * d /\ DecodeHalves(m, -h) = (-1) * d
  <2> DEFINE r == (h + 1) \div 2
             e == IF r <= m THEN r ELSE PowerOfHalves(m, h - 2 * m)
  <2>1. DecodeHalves(m, h) = 1 * e /\ DecodeHalves(m, -h) = (-1) * e
    <3> HIDE DEF h
    <3> QED BY <1>2 DEF DecodeHalves, LinearPart
  <2>2. e = d
    BY <1>1, <1>3
  <2> HIDE DEF e, d, h
  <2> QED BY <2>1, <2>2
<1>6. 1 * d = d /\ (-1) * d = -d
  <2> HIDE DEF d
  <2> QED BY <1>4
<1> HIDE DEF d, h
<1>7. DecodeHalves(m, h) = d /\ DecodeHalves(m, -h) = -d
  BY <1>5, <1>6
<1> QED BY <1>4, <1>7 DEF d, h

\* Where bucket_size looks for the values of z, and of -z.
LEMMA EndsAre ==
  ASSUME NEW m \in Nat \ {0}, NEW z \in Nat
  PROVE  LET l == DecodeHalves(m, 2 * z - 1)
             r == DecodeHalves(m, 2 * z + 1) IN
         /\ l \in Int /\ r \in Int
         /\ DecodeHalves(m, 2 * (-z) - 1) = -r
         /\ DecodeHalves(m, 2 * (-z) + 1) = -l
         /\ \A n \in Nat : Encode(m, n) = z => l <= n /\ n <= r
<1> DEFINE l == DecodeHalves(m, 2 * z - 1)
           r == DecodeHalves(m, 2 * z + 1)
<1>1. /\ r = IF z < m THEN z + 1 ELSE PowerOfHalves(m, 2 * (z - m) + 1)
      /\ r \in Nat
      /\ DecodeHalves(m, -(2 * z + 1)) = -r
  BY HalvesDecoded
<1>2. DecodeHalves(m, 2 * (-z) - 1) = -r
  <2>1. 2 * (-z) - 1 = -(2 * z + 1)
    OBVIOUS
  <2> QED BY <1>1, <2>1
<1>3. CASE z = 0
  <2>1. 2 * z - 1 = -(2 * z + 1) /\ 2 * (-z) + 1 = 2 * z + 1 /\ z < m
    BY <1>3
  <2>2. l = -r /\ DecodeHalves(m, 2 * (-z) + 1) = r
    BY <1>1, <2>1
  <2>3. r = 1
    BY <1>1, <1>3, <2>1
  <2>4. ASSUME NEW n \in Nat, Encode(m, n) = z PROVE l <= n /\ n <= r
    <3>1. n = 0
      BY <1>3, <2>4, EncodeType
    <3> HIDE DEF l, r
    <3> QED BY <2>2, <2>3, <3>1
  <2> HIDE DEF l, r
  <2> QED BY <1>1, <1>2, <2>2, <2>3, <2>4 DEF l, r
<1>4. CASE z # 0
  <2> DEFINE y == z - 1
  <2>1. y \in Nat /\ 2 * z - 1 = 2 * y + 1 /\ 2 * (-z) + 1 = -(2 * y + 1)
    BY <1>4
  <2>2. /\ DecodeHalves(m, 2 * y + 1) = IF y < m THEN y + 1 ELSE PowerOfHalves(m, 2 * (y - m) + 1)
        /\ DecodeHalves(m, 2 * y + 1) \in Nat
        /\ DecodeHalves(m, -(2 * y + 1)) = -DecodeHalves(m, 2 * y + 1)
    <3> HIDE DEF y
    <3> QED BY <2>1, HalvesDecoded
  <2>3. /\ l = IF y < m THEN y + 1 ELSE PowerOfHalves(m, 2 * (y - m) + 1)
        /\ l \in Nat
        /\ DecodeHalves(m, 2 * (-z) + 1) = -l
    <3> HIDE DEF y
    <3> QED BY <2>1, <2>2
  <2>4. ASSUME NEW n \in Nat, Encode(m, n) = z PROVE l <= n /\ n <= r
    <3>1. CASE n <= m
      <4>1. n = z /\ y < m /\ y + 1 = z
        BY <2>4, <3>1, EncodeType
      <4>2. l = z
        BY <2>3, <4>1
      <4>3. n <= r
        <5>1. CASE z < m
          <6> HIDE DEF r
          <6> QED BY <1>1, <4>1, <5>1
        <5>2. CASE z = m
          <6>1. BelowStep(m, m, n, 0)
            <7>1. m \in Nat /\ m + 1 \in Nat
              OBVIOUS
            <7> DEFINE o == 0
            <7>2. o \in Nat
              OBVIOUS
            <7>3. o + 1 = 1 /\ 2 * o + 1 = 1
              OBVIOUS
            <7> HIDE DEF o
            <7>4. Pow(m, o) = 1 /\ Pow(m, o + 1) = m * Pow(m, o)
              <8>1. Pow(m, o) = 1
                BY <7>1, <7>2, PowIs DEF o
              <8> QED BY <7>1, <7>2, <8>1, PowIs
            <7>5. Pow(m + 1, o) = 1 /\ Pow(m + 1, o + 1) = (m + 1) * Pow(m + 1, o)
              <8>1. Pow(m + 1, o) = 1
                BY <7>1, <7>2, PowIs DEF o
              <8> QED BY <7>1, <7>2, <8>1, PowIs
            <7>6. m * 1 = m /\ (m + 1) * 1 = m + 1
              OBVIOUS
            <7>7. Pow(m, 2 * o + 1) = m /\ Pow(m + 1, 2 * o + 1) = m + 1
              BY <7>3, <7>4, <7>5, <7>6
            <7>8. n * n * m < (m + 1) * m * m
              <8>1. (m + 1) * m * m = m * m * m + m * m /\ m * m > 0 /\ m * m * m \in Nat
                <9>1. \A a \in Nat \ {0} : a * a > 0 /\ a * a \in Nat
                  OBVIOUS
                <9> QED BY <7>1, <9>1
              <8> QED BY <4>1, <5>2, <8>1
            <7> QED BY <7>7, <7>8 DEF BelowStep, o
          <6>2. 0 \in Nat /\ 2 * (z - m) + 1 = 2 * 0 + 1
            BY <5>2
          <6>3. n <= PowerOfHalves(m, 2 * 0 + 1)
            BY <6>1, <6>2, StepEnds
          <6>4. r = PowerOfHalves(m, 2 * 0 + 1)
            BY <1>1, <5>2, <6>2
          <6> HIDE DEF r
          <6> QED BY <6>3, <6>4
        <5> QED BY <3>1, <4>1, <5>1, <5>2
      <4> HIDE DEF l, r
      <4> QED BY <4>1, <4>2, <4>3
    <3>2. CASE n > m
      <4> DEFINE k == Log(m, n)
      <4>1. k \in Nat \ {0} /\ Rounds(m, m, n, k) /\ z = k + m
        BY <2>4, <3>2, LogBeyond, EncodeLarge
      <4> HIDE DEF k
      <4>2. z - m = k /\ y - m = k - 1 /\ ~(z < m) /\ ~(y < m) /\ k - 1 \in Nat /\ k \in Nat
        BY <4>1
      <4>3. r = PowerOfHalves(m, 2 * k + 1) /\ l = PowerOfHalves(m, 2 * (k - 1) + 1)
        BY <1>1, <2>3, <4>2
      <4>4. BelowStep(m, m, n, k) /\ ~BelowStep(m, m, n, k - 1)
        BY <4>1 DEF Rounds
      <4>5. n <= PowerOfHalves(m, 2 * k + 1) /\ PowerOfHalves(m, 2 * (k - 1) + 1) <= n
        BY <4>2, <4>4, StepEnds
      <4> HIDE DEF l, r
      <4> QED BY <4>3, <4>5
    <3> QED BY <3>1, <3>2
  <2> HIDE DEF l, r
  <2> QED BY <1>1, <1>2, <2>3, <2>4 DEF l, r
<1> QED BY <1>3, <1>4

LEMMA Spread ==
  ASSUME NEW a \in Int, NEW b \in Int, a <= b
  PROVE  Max(a .. b) - Min(a .. b) + 1 = b - a + 1 /\ a .. b # {}
<1>1. a \in a .. b /\ b \in a .. b
  OBVIOUS
<1>2. Max(a .. b) \in a .. b /\ \A y \in a .. b : Max(a .. b) >= y
  <2>1. \E x \in a .. b : \A y \in a .. b : x >= y
    BY <1>1
  <2> QED BY <2>1, Zenon DEF Max
<1>3. Min(a .. b) \in a .. b /\ \A y \in a .. b : Min(a .. b) <= y
  <2>1. \E x \in a .. b : \A y \in a .. b : x <= y
    BY <1>1
  <2> QED BY <2>1, Zenon DEF Min
<1>4. Max(a .. b) = b /\ Min(a .. b) = a
  BY <1>1, <1>2, <1>3
<1> QED BY <1>1, <1>4

\* The values of the bucket z are those from a to b.
BucketBetween(m, largest, z, a, b) ==
  /\ a <= b /\ b <= largest
  /\ \A n \in Nat : Encode(m, n) = z <=> n \in a .. b

LEMMA BucketRow ==
  ASSUME NEW m \in Nat \ {0}, NEW largest \in Nat, NEW z \in Nat, NEW v \in Nat,
         Encode(m, v) = z, z < Encode(m, largest)
  PROVE  \E a, b \in Nat : BucketBetween(m, largest, z, a, b)
<1> DEFINE T == {n \in Nat : Encode(m, n) = z}
<1>1. ASSUME NEW n \in T PROVE n \in 0 .. largest
  <2> SUFFICES ASSUME largest < n PROVE FALSE
    BY DEF T
  <2>1. n \in Nat /\ largest <= n /\ Encode(m, n) = z
    OBVIOUS
  <2>2. Encode(m, largest) <= Encode(m, n)
    BY <2>1, EncodeOrdered
  <2>3. Encode(m, largest) \in Nat
    BY EncodeType
  <2> QED BY <2>1, <2>2, <2>3
<1>2. T # {} /\ T \in SUBSET (0 .. largest) /\ T \in SUBSET Nat
  <2>1. v \in T /\ T \in SUBSET Nat
    OBVIOUS
  <2> HIDE DEF T
  <2> QED BY <1>1, <2>1
<1>3. PICK a \in T : \A n \in T : a <= n
  <2> HIDE DEF T
  <2> QED BY <1>2, LeastNat
<1>4. PICK b \in T : \A n \in T : b >= n
  <2> HIDE DEF T
  <2> QED BY <1>2, LargestNat
<1>5. a \in Nat /\ b \in Nat /\ a <= b /\ b <= largest /\ Encode(m, a) = z /\ Encode(m, b) = z
  <2>1. a \in Nat /\ b \in Nat /\ Encode(m, a) = z /\ Encode(m, b) = z
    OBVIOUS
  <2>2. b \in 0 .. largest /\ a <= b
    <3> HIDE DEF T
    <3> QED BY <1>1, <1>3
  <2> QED BY <2>1, <2>2
<1>6. ASSUME NEW n \in Nat PROVE Encode(m, n) = z <=> n \in a .. b
  <2>1. ASSUME Encode(m, n) = z PROVE n \in a .. b
    <3>1. n \in T
      BY <2>1
    <3>2. a <= n /\ b >= n
      <4> HIDE DEF T
      <4> QED BY <1>3, <1>4, <3>1
    <3> QED BY <1>5, <3>2
  <2>2. ASSUME n \in a .. b PROVE Encode(m, n) = z
    <3>1. a <= n /\ n <= b
      BY <1>5, <2>2
    <3>2. Encode(m, a) <= Encode(m, n) /\ Encode(m, n) <= Encode(m, b)
      BY <1>5, <3>1, EncodeOrdered
    <3>3. Encode(m, n) \in Nat
      BY EncodeType
    <3> QED BY <1>5, <3>2, <3>3
  <2> QED BY <2>1, <2>2
<1> QED BY <1>5, <1>6 DEF BucketBetween

LEMMA BucketIs ==
  ASSUME NEW m \in Nat \ {0}, NEW largest \in Nat, NEW z \in Nat, NEW v \in Nat,
         Encode(m, v) = z, z < Encode(m, largest)
  PROVE  /\ BucketSize(m, z) = Cardinality({n \in 0 .. largest : Encode(m, n) = z})
         /\ BucketSize(m, -z) = Cardinality({n \in 0 .. largest : Encode(m, n) = z})
<1> DEFINE l == DecodeHalves(m, 2 * z - 1)
           r == DecodeHalves(m, 2 * z + 1)
<1> PICK a \in Nat, b \in Nat : BucketBetween(m, largest, z, a, b)
  BY BucketRow
<1>1. /\ a <= b /\ b <= largest
      /\ \A n \in Nat : Encode(m, n) = z <=> n \in a .. b
  BY DEF BucketBetween
<1>2. /\ l \in Int /\ r \in Int
      /\ DecodeHalves(m, 2 * (-z) - 1) = -r
      /\ DecodeHalves(m, 2 * (-z) + 1) = -l
      /\ \A n \in Nat : Encode(m, n) = z => l <= n /\ n <= r
  BY EndsAre
<1>3. {n \in 0 .. largest : Encode(m, n) = z} = a .. b
  <2>1. ASSUME NEW n \in Int
        PROVE  n \in a .. b <=> n \in 0 .. largest /\ Encode(m, n) = z
    BY <1>1
  <2>2. \A n \in a .. b : n \in Int
    OBVIOUS
  <2> QED BY <2>1, <2>2
<1>4. ASSUME NEW n \in Nat, n # 0 PROVE Encode(m, n) > 0
  <2>1. Encode(m, n) \in Nat /\ (n <= m => Encode(m, n) = n) /\ (n > m => Encode(m, n) > m)
    BY EncodeType
  <2> QED BY <1>4, <2>1
<1>5. \A n \in Nat : Encode(m, n) \in Nat
  BY EncodeType
<1>6. \A n \in Nat : Encode(m, -n) = -Encode(m, n)
  BY EncodeMirrored
<1> HIDE DEF l, r
<1>7. {n \in l .. r : Encode(m, n) = z} = a .. b
  <2>1. ASSUME NEW n \in Int
        PROVE  n \in a .. b <=> n \in l .. r /\ Encode(m, n) = z
    <3>1. CASE n \in Nat
      BY <1>1, <1>2, <3>1
    <3>2. CASE n < 0
      <4> DEFINE p == -n
      <4>1. p \in Nat /\ p # 0 /\ -p = n
        BY <3>2
      <4> HIDE DEF p
      <4>2. Encode(m, n) = -Encode(m, p) /\ Encode(m, p) > 0 /\ Encode(m, p) \in Nat
        BY <1>4, <1>5, <1>6, <4>1
      <4>3. Encode(m, n) < 0
        BY <4>2
      <4> QED BY <3>2, <4>3
    <3> QED BY <3>1, <3>2
  <2>2. \A n \in a .. b : n \in Int
    OBVIOUS
  <2>3. \A n \in l .. r : n \in Int
    BY <1>2
  <2> QED BY <2>1, <2>2, <2>3
<1>8. {n \in -r .. -l : Encode(m, n) = -z} = -b .. -a
  <2>1. ASSUME NEW n \in Int
        PROVE  n \in -b .. -a <=> n \in -r .. -l /\ Encode(m, n) = -z
    <3>1. CASE n > 0
      <4>1. n \in Nat /\ Encode(m, n) > 0
        BY <1>4, <3>1
      <4>2. Encode(m, n) # -z
        BY <1>5, <4>1
      <4> QED BY <1>1, <3>1, <4>2
    <3>2. CASE n <= 0
      <4> DEFINE p == -n
      <4>1. p \in Nat /\ -p = n
        BY <3>2
      <4> HIDE DEF p
      <4>2. Encode(m, n) = -Encode(m, p) /\ Encode(m, p) \in Nat
        BY <1>5, <1>6, <4>1
      <4>3. Encode(m, n) = -z <=> Encode(m, p) = z
        BY <4>2
      <4>4. Encode(m, p) = z <=> p \in a .. b
        BY <1>1, <4>1
      <4>5. Encode(m, p) = z => l <= p /\ p <= r
        BY <1>2, <4>1
      <4>6. p \in a .. b <=> n \in -b .. -a
        BY <4>1
      <4>7. l <= p /\ p <= r <=> n \in -r .. -l
        BY <1>2, <4>1
      <4> QED BY <4>3, <4>4, <4>5, <4>6, <4>7
    <3> QED BY <3>1, <3>2
  <2>2. \A n \in -b .. -a : n \in Int
    OBVIOUS
  <2>3. \A n \in -r .. -l : n \in Int
    BY <1>2
  <2> QED BY <2>1, <2>2, <2>3
<1>9. Cardinality(a .. b) = b - a + 1
  BY <1>1, FS_Interval
<1>10. BucketSize(m, z) = b - a + 1
  <2>1. a .. b # {} /\ Max(a .. b) - Min(a .. b) + 1 = b - a + 1
    <3>1. a \in Int /\ b \in Int /\ a <= b
      BY <1>1
    <3> QED BY <3>1, Spread
  <2>2. BucketSize(m, z) = Max(a .. b) - Min(a .. b) + 1
    BY <1>7, <2>1 DEF BucketSize, l, r
  <2> QED BY <2>1, <2>2
<1>11. BucketSize(m, -z) = b - a + 1
  <2>1. -b .. -a # {} /\ Max(-b .. -a) - Min(-b .. -a) + 1 = -a - (-b) + 1
    <3>1. -b \in Int /\ -a \in Int /\ -b <= -a
      BY <1>1
    <3> QED BY <3>1, Spread
  <2>2. BucketSize(m, -z) = Max(-b .. -a) - Min(-b .. -a) + 1
    BY <1>2, <1>8, <2>1 DEF BucketSize
  <2> QED BY <2>1, <2>2
<1> QED BY <1>3, <1>9, <1>10, <1>11

-----------------------------------------------------------------------------
(* A symbol and its neighbours.                                            *)

LEMMA NearAbove ==
  ASSUME NEW m \in Nat \ {0}, NEW zero \in Nat \ {0}, NEW v \in Nat, NEW k \in Nat,
         BelowStep(m, zero, v, k + 1)
  PROVE  v * v * Pow(m, 2 * k + 3) <= zero * zero * Pow(m + 1, 2 * k + 3)
<1> DEFINE p == Pow(m, 2 * k + 3)
           q == Pow(m + 1, 2 * k + 3)
<1>1. 2 * (k + 1) + 1 = 2 * k + 3 /\ 2 * k + 3 \in Nat /\ m \in Nat /\ m + 1 \in Nat
  OBVIOUS
<1>2. p \in Nat /\ q \in Nat
  BY <1>1, PowIs
<1>3. v * v * p < q * zero * zero
  BY <1>1 DEF BelowStep
<1> HIDE DEF p, q
<1>4. q * zero * zero = zero * zero * q /\ v * v * p \in Nat /\ zero * zero * q \in Nat
  BY <1>2
<1>5. v * v * p <= zero * zero * q
  BY <1>3, <1>4
<1> QED BY <1>5 DEF p, q

\* v * m^k * (m + 1) is at least zero * (m + 1)^k * m, squared, in what the two
\* powers leave for it.
LEMMA NearBelow ==
  ASSUME NEW m \in Nat \ {0}, NEW zero \in Nat \ {0}, NEW v \in Nat, zero <= v, NEW k \in Nat,
         k > 1 => ~BelowStep(m, zero, v, k - 2)
  PROVE  v * v * Pow(m, 2 * k) * Pow(m + 1, 3) >= zero * zero * Pow(m + 1, 2 * k) * Pow(m, 3)
<1> DEFINE n == m + 1
           x == v * v
           y == zero * zero
<1>1. /\ m \in Nat \ {0} /\ n \in Nat \ {0} /\ m \in Nat /\ n \in Nat
      /\ 3 \in Nat /\ 0 \in Nat /\ 1 \in Nat /\ 2 \in Nat
  OBVIOUS
<1>2. x \in Nat /\ y \in Nat /\ y <= x
  BY Products
<1>3. \A b \in Nat : /\ Pow(b, 0) = 1
                     /\ Pow(b, 0 + 1) = b * Pow(b, 0)
                     /\ Pow(b, 1 + 1) = b * Pow(b, 1)
                     /\ Pow(b, 2 + 1) = b * Pow(b, 2)
  <2> SUFFICES ASSUME NEW b \in Nat
               PROVE /\ Pow(b, 0) = 1
                     /\ Pow(b, 0 + 1) = b * Pow(b, 0)
                     /\ Pow(b, 1 + 1) = b * Pow(b, 1)
                     /\ Pow(b, 2 + 1) = b * Pow(b, 2)
    OBVIOUS
  <2>1. \A i \in Nat : Pow(b, i) \in Nat /\ Pow(b, 0) = 1 /\ Pow(b, i + 1) = b * Pow(b, i)
    BY PowIs
  <2>2. Pow(b, 0) = 1 /\ Pow(b, 0 + 1) = b * Pow(b, 0)
    BY <1>1, <2>1
  <2>3. Pow(b, 1 + 1) = b * Pow(b, 1)
    BY <1>1, <2>1
  <2>4. Pow(b, 2 + 1) = b * Pow(b, 2)
    BY <1>1, <2>1
  <2> QED BY <2>2, <2>3, <2>4
<1>4. \A b \in Nat : Pow(b, 0) = 1 /\ Pow(b, 2) = b * b /\ Pow(b, 3) = b * b * b
  <2>1. 0 + 1 = 1 /\ 1 + 1 = 2 /\ 2 + 1 = 3
    OBVIOUS
  <2>2. \A b \in Nat : b * 1 = b /\ b * (b * b) = b * b * b
    OBVIOUS
  <2>3. \A b \in Nat : Pow(b, 1) = b * 1 /\ Pow(b, 2) = b * Pow(b, 1) /\ Pow(b, 3) = b * Pow(b, 2)
    BY <1>3, <2>1
  <2> SUFFICES ASSUME NEW b \in Nat
               PROVE  Pow(b, 0) = 1 /\ Pow(b, 2) = b * b /\ Pow(b, 3) = b * b * b
    OBVIOUS
  <2>4. Pow(b, 1) = b
    BY <2>2, <2>3
  <2>5. Pow(b, 2) = b * b
    BY <2>3, <2>4
  <2>6. Pow(b, 3) = b * (b * b)
    BY <2>3, <2>5
  <2>7. Pow(b, 0) = 1
    BY <1>3
  <2> QED BY <2>2, <2>5, <2>6, <2>7
<1> HIDE DEF n, x, y
<1>5. CASE k = 0
  <2>1. Pow(m, 2 * k) = 1 /\ Pow(n, 2 * k) = 1 /\ Pow(m, 3) = m * m * m /\ Pow(n, 3) = n * n * n
    <3>1. 2 * k = 0
      BY <1>5
    <3> QED BY <1>1, <1>4, <3>1
  <2> DEFINE mmm == m * m * m
             nnn == n * n * n
  <2>2. mmm \in Nat /\ nnn \in Nat /\ mmm <= nnn
    <3>1. m <= n
      BY DEF n
    <3>2. m * m <= n * n /\ m * m \in Nat /\ n * n \in Nat
      BY <1>1, <3>1, Products
    <3> QED BY <1>1, <3>1, <3>2, Products
  <2> HIDE DEF mmm, nnn
  <2>3. y * mmm <= x * nnn
    BY <1>2, <2>2, Products
  <2>4. x * 1 * nnn = x * nnn /\ y * 1 * mmm = y * mmm /\ x * nnn \in Nat /\ y * mmm \in Nat
    BY <1>2, <2>2
  <2>5. x * 1 * nnn >= y * 1 * mmm
    BY <2>3, <2>4
  <2> QED BY <2>1, <2>5 DEF n, x, y, mmm, nnn
<1>6. CASE k = 1
  <2>1. Pow(m, 2 * k) = m * m /\ Pow(n, 2 * k) = n * n /\ Pow(m, 3) = m * m * m /\ Pow(n, 3) = n * n * n
    <3>1. 2 * k = 2
      BY <1>6
    <3> QED BY <1>1, <1>4, <3>1
  <2> DEFINE f == (m * m) * (n * n)
  <2>2. f \in Nat /\ m <= n
    BY <1>1 DEF n
  <2>3. f * m <= f * n /\ f * m \in Nat /\ f * n \in Nat
    <3> HIDE DEF f
    <3> QED BY <1>1, <2>2, Products
  <2>4. y * (f * m) <= x * (f * n) /\ y * (f * m) \in Nat /\ x * (f * n) \in Nat
    <3> DEFINE u == f * m
               w == f * n
    <3> HIDE DEF u, w
    <3>1. u \in Nat /\ w \in Nat /\ u <= w
      BY <2>3 DEF u, w
    <3>2. y * u <= x * w /\ y * u \in Nat /\ x * w \in Nat
      BY <1>2, <3>1, Products
    <3> QED BY <3>2 DEF u, w
  <2>5. x * (m * m) * (n * n * n) = x * (f * n) /\ y * (n * n) * (m * m * m) = y * (f * m)
    BY <1>1, <1>2
  <2>6. x * (m * m) * (n * n * n) >= y * (n * n) * (m * m * m)
    <3> HIDE DEF f
    <3> QED BY <2>4, <2>5
  <2> QED BY <2>1, <2>6 DEF n, x, y
<1>7. CASE k > 1
  <2> DEFINE j == k - 2
             p == Pow(m, 2 * j + 1)
             q == Pow(n, 2 * j + 1)
             c == Pow(m, 3)
             d == Pow(n, 3)
  <2>1. j \in Nat /\ 2 * j + 1 \in Nat /\ 2 * k = (2 * j + 1) + 3
    BY <1>7
  <2>2. ~(v * v * p < q * zero * zero)
    BY <1>7 DEF BelowStep, n
  <2>3. p \in Nat /\ q \in Nat /\ c \in Nat /\ d \in Nat
    BY <1>1, <2>1, PowIs
  <2>4. Pow(m, (2 * j + 1) + 3) = p * c /\ Pow(n, (2 * j + 1) + 3) = q * d
    <3> HIDE DEF j
    <3>1. Pow(m, (2 * j + 1) + 3) = p * c
      BY <1>1, <2>1, PowPlus
    <3>2. Pow(n, (2 * j + 1) + 3) = q * d
      BY <1>1, <2>1, PowPlus
    <3> QED BY <3>1, <3>2
  <2>5. Pow(m, 2 * k) = p * c /\ Pow(n, 2 * k) = q * d
    BY <2>1, <2>4
  <2> HIDE DEF p, q, c, d, j
  <2>6. q * zero * zero = y * q /\ y * q \in Nat /\ x * p \in Nat
    BY <1>2, <2>3 DEF y
  <2>7. y * q <= x * p
    BY <2>2, <2>6 DEF x
  <2>8. (y * q) * (c * d) <= (x * p) * (c * d) /\ c * d \in Nat
    <3> DEFINE e == c * d
    <3>1. e \in Nat
      BY <2>3
    <3> HIDE DEF e
    <3>2. (y * q) * e <= (x * p) * e
      BY <2>6, <2>7, <3>1, MultiplesOrdered
    <3> QED BY <3>1, <3>2 DEF e
  <2>9. x * (p * c) * d = (x * p) * (c * d) /\ y * (q * d) * c = (y * q) * (c * d)
    BY <1>2, <2>3
  <2>10. (y * q) * (c * d) \in Nat /\ (x * p) * (c * d) \in Nat
    BY <1>2, <2>3
  <2>11. x * (p * c) * d >= y * (q * d) * c
    BY <2>8, <2>9, <2>10
  <2>12. x * Pow(m, 2 * k) * Pow(n, 3) >= y * Pow(n, 2 * k) * Pow(m, 3)
    BY <2>5, <2>11 DEF c, d
  <2> QED BY <2>12 DEF n, x, y
<1> QED BY <1>5, <1>6, <1>7

LEMMA NearSymbol ==
  ASSUME NEW m \in Nat \ {0}, NEW zero \in Nat \ {0}, NEW v \in Nat, zero <= v,
         NEW k \in Nat, Rounds(m, zero, v, k), NEW j \in Nat, k - 1 <= j, j <= k + 1
  PROVE  NearLog(m, zero, v, j)
<1>1. BelowStep(m, zero, v, j + 1)
  <2>1. j + 1 \in Nat /\ k <= j + 1
    OBVIOUS
  <2>2. BelowStep(m, zero, v, k)
    BY DEF Rounds
  <2> QED BY <2>1, <2>2, BelowFrom
<1>2. j > 1 => ~BelowStep(m, zero, v, j - 2)
  <2> SUFFICES ASSUME j > 1, BelowStep(m, zero, v, j - 2) PROVE FALSE
    OBVIOUS
  <2>1. j - 2 \in Nat /\ k - 1 \in Nat /\ j - 2 <= k - 1 /\ k > 0
    OBVIOUS
  <2>2. BelowStep(m, zero, v, k - 1)
    BY <2>1, BelowFrom
  <2> QED BY <2>1, <2>2 DEF Rounds
<1>3. v * v * Pow(m, 2 * j + 3) <= zero * zero * Pow(m + 1, 2 * j + 3)
  BY <1>1, NearAbove
<1>4. v * v * Pow(m, 2 * j) * Pow(m + 1, 3) >= zero * zero * Pow(m + 1, 2 * j) * Pow(m, 3)
  BY <1>2, NearBelow
<1> QED BY <1>3, <1>4 DEF NearLog

LEMMA NearPart ==
  ASSUME NEW x \in Nat, NEW p \in Nat, NEW wide \in Nat \ {0}, NEW j \in Int,
         NEW q, q = (2 * x * p + wide) \div (2 * wide), q - 1 <= j, j <= q + 1
  PROVE  q \in Nat /\ 2 * Magnitude(x * p - j * wide) <= 3 * wide
<1> DEFINE y == 2 * x * p + wide
           s == 2 * wide
<1>1. y \in Nat /\ s \in Nat \ {0} /\ q = y \div s
  OBVIOUS
<1>2. q \in Nat /\ \A i \in Int : i <= q <=> i * s <= y
  <2> HIDE DEF y, s
  <2> QED BY <1>1, Quotient
<1>3. q * s <= y /\ ~((q + 1) * s <= y)
  BY <1>2
<1>4. q * s = 2 * (q * wide) /\ (q + 1) * s = 2 * (q * wide) + 2 * wide /\ 2 * x * p = 2 * (x * p)
  BY <1>2
<1>5. (q - 1) * wide <= j * wide /\ j * wide <= (q + 1) * wide
  <2>1. q - 1 \in Int /\ q + 1 \in Int /\ wide \in Nat
    BY <1>2
  <2> QED BY <2>1, MultiplesOrdered
<1>6. (q - 1) * wide = q * wide - wide /\ (q + 1) * wide = q * wide + wide
  BY <1>2
<1>7. q * wide \in Nat /\ j * wide \in Int /\ x * p \in Nat
  BY <1>2
<1> DEFINE a == q * wide
           b == j * wide
           c == x * p
<1>8. a \in Nat /\ b \in Int /\ c \in Nat
  BY <1>7
<1>9. 2 * a <= 2 * c + wide /\ ~(2 * a + 2 * wide <= 2 * c + wide) /\ a - wide <= b /\ b <= a + wide
  BY <1>3, <1>4, <1>5, <1>6
<1> HIDE DEF a, b, c, y, s
<1>10. 2 * Magnitude(c - b) <= 3 * wide
  BY <1>8, <1>9 DEF Magnitude
<1> QED BY <1>2, <1>10 DEF b, c

-----------------------------------------------------------------------------
(* Columns and their symbols.                                              *)

\* The values of a sequence have a least and a greatest.
LEMMA Extremes ==
  ASSUME NEW n \in Nat \ {0}, NEW f \in [1 .. n -> Nat]
  PROVE  /\ Min(Range(f)) \in Range(f) /\ \A i \in 1 .. n : Min(Range(f)) <= f[i]
         /\ Max(Range(f)) \in Range(f) /\ \A i \in 1 .. n : f[i] <= Max(Range(f))
         /\ Range(f) \in SUBSET Nat
         /\ \A i \in 1 .. n : f[i] \in Range(f)
<1> DEFINE S == Range(f)
           T == {k \in Nat : k <= n /\ k > 0 => \E i \in 1 .. k : \A j \in 1 .. k : f[j] <= f[i]}
<1>1. S \in SUBSET Nat /\ \A i \in 1 .. n : f[i] \in S
  BY DEF Range
<1>2. \A y \in S : \E i \in 1 .. n : y = f[i]
  BY DEF Range
<1>3. 0 \in T
  OBVIOUS
<1>4. ASSUME NEW k \in T PROVE k + 1 \in T
  <2> SUFFICES ASSUME k + 1 <= n PROVE \E i \in 1 .. k + 1 : \A j \in 1 .. k + 1 : f[j] <= f[i]
    <3>1. k + 1 \in Nat
      OBVIOUS
    <3>2. k + 1 > n \/ k + 1 <= n
      BY <3>1
    <3> QED BY <3>1, <3>2, Zenon
  <2>1. CASE k = 0
    <3>1. 1 \in 1 .. k + 1 /\ \A j \in 1 .. k + 1 : j = 1
      BY <2>1
    <3>2. f[1] <= f[1]
      <4>1. 1 \in 1 .. n
        OBVIOUS
      <4> QED BY <4>1
    <3> QED BY <3>1, <3>2
  <2>2. CASE k # 0
    <3>1. k \in Nat /\ k <= n /\ k > 0
      BY <2>2
    <3>2. PICK i \in 1 .. k : \A j \in 1 .. k : f[j] <= f[i]
      BY <3>1
    <3>3. f[i] \in Nat /\ f[k + 1] \in Nat /\ i \in 1 .. k + 1 /\ k + 1 \in 1 .. k + 1
      BY <3>1
    <3>4. \A j \in 1 .. k + 1 : f[j] \in Nat /\ (j = k + 1 \/ j \in 1 .. k)
      BY <3>1
    <3>5. CASE f[k + 1] <= f[i]
      BY <3>2, <3>3, <3>4, <3>5
    <3>6. CASE f[i] <= f[k + 1]
      <4>1. ASSUME NEW j \in 1 .. k + 1 PROVE f[j] <= f[k + 1]
        <5>1. CASE j = k + 1
          BY <3>3, <5>1
        <5>2. CASE j \in 1 .. k
          <6>1. f[j] <= f[i] /\ f[j] \in Nat
            BY <3>2, <3>4, <5>2
          <6> QED BY <3>3, <3>6, <6>1
        <5> QED BY <3>4, <5>1, <5>2
      <4> QED BY <3>3, <4>1
    <3> QED BY <3>3, <3>5, <3>6
  <2> QED BY <2>1, <2>2
<1>5. T = Nat
  <2>1. T \in SUBSET Nat
    OBVIOUS
  <2> HIDE DEF T
  <2> QED BY <1>3, <1>4, <2>1, SetInduction
<1>6. PICK i \in 1 .. n : \A j \in 1 .. n : f[j] <= f[i]
  <2>1. n \in T
    BY <1>5
  <2> QED BY <2>1
<1> HIDE DEF S, T
<1>7. Max(S) \in S /\ \A y \in S : Max(S) >= y
  <2>1. f[i] \in S
    BY <1>1
  <2>2. ASSUME NEW y \in S PROVE f[i] >= y
    <3>1. PICK j \in 1 .. n : y = f[j]
      BY <1>2
    <3>2. f[j] <= f[i] /\ f[j] \in Nat /\ f[i] \in Nat
      BY <1>6
    <3> QED BY <3>1, <3>2
  <2>3. \E x \in S : \A y \in S : x >= y
    BY <2>1, <2>2
  <2> QED BY <2>3, Zenon DEF Max
<1>8. Min(S) \in S /\ \A y \in S : Min(S) <= y
  <2>1. \E x \in S : \A y \in S : x <= y
    <3>1. S # {}
      BY <1>1
    <3> QED BY <1>1, <3>1, LeastNat
  <2> QED BY <2>1, Zenon DEF Min
<1>9. ASSUME NEW j \in 1 .. n PROVE f[j] <= Max(S) /\ Min(S) <= f[j]
  <2>1. f[j] \in S /\ f[j] \in Nat
    BY <1>1
  <2>2. Max(S) >= f[j] /\ Max(S) \in Nat /\ Min(S) <= f[j]
    BY <1>1, <1>7, <1>8, <2>1
  <2> QED BY <2>1, <2>2
<1> QED BY <1>1, <1>7, <1>8, <1>9 DEF S

LEMMA ColumnEnds ==
  ASSUME NEW data \in Columns
  PROVE  /\ Least(data) \in Nat \ {0} /\ Greatest(data) \in Nat
         /\ Len(data) \in Nat \ {0} /\ DOMAIN data = 1 .. Len(data)
         /\ data \in [1 .. Len(data) -> Nat]
         /\ \A i \in DOMAIN data :
              /\ data[i] \in Nat \ {0}
              /\ Least(data) <= data[i] /\ data[i] <= Greatest(data)
<1>1. data \in Seq(Nat \ {0}) /\ data # <<>>
  BY PrecisionAssumption
<1>2. Len(data) \in Nat \ {0} /\ DOMAIN data = 1 .. Len(data) /\ data \in [1 .. Len(data) -> Nat \ {0}]
  BY <1>1
<1>3. data \in [1 .. Len(data) -> Nat]
  BY <1>2
<1> DEFINE n == Len(data)
<1> HIDE DEF n
<1>4. n \in Nat \ {0} /\ data \in [1 .. n -> Nat]
  BY <1>2, <1>3 DEF n
<1>5. /\ Least(data) \in Range(data) /\ \A i \in 1 .. n : Least(data) <= data[i]
      /\ Greatest(data) \in Range(data) /\ \A i \in 1 .. n : data[i] <= Greatest(data)
  BY <1>4, Extremes DEF Least, Greatest
<1>6. \A y \in Range(data) : y \in Nat \ {0}
  BY <1>2 DEF Range
<1>7. \A i \in 1 .. n : data[i] \in Nat \ {0}
  BY <1>2 DEF n
<1>8. Least(data) \in Nat \ {0} /\ Greatest(data) \in Nat
  BY <1>5, <1>6
<1> QED BY <1>2, <1>3, <1>5, <1>7, <1>8 DEF n

LEMMA LogSymbolsAre ==
  ASSUME NEW m \in Nat \ {0}, NEW data \in Columns
  PROVE  /\ LogSymbols(m, data) \in [1 .. Len(data) -> Nat]
         /\ \A i \in 1 .. Len(data) : Rounds(m, Least(data), data[i], LogSymbols(m, data)[i])
<1>1. /\ DOMAIN data = 1 .. Len(data)
      /\ Least(data) \in Nat \ {0}
      /\ \A i \in 1 .. Len(data) : data[i] \in Nat \ {0}
  BY ColumnEnds
<1>2. ASSUME NEW i \in 1 .. Len(data)
      PROVE  /\ LogOver(m, Least(data), data[i]) \in Nat
             /\ Rounds(m, Least(data), data[i], LogOver(m, Least(data), data[i]))
  <2>1. data[i] \in Nat \ {0}
    BY <1>1
  <2> QED BY <1>1, <2>1, LogIs
<1>3. LogSymbols(m, data) = [i \in 1 .. Len(data) |-> LogOver(m, Least(data), data[i])]
  BY <1>1 DEF LogSymbols
<1>4. \A i \in 1 .. Len(data) : LogSymbols(m, data)[i] = LogOver(m, Least(data), data[i])
  BY <1>3
<1> QED BY <1>2, <1>3, <1>4

\* What the symbol j says of v is off by no more than a step and a half.
NearPartOf(p, data, v, j) ==
  LET wide == Greatest(data) - Least(data) IN
  2 * Magnitude((v - Least(data)) * p - j * wide) <= 3 * wide

LEMMA LinearSymbolsAre ==
  ASSUME NEW p \in Nat, NEW data \in Columns
  PROVE  /\ LinearSymbols(p, data) \in [1 .. Len(data) -> Nat]
         /\ \A i \in 1 .. Len(data) : \A j \in Int :
              LinearSymbols(p, data)[i] - 1 <= j /\ j <= LinearSymbols(p, data)[i] + 1
                => NearPartOf(p, data, data[i], j)
<1> DEFINE l == Least(data)
           wide == Greatest(data) - l
           F(i) == IF wide = 0 THEN 0 ELSE (2 * (data[i] - l) * p + wide) \div (2 * wide)
<1>1. /\ DOMAIN data = 1 .. Len(data)
      /\ l \in Nat \ {0} /\ Greatest(data) \in Nat
      /\ \A i \in 1 .. Len(data) : data[i] \in Nat \ {0} /\ l <= data[i] /\ data[i] <= Greatest(data)
      /\ 1 \in 1 .. Len(data)
  BY ColumnEnds
<1>2. wide \in Nat
  <2>1. data[1] \in Nat /\ l <= data[1] /\ data[1] <= Greatest(data)
    BY <1>1
  <2> QED BY <1>1, <2>1
<1>3. LinearSymbols(p, data) = [i \in 1 .. Len(data) |-> F(i)]
  BY <1>1 DEF LinearSymbols
<1>4. ASSUME NEW i \in 1 .. Len(data), NEW j \in Int, F(i) - 1 <= j, j <= F(i) + 1
      PROVE  2 * Magnitude((data[i] - l) * p - j * wide) <= 3 * wide
  <2> DEFINE x == data[i] - l
  <2>1. x \in Nat /\ x <= wide
    BY <1>1
  <2>2. CASE wide = 0
    <3>1. x = 0
      BY <2>1, <2>2
    <3>2. x * p - j * wide = 0
      <4> HIDE DEF x, wide
      <4> QED BY <2>2, <3>1
    <3>3. Magnitude(x * p - j * wide) = 0
      <4> HIDE DEF x, wide
      <4> QED BY <3>2 DEF Magnitude
    <3> HIDE DEF wide
    <3> QED BY <2>2, <3>3
  <2>3. CASE wide # 0
    <3> DEFINE q == (2 * x * p + wide) \div (2 * wide)
    <3>1. q - 1 <= j /\ j <= q + 1
      BY <1>4, <2>3
    <3>2. wide \in Nat \ {0}
      BY <1>2, <2>3
    <3> HIDE DEF x, wide
    <3>3. 2 * Magnitude(x * p - j * wide) <= 3 * wide
      BY <2>1, <3>1, <3>2, NearPart
    <3> QED BY <3>3 DEF x
  <2> QED BY <2>2, <2>3
<1>5. ASSUME NEW i \in 1 .. Len(data) PROVE F(i) \in Nat
  <2> DEFINE x == data[i] - l
  <2>1. x \in Nat
    BY <1>1
  <2>2. CASE wide = 0
    BY <2>2
  <2>3. CASE wide # 0
    <3>1. F(i) = (2 * x * p + wide) \div (2 * wide)
      BY <2>3
    <3>2. wide \in Nat \ {0}
      BY <1>2, <2>3
    <3> HIDE DEF x, wide
    <3>3. 2 * x * p + wide \in Nat /\ 2 * wide \in Nat \ {0}
      BY <2>1, <3>2
    <3>4. (2 * x * p + wide) \div (2 * wide) \in Nat
      BY <3>3, Quotient
    <3> QED BY <3>1, <3>4
  <2> QED BY <2>2, <2>3
<1> HIDE DEF F
<1>6. \A i \in 1 .. Len(data) : LinearSymbols(p, data)[i] = F(i)
  BY <1>3
<1>7. LinearSymbols(p, data) \in [1 .. Len(data) -> Nat]
  BY <1>3, <1>5
<1>8. ASSUME NEW i \in 1 .. Len(data), NEW j \in Int,
             LinearSymbols(p, data)[i] - 1 <= j, j <= LinearSymbols(p, data)[i] + 1
      PROVE  NearPartOf(p, data, data[i], j)
  BY <1>4, <1>6, <1>8 DEF NearPartOf
<1> QED BY <1>7, <1>8

-----------------------------------------------------------------------------
(* The bits of a symbol.                                                   *)

LEMMA PowOrdered ==
  ASSUME NEW b \in Nat \ {0}, NEW i \in Nat, NEW j \in Nat, i <= j
  PROVE  Pow(b, i) <= Pow(b, j)
<1> DEFINE d == j - i
           p == Pow(b, i)
           q == Pow(b, d)
<1>1. d \in Nat /\ i + d = j /\ b \in Nat
  OBVIOUS
<1> HIDE DEF d
<1>2. Pow(b, i + d) = p * q /\ p \in Nat \ {0} /\ q \in Nat \ {0}
  BY <1>1, PowPlus, PowPositive
<1> HIDE DEF p, q
<1>3. p * 1 <= p * q
  <2>1. 1 \in Nat /\ 1 <= q
    BY <1>2
  <2> QED BY <1>2, <2>1, Products
<1>4. p * 1 = p
  BY <1>2
<1> QED BY <1>1, <1>2, <1>3, <1>4 DEF p

LEMMA BitsIs ==
  ASSUME NEW g \in Nat
  PROVE  /\ Bits(g) \in 0 .. g
         /\ Pow(2, Bits(g)) \in Nat \ {0}
         /\ Pow(2, Bits(g)) >= g
         /\ Bits(g) > 0 => Pow(2, Bits(g) - 1) < g
<1> DEFINE T == {b \in Nat : Pow(2, b) >= g}
<1>1. \A b \in Nat : Pow(2, b) \in Nat \ {0}
  <2>1. 2 \in Nat \ {0}
    OBVIOUS
  <2> QED BY <2>1, PowPositive
<1>2. g \in T
  <2> DEFINE o == 1
  <2>1. o \in Nat \ {0} /\ o + 1 = 2
    OBVIOUS
  <2> HIDE DEF o
  <2>2. Pow(o, g) * (o + g) <= Pow(o + 1, g) * o /\ Pow(o, g) \in Nat \ {0}
    BY <2>1, Bernoulli, PowPositive
  <2> DEFINE p == Pow(o, g)
             t == Pow(2, g)
  <2>3. p \in Nat \ {0} /\ t \in Nat /\ p * (o + g) <= t * o
    BY <1>1, <2>1, <2>2
  <2> HIDE DEF p, t
  <2>4. p * (1 + g) = p + p * g /\ t * 1 = t
    BY <2>3
  <2>5. 1 * g <= p * g /\ p * g \in Nat
    <3>1. 1 \in Nat /\ 1 <= p
      BY <2>3
    <3> QED BY <2>3, <3>1, MultiplesOrdered
  <2>6. p + p * g <= t
    BY <2>3, <2>4 DEF o
  <2>7. g <= t
    BY <2>3, <2>5, <2>6
  <2> QED BY <2>3, <2>7 DEF t
<1>3. PICK b \in T : \A i \in T : b <= i
  <2>1. T \in SUBSET Nat
    OBVIOUS
  <2> HIDE DEF T
  <2> QED BY <1>2, <2>1, LeastNat
<1>4. b \in Nat /\ Pow(2, b) >= g /\ b <= g
  BY <1>2, <1>3
<1>5. b > 0 => Pow(2, b - 1) < g
  <2> SUFFICES ASSUME b > 0 PROVE Pow(2, b - 1) < g
    OBVIOUS
  <2>1. b - 1 \in Nat /\ ~(b <= b - 1)
    BY <1>4
  <2>2. b - 1 \notin T
    BY <1>3, <2>1
  <2>3. ~(Pow(2, b - 1) >= g) /\ Pow(2, b - 1) \in Nat
    BY <1>1, <2>1, <2>2
  <2> QED BY <2>3
<1>6. b \in 0 .. g
  BY <1>4
<1>7. /\ Bits(g) \in 0 .. g
      /\ Pow(2, Bits(g)) >= g
      /\ Bits(g) > 0 => Pow(2, Bits(g) - 1) < g
  <2> HIDE DEF T
  <2> QED BY <1>4, <1>5, <1>6 DEF Bits
<1>8. Bits(g) \in Nat
  BY <1>7
<1> QED BY <1>1, <1>7, <1>8

\* What is lost when the symbols up to g are serialized.
Lost(g) == {Pow(2, b) : b \in 0 .. g} \cap {g}

LEMMA ModuloIs ==
  ASSUME NEW s \in Nat, NEW t \in Nat \ {0}
  PROVE  (s < t => s % t = s) /\ (s = t => s % t = 0)
<1>1. t \in Nat /\ t > 0
  OBVIOUS
<1>2. ASSUME s < t PROVE s % t = s
  BY <1>1, <1>2
<1>3. ASSUME s = t PROVE s % t = 0
  BY <1>1, <1>3
<1> QED BY <1>2, <1>3

LEMMA BitsKeep ==
  ASSUME NEW g \in Nat, NEW s \in Nat, s <= g
  PROVE  s % Pow(2, Bits(g)) = IF s \in Lost(g) THEN 0 ELSE s
<1> DEFINE b == Bits(g)
           t == Pow(2, b)
<1>1. b \in 0 .. g /\ t \in Nat \ {0} /\ t >= g /\ (b > 0 => Pow(2, b - 1) < g)
  BY BitsIs
<1>2. b \in Nat
  BY <1>1
<1>3. \A i, j \in Nat : i <= j => Pow(2, i) <= Pow(2, j)
  <2>1. 2 \in Nat \ {0}
    OBVIOUS
  <2> QED BY <2>1, PowOrdered
<1>4. \A i \in Nat : Pow(2, i) \in Nat \ {0}
  <2>1. 2 \in Nat \ {0}
    OBVIOUS
  <2> QED BY <2>1, PowPositive
<1>5. (s < t => s % t = s) /\ (s = t => s % t = 0)
  <2> HIDE DEF t
  <2> QED BY <1>1, ModuloIs
<1> HIDE DEF b
<1>6. CASE s = t
  <2>1. s = g /\ s = Pow(2, b)
    BY <1>1, <1>6
  <2>2. s \in Lost(g)
    BY <1>1, <2>1 DEF Lost
  <2> QED BY <1>5, <1>6, <2>2 DEF b
<1>7. CASE s < t
  <2>1. s \notin Lost(g)
    <3> SUFFICES ASSUME s \in Lost(g) PROVE FALSE
      OBVIOUS
    <3>1. PICK c \in 0 .. g : s = Pow(2, c)
      BY DEF Lost
    <3>2. s = g /\ c \in Nat
      BY DEF Lost
    <3>3. CASE b = 0
      <4>1. 0 <= c /\ 0 \in Nat
        BY <3>2
      <4>2. Pow(2, b) <= Pow(2, c)
        BY <1>2, <1>3, <3>2, <3>3, <4>1
      <4>3. Pow(2, c) \in Nat
        BY <1>4, <3>2
      <4> QED BY <1>1, <1>7, <3>1, <4>2, <4>3
    <3>4. CASE b > 0
      <4>1. b - 1 \in Nat /\ Pow(2, b - 1) < Pow(2, c)
        BY <1>1, <1>2, <3>1, <3>2, <3>4
      <4>2. Pow(2, b - 1) \in Nat /\ Pow(2, c) \in Nat
        BY <1>4, <3>2, <4>1
      <4>3. ~(c <= b - 1)
        BY <1>3, <3>2, <4>1, <4>2
      <4>4. b <= c
        BY <1>2, <3>2, <4>3
      <4>5. Pow(2, b) <= Pow(2, c)
        BY <1>2, <1>3, <3>2, <4>4
      <4> QED BY <1>1, <1>7, <3>1, <4>2, <4>5
    <3> QED BY <1>2, <3>3, <3>4
  <2> QED BY <1>5, <1>7, <2>1 DEF b
<1>8. s <= t
  BY <1>1
<1> QED BY <1>1, <1>6, <1>7, <1>8

LEMMA PackedBack ==
  ASSUME NEW n \in Nat \ {0}, NEW s \in [1 .. n -> Nat]
  PROVE  Packed(s) = [i \in DOMAIN s |-> IF s[i] \in Lost(Greatest(s)) THEN 0 ELSE s[i]]
<1> DEFINE g == Greatest(s)
<1>1. g \in Nat /\ \A i \in 1 .. n : s[i] <= g
  <2>1. Max(Range(s)) \in Range(s) /\ Range(s) \in SUBSET Nat /\ \A i \in 1 .. n : s[i] <= Max(Range(s))
    BY Extremes
  <2> QED BY <2>1 DEF Greatest
<1>2. Packed(s) = [i \in DOMAIN s |-> s[i] % Pow(2, Bits(g))]
  BY DEF Packed
<1> HIDE DEF g
<1>3. DOMAIN s = 1 .. n
  OBVIOUS
<1>4. ASSUME NEW i \in 1 .. n
      PROVE  s[i] % Pow(2, Bits(g)) = IF s[i] \in Lost(g) THEN 0 ELSE s[i]
  <2>1. s[i] \in Nat /\ s[i] <= g
    BY <1>1
  <2> QED BY <1>1, <2>1, BitsKeep
<1>5. [i \in DOMAIN s |-> s[i] % Pow(2, Bits(g))] = [i \in DOMAIN s |-> IF s[i] \in Lost(g) THEN 0 ELSE s[i]]
  BY <1>3, <1>4
<1> QED BY <1>2, <1>5 DEF g

-----------------------------------------------------------------------------
(* The weights of HuffmanU64.                                              *)

LEMMA CountsAre ==
  ASSUME NEW n \in Nat \ {0}, NEW s \in [1 .. n -> Nat]
  PROVE  Counts(s) \in [Range(s) -> Nat \ {0}]
<1>1. ASSUME NEW k \in Range(s)
      PROVE  Cardinality({i \in DOMAIN s : s[i] = k}) \in Nat \ {0}
  <2> DEFINE places == {i \in DOMAIN s : s[i] = k}
  <2>1. PICK i \in 1 .. n : s[i] = k
    BY DEF Range
  <2>2. i \in places /\ places \in SUBSET (1 .. n)
    BY <2>1
  <2> HIDE DEF places
  <2>3. IsFiniteSet(1 .. n)
    BY FS_Interval
  <2>4. IsFiniteSet(places)
    BY <2>2, <2>3, FS_Subset
  <2>5. Cardinality(places) \in Nat
    BY <2>4, FS_CardinalityType
  <2>6. Cardinality(places) # 0
    BY <2>2, <2>4, FS_EmptySet
  <2> QED BY <2>5, <2>6 DEF places
<1> QED BY <1>1 DEF Counts

\* None of them becomes zero.
LEMMA ScaledAre ==
  ASSUME NEW n \in Nat \ {0}, NEW s \in [1 .. n -> Nat], NEW w \in [Range(s) -> Nat \ {0}]
  PROVE  Scaled(w) \in [Range(s) -> Nat \ {0}]
<1> DEFINE f == [i \in 1 .. n |-> w[s[i]]]
           q == Max(Range(w)) \div MaxCount
<1>1. \A i \in 1 .. n : s[i] \in Range(s)
  BY DEF Range
<1>2. f \in [1 .. n -> Nat]
  BY <1>1
<1>3. Range(f) = Range(w)
  <2>1. ASSUME NEW y \in Range(f) PROVE y \in Range(w)
    <3>1. PICK i \in 1 .. n : y = f[i]
      BY DEF Range
    <3>2. s[i] \in DOMAIN w /\ y = w[s[i]]
      BY <1>1, <3>1
    <3> QED BY <3>2 DEF Range
  <2>2. ASSUME NEW y \in Range(w) PROVE y \in Range(f)
    <3>1. PICK k \in Range(s) : y = w[k]
      BY DEF Range
    <3>2. PICK i \in 1 .. n : k = s[i]
      BY DEF Range
    <3>3. i \in DOMAIN f /\ y = f[i]
      BY <3>1, <3>2
    <3> HIDE DEF f
    <3> QED BY <3>3 DEF Range
  <2> HIDE DEF f
  <2> QED BY <2>1, <2>2
<1>4. Max(Range(w)) \in Nat
  <2> HIDE DEF f
  <2>1. Max(Range(f)) \in Range(f) /\ Range(f) \in SUBSET Nat
    BY <1>2, Extremes
  <2> QED BY <1>3, <2>1
<1>5. q \in Nat
  <2> DEFINE x == Max(Range(w))
  <2>1. x \in Nat
    BY <1>4
  <2> HIDE DEF x
  <2>2. x \div MaxCount \in Nat
    <3>1. MaxCount \in Nat \ {0}
      BY CountAssumption
    <3> QED BY <2>1, <3>1, Quotient
  <2> QED BY <2>2 DEF x
<1> HIDE DEF f
<1>6. CASE q > 1
  <2>1. Scaled(w) = [k \in Range(s) |-> (w[k] + q - 1) \div q]
    BY <1>6 DEF Scaled
  <2> HIDE DEF q
  <2>2. ASSUME NEW k \in Range(s) PROVE (w[k] + q - 1) \div q \in Nat \ {0}
    <3> DEFINE x == w[k] + q - 1
    <3>1. w[k] \in Nat \ {0}
      OBVIOUS
    <3>2. x \in Nat /\ q \in Nat \ {0} /\ 1 * q <= x /\ 1 \in Int
      BY <1>5, <1>6, <3>1
    <3> HIDE DEF x
    <3>3. x \div q \in Nat /\ (1 <= x \div q <=> 1 * q <= x)
      BY <3>2, Quotient
    <3>4. x \div q \in Nat \ {0}
      BY <3>2, <3>3
    <3> QED BY <3>4 DEF x
  <2> QED BY <2>1, <2>2
<1>7. CASE ~(q > 1)
  BY <1>7 DEF Scaled
<1> QED BY <1>6, <1>7

-----------------------------------------------------------------------------
(* Symbols that share the code of another. S is the set of the symbols, w  *)
(* their weights, ks those still to look at, t who shares.                 *)

Sharing(S, w, ks, t) ==
  /\ w \in [S -> Nat]
  /\ ks \in SUBSET S
  /\ DOMAIN t \in SUBSET (S \ ks)
  /\ t = [k \in DOMAIN t |-> t[k]]
  /\ \A k \in S : w[k] = 0 <=> k \in DOMAIN t
  /\ \A k \in DOMAIN t : /\ t[k] \in S \ DOMAIN t
                         /\ t[k] = k - 1 \/ t[k] = k + 1
                         /\ w[t[k]] >= 2

LEMMA SharingBegins ==
  ASSUME NEW S, NEW w \in [S -> Nat \ {0}]
  PROVE  Sharing(S, w, S, <<>>)
<1>1. DOMAIN <<>> = {} /\ <<>> = [k \in {} |-> <<>>[k]]
  OBVIOUS
<1>2. w \in [S -> Nat] /\ \A k \in S : w[k] # 0
  OBVIOUS
<1> DEFINE t == <<>>
<1>3. DOMAIN t = {} /\ t = [k \in DOMAIN t |-> t[k]]
  BY <1>1
<1> HIDE DEF t
<1>4. Sharing(S, w, S, t)
  BY <1>2, <1>3 DEF Sharing
<1> QED BY <1>4 DEF t

\* A symbol that is not taken.
LEMMA SharingPasses ==
  ASSUME NEW S, NEW w, NEW ks, NEW t, Sharing(S, w, ks, t), NEW k \in ks
  PROVE  Sharing(S, w, ks \ {k}, t)
BY DEF Sharing

\* dk takes k, which leaves the weights v and the symbols u that share.
Takes(dk, k, w, t, v, u) ==
  /\ v = [w EXCEPT ![k] = 0, ![dk] = @ + w[k]]
  /\ u = [j \in DOMAIN t \cup {k} |-> IF j = k THEN dk ELSE t[j]]

\* A neighbour takes it: it has not been taken, and will not be.
LEMMA SharingTakes ==
  ASSUME NEW S \in SUBSET Nat, NEW w, NEW ks, NEW t, Sharing(S, w, ks, t), NEW k \in ks,
         NEW dk \in TakenBy(k, w, t), NEW v, NEW u, Takes(dk, k, w, t, v, u)
  PROVE  Sharing(S, v, ks \ {k}, u)
<1>1. /\ w \in [S -> Nat] /\ k \in S /\ k \in Nat
      /\ k \notin DOMAIN t /\ DOMAIN t \in SUBSET S
      /\ DOMAIN t \in SUBSET (S \ ks) /\ ks \in SUBSET S
      /\ \A j \in S : w[j] = 0 <=> j \in DOMAIN t
      /\ \A j \in DOMAIN t : /\ t[j] \in S \ DOMAIN t
                             /\ t[j] = j - 1 \/ t[j] = j + 1
                             /\ w[t[j]] >= 2
  BY DEF Sharing
<1>2. w[k] = 1 /\ dk \in S /\ dk \notin DOMAIN t /\ (dk = k - 1 \/ dk = k + 1)
  <2>1. w[k] = 1
    BY DEF TakenBy
  <2>2. dk \in Neighbours(k, w) /\ dk \notin DOMAIN t
    BY DEF TakenBy
  <2>3. DOMAIN w = S
    BY <1>1
  <2> QED BY <2>1, <2>2, <2>3 DEF Neighbours
<1>3. dk # k
  BY <1>1, <1>2
<1>4. /\ v \in [S -> Nat] /\ v[k] = 0 /\ v[dk] = w[dk] + 1
      /\ \A j \in S : j # k /\ j # dk => v[j] = w[j]
  <2>1. v = [w EXCEPT ![k] = 0, ![dk] = @ + w[k]]
    BY DEF Takes
  <2> QED BY <1>1, <1>2, <1>3, <2>1
<1>5. w[dk] \in Nat /\ w[dk] # 0
  BY <1>1, <1>2
<1>6. v[dk] \in Nat /\ v[dk] >= 2
  BY <1>4, <1>5
<1>7. DOMAIN u = DOMAIN t \cup {k} /\ u[k] = dk /\ \A j \in DOMAIN t : u[j] = t[j]
  BY <1>1 DEF Takes
<1>8. u = [j \in DOMAIN u |-> u[j]]
  BY DEF Takes
<1>9. DOMAIN u \in SUBSET (S \ (ks \ {k}))
  BY <1>1, <1>7
<1>10. ASSUME NEW j \in S PROVE v[j] = 0 <=> j \in DOMAIN u
  BY <1>1, <1>2, <1>4, <1>6, <1>7
<1>11. ASSUME NEW j \in DOMAIN u
       PROVE /\ u[j] \in S \ DOMAIN u
             /\ u[j] = j - 1 \/ u[j] = j + 1
             /\ v[u[j]] >= 2
  <2>1. CASE j = k
    <3>1. dk \notin DOMAIN u
      BY <1>2, <1>3, <1>7
    <3> QED BY <2>1, <3>1, <1>2, <1>6, <1>7
  <2>2. CASE j # k
    <3>1. j \in DOMAIN t /\ u[j] = t[j]
      BY <1>7, <2>2
    <3>2. /\ t[j] \in S /\ t[j] \notin DOMAIN t /\ (t[j] = j - 1 \/ t[j] = j + 1)
          /\ w[t[j]] >= 2 /\ w[t[j]] \in Nat
      BY <1>1, <3>1
    <3>3. t[j] # k
      BY <1>2, <3>2
    <3>4. v[t[j]] >= 2
      <4>1. CASE t[j] = dk
        BY <1>6, <4>1
      <4>2. CASE t[j] # dk
        BY <1>4, <3>2, <3>3, <4>2
      <4> QED BY <4>1, <4>2
    <3>5. t[j] \notin DOMAIN u
      BY <1>7, <3>2, <3>3
    <3> QED BY <3>1, <3>2, <3>4, <3>5
  <2> QED BY <2>1, <2>2
<1> HIDE DEF TakenBy
<1>12. ks \ {k} \in SUBSET S /\ v \in [S -> Nat]
  BY <1>1, <1>4
<1> QED BY <1>8, <1>9, <1>10, <1>11, <1>12 DEF Sharing

\* Each symbol, or the neighbour whose code it shares, has a weight at last.
LEMMA SharingEnds ==
  ASSUME NEW S \in SUBSET Nat, NEW w, NEW t, Sharing(S, w, {}, t), NEW k \in S
  PROVE  LET j == Translated(t, k) IN
         /\ j \in Nat /\ k - 1 <= j /\ j <= k + 1
         /\ j \in DOMAIN Clamped(w)
         /\ Clamped(w)[j] \in 1 .. MaxCount - 1
<1> DEFINE j == Translated(t, k)
           c == [i \in DOMAIN w |-> IF w[i] < MaxCount THEN w[i] ELSE MaxCount - 1]
<1>1. MaxCount \in Nat /\ MaxCount > 1
  BY CountAssumption
<1>2. w \in [S -> Nat] /\ DOMAIN w = S
  BY DEF Sharing
<1>3. j \in S /\ w[j] # 0 /\ (j = k \/ j = k - 1 \/ j = k + 1)
  <2>1. CASE k \in DOMAIN t
    <3>1. j = t[k]
      BY <2>1 DEF Translated
    <3>2. t[k] \in S \ DOMAIN t /\ (t[k] = k - 1 \/ t[k] = k + 1)
      BY <2>1 DEF Sharing
    <3>3. w[t[k]] # 0
      BY <3>2 DEF Sharing
    <3> QED BY <3>1, <3>2, <3>3
  <2>2. CASE k \notin DOMAIN t
    <3>1. j = k
      BY <2>2 DEF Translated
    <3>2. w[k] # 0
      BY <2>2 DEF Sharing
    <3> QED BY <3>1, <3>2
  <2> QED BY <2>1, <2>2
<1> HIDE DEF j
<1>4. j \in Nat /\ k \in Nat /\ w[j] \in Nat
  BY <1>2, <1>3
<1>5. c[j] = IF w[j] < MaxCount THEN w[j] ELSE MaxCount - 1
  BY <1>2, <1>3
<1>6. c[j] \in 1 .. MaxCount - 1 /\ c[j] > 0
  BY <1>1, <1>3, <1>4, <1>5
<1>7. Clamped(w) = [i \in {i \in DOMAIN w : c[i] > 0} |-> c[i]]
  BY DEF Clamped, Restrict
<1> HIDE DEF c
<1>8. j \in DOMAIN Clamped(w) /\ Clamped(w)[j] = c[j]
  BY <1>2, <1>3, <1>6, <1>7
<1> QED BY <1>3, <1>4, <1>6, <1>8 DEF j

-----------------------------------------------------------------------------
(* The runs of the quantizers.                                             *)

\* A latency as it was logged, or as it was read.
RewriteInv ==
  /\ method = "rewrite"
  /\ param \in Precisions
  /\ passes \in 0 .. 2
  /\ weights = <<>> /\ keys = {}
  /\ \E v \in -1 .. Largest[param] :
       /\ original = <<v>>
       /\ kept = <<IF passes = 0 THEN v ELSE Restored(param, v)>>

ColumnType ==
  /\ original \in Columns
  /\ \/ method = "log" /\ param \in Precisions
     \/ method = "linear" /\ param \in Maxima

\* The symbol that came back for the i-th, which has a code.
Came(i) ==
  /\ kept[i] \in Nat
  /\ Symbols[i] - 1 <= kept[i] /\ kept[i] <= Symbols[i] + 1
  /\ kept[i] \in DOMAIN weights /\ weights[kept[i]] \in 1 .. MaxCount - 1

\* Before the symbols are counted, while they are looked at, and when they were
\* decoded.
ColumnInv ==
  /\ ColumnType
  /\ \/ weights = <<>> /\ keys = {} /\ translate = <<>> /\ passes = 0
     \/ weights # <<>> /\ passes = 0 /\ Sharing(Range(Symbols), weights, keys, translate)
     \/ /\ weights # <<>> /\ keys = {} /\ passes = 1
        /\ DOMAIN kept = DOMAIN original
        /\ \A i \in DOMAIN original : Came(i)

LatencyInv == RewriteInv \/ ColumnInv

LEMMA SymbolsAre ==
  ASSUME ColumnType
  PROVE  /\ Len(original) \in Nat \ {0}
         /\ DOMAIN original = 1 .. Len(original)
         /\ Symbols \in [1 .. Len(original) -> Nat]
         /\ Range(Symbols) \in SUBSET Nat
         /\ \A i \in 1 .. Len(original) : Symbols[i] \in Range(Symbols)
         /\ 1 \in 1 .. Len(original)
<1>1. /\ Len(original) \in Nat \ {0} /\ DOMAIN original = 1 .. Len(original)
      /\ 1 \in 1 .. Len(original)
  BY ColumnEnds DEF ColumnType
<1>2. Symbols \in [1 .. Len(original) -> Nat]
  <2>1. CASE method = "log"
    <3>1. param \in Nat \ {0} /\ original \in Columns
      BY <2>1, PrecisionAssumption DEF ColumnType
    <3>2. LogSymbols(param, original) \in [1 .. Len(original) -> Nat]
      BY <3>1, LogSymbolsAre
    <3> QED BY <2>1, <3>2 DEF Symbols
  <2>2. CASE method # "log"
    <3>1. param \in Nat /\ original \in Columns
      BY <2>2, PrecisionAssumption DEF ColumnType
    <3>2. LinearSymbols(param, original) \in [1 .. Len(original) -> Nat]
      BY <3>1, LinearSymbolsAre
    <3> QED BY <2>2, <3>2 DEF Symbols
  <2> QED BY <2>1, <2>2
<1>3. Range(Symbols) \in SUBSET Nat /\ \A i \in 1 .. Len(original) : Symbols[i] \in Range(Symbols)
  BY <1>2 DEF Range
<1> QED BY <1>1, <1>2, <1>3

LEMMA LatencyBegins == LatencyInit => LatencyInv
<1> SUFFICES ASSUME LatencyInit PROVE LatencyInv
  OBVIOUS
<1>1. kept = original /\ passes = 0 /\ weights = <<>> /\ keys = {} /\ translate = <<>>
  BY DEF LatencyInit
<1>2. CASE method = "rewrite"
  <2>1. param \in Precisions /\ \E v \in -1 .. Largest[param] : original = <<v>>
    BY <1>2 DEF LatencyInit
  <2>2. 0 \in 0 .. 2
    OBVIOUS
  <2> QED BY <1>1, <1>2, <2>1, <2>2 DEF LatencyInv, RewriteInv
<1>3. CASE method # "rewrite"
  <2>1. ColumnType
    BY <1>3 DEF LatencyInit, ColumnType
  <2> QED BY <1>1, <2>1 DEF LatencyInv, ColumnInv
<1> QED BY <1>2, <1>3

LEMMA RewriteStep ==
  ASSUME RewriteInv, Rewrite
  PROVE  RewriteInv' /\ (passes > 0 => kept' = kept)
<1>1. PICK v \in -1 .. Largest[param] :
        original = <<v>> /\ kept = <<IF passes = 0 THEN v ELSE Restored(param, v)>>
  BY DEF RewriteInv
<1>2. param \in Nat \ {0} /\ Largest[param] \in Nat /\ passes \in 0 .. 2
  BY PrecisionAssumption DEF RewriteInv
<1>3. v \in Int /\ v >= -1
  BY <1>2
<1>4. Restored(param, Restored(param, v)) = Restored(param, v)
  BY <1>2, <1>3, ReadBack
<1> DEFINE x == IF passes = 0 THEN v ELSE Restored(param, v)
<1>5. kept' = <<Restored(param, x)>>
  <2>1. kept' = [i \in DOMAIN kept |-> Restored(param, kept[i])]
    BY DEF Rewrite, Restored
  <2>2. kept = <<x>>
    BY <1>1
  <2> HIDE DEF x
  <2>3. DOMAIN kept = {1} /\ kept[1] = x
    BY <2>2
  <2>4. kept' = [i \in {1} |-> Restored(param, x)]
    BY <2>1, <2>3
  <2> QED BY <2>4
<1>6. kept' = <<Restored(param, v)>>
  BY <1>4, <1>5
<1>7. passes > 0 => kept' = kept
  BY <1>1, <1>2, <1>6
<1>8. passes' \in 0 .. 2 /\ passes' # 0
  BY <1>2 DEF Rewrite
<1>9. /\ method' = method /\ param' = param /\ original' = original
      /\ weights' = weights /\ keys' = keys
  BY DEF Rewrite, huffman
<1>10. RewriteInv'
  <2>1. /\ method' = "rewrite" /\ param' \in Precisions
        /\ weights' = <<>> /\ keys' = {}
    BY <1>9 DEF RewriteInv
  <2>2. original' = <<v>> /\ kept' = <<IF passes' = 0 THEN v ELSE Restored(param', v)>>
    BY <1>1, <1>6, <1>8, <1>9
  <2>3. v \in -1 .. Largest[param']
    BY <1>9
  <2> QED BY <1>8, <2>1, <2>2, <2>3 DEF RewriteInv
<1> QED BY <1>7, <1>10

LEMMA SymbolsStay ==
  ASSUME method' = method, param' = param, original' = original
  PROVE  Symbols' = Symbols /\ (ColumnType => ColumnType')
BY DEF Symbols, ColumnType

LEMMA CountStep ==
  ASSUME ColumnInv, CountSymbols
  PROVE  ColumnInv'
<1>1. /\ method' = method /\ param' = param /\ original' = original
      /\ weights = <<>> /\ weights' = Scaled(Counts(Symbols)) /\ keys' = Range(Symbols)
      /\ passes' = passes /\ translate' = translate
  BY DEF CountSymbols
<1>2. ColumnType /\ ColumnType' /\ Symbols' = Symbols
  BY <1>1, SymbolsStay DEF ColumnInv
<1>3. translate = <<>> /\ passes = 0
  BY <1>1 DEF ColumnInv
<1> DEFINE n == Len(original)
           S == Range(Symbols)
<1>4. n \in Nat \ {0} /\ Symbols \in [1 .. n -> Nat] /\ 1 \in 1 .. n /\ Symbols[1] \in S
  BY <1>2, SymbolsAre
<1> HIDE DEF n
<1>5. Counts(Symbols) \in [S -> Nat \ {0}]
  BY <1>4, CountsAre
<1>6. weights' \in [S -> Nat \ {0}]
  BY <1>1, <1>4, <1>5, ScaledAre
<1> HIDE DEF S
<1>7. Sharing(S, weights', S, <<>>)
  BY <1>6, SharingBegins
<1>8. Sharing(S, weights', keys', translate')
  BY <1>1, <1>3, <1>7 DEF S
<1>9. weights' # <<>>
  <2>1. Symbols[1] \in DOMAIN weights'
    BY <1>4, <1>6
  <2>2. DOMAIN <<>> = {}
    OBVIOUS
  <2> QED BY <2>1, <2>2
<1> QED BY <1>1, <1>2, <1>3, <1>8, <1>9 DEF ColumnInv, S

LEMMA LookStep ==
  ASSUME ColumnInv, NEW k \in keys, Look(k)
  PROVE  ColumnInv'
<1>1. /\ method' = method /\ param' = param /\ original' = original
      /\ keys' = keys \ {k} /\ passes' = passes
  BY DEF Look
<1>2. ColumnType /\ ColumnType' /\ Symbols' = Symbols
  BY <1>1, SymbolsStay DEF ColumnInv
<1>3. weights # <<>> /\ passes = 0 /\ Sharing(Range(Symbols), weights, keys, translate)
  BY DEF ColumnInv
<1>4. Range(Symbols) \in SUBSET Nat
  BY <1>2, SymbolsAre
<1>5. CASE weights' = weights /\ translate' = translate
  <2>1. Sharing(Range(Symbols), weights', keys', translate')
    BY <1>1, <1>3, <1>5, SharingPasses
  <2> QED BY <1>1, <1>2, <1>3, <1>5, <2>1 DEF ColumnInv
<1>6. CASE \E dk \in TakenBy(k, weights, translate) :
             /\ translate' = [j \in DOMAIN translate \cup {k} |-> IF j = k THEN dk ELSE translate[j]]
             /\ weights' = [weights EXCEPT ![k] = 0, ![dk] = @ + weights[k]]
  <2>1. PICK dk \in TakenBy(k, weights, translate) :
             /\ translate' = [j \in DOMAIN translate \cup {k} |-> IF j = k THEN dk ELSE translate[j]]
             /\ weights' = [weights EXCEPT ![k] = 0, ![dk] = @ + weights[k]]
    BY <1>6
  <2>2. Sharing(Range(Symbols), weights', keys \ {k}, translate')
    <3>1. Takes(dk, k, weights, translate, weights', translate')
      BY <2>1 DEF Takes
    <3>2. Sharing(Range(Symbols), weights, keys, translate)
      BY <1>3
    <3> QED BY <1>4, <3>1, <3>2, SharingTakes
  <2>3. weights' # <<>>
    <3>1. k \in DOMAIN weights
      BY <1>3 DEF Sharing
    <3>2. k \in DOMAIN weights'
      BY <2>1, <3>1
    <3>3. DOMAIN <<>> = {}
      OBVIOUS
    <3> QED BY <3>2, <3>3
  <2> QED BY <1>1, <1>2, <1>3, <2>2, <2>3 DEF ColumnInv
<1> QED BY <1>5, <1>6 DEF Look

LEMMA DecompressStep ==
  ASSUME ColumnInv, Decompress
  PROVE  ColumnInv'
<1>1. /\ method' = method /\ param' = param /\ original' = original
      /\ keys' = keys /\ keys = {} /\ weights # <<>> /\ passes = 0 /\ passes' = 1
      /\ weights' = Clamped(weights)
      /\ kept' = [i \in DOMAIN original |-> Translated(translate, Symbols[i])]
  BY DEF Decompress
<1>2. ColumnType /\ ColumnType' /\ Symbols' = Symbols
  BY <1>1, SymbolsStay DEF ColumnInv
<1>3. Sharing(Range(Symbols), weights, {}, translate)
  BY <1>1 DEF ColumnInv
<1>4. /\ Range(Symbols) \in SUBSET Nat
      /\ DOMAIN original = 1 .. Len(original) /\ 1 \in 1 .. Len(original)
      /\ \A i \in 1 .. Len(original) : Symbols[i] \in Range(Symbols)
  BY <1>2, SymbolsAre
<1>5. ASSUME NEW i \in DOMAIN original PROVE Came(i)'
  <2> DEFINE s == Symbols[i]
             j == Translated(translate, s)
  <2>1. s \in Range(Symbols)
    BY <1>4
  <2> HIDE DEF s
  <2>2. /\ j \in Nat /\ s - 1 <= j /\ j <= s + 1
        /\ j \in DOMAIN Clamped(weights)
        /\ Clamped(weights)[j] \in 1 .. MaxCount - 1
    BY <1>3, <1>4, <2>1, SharingEnds
  <2>3. kept'[i] = j
    BY <1>1 DEF s
  <2> HIDE DEF j
  <2>4. /\ kept'[i] \in Nat /\ s - 1 <= kept'[i] /\ kept'[i] <= s + 1
        /\ kept'[i] \in DOMAIN weights' /\ weights'[kept'[i]] \in 1 .. MaxCount - 1
    BY <1>1, <2>2, <2>3
  <2> QED BY <1>2, <2>4 DEF Came, s
<1>6. weights' # <<>>
  <2>1. kept'[1] \in DOMAIN weights'
    BY <1>4, <1>5 DEF Came
  <2>2. DOMAIN <<>> = {}
    OBVIOUS
  <2> QED BY <2>1, <2>2
<1>7. DOMAIN kept' = DOMAIN original'
  BY <1>1
<1>8. \A i \in DOMAIN original' : Came(i)'
  BY <1>1, <1>5
<1> QED BY <1>1, <1>2, <1>6, <1>7, <1>8 DEF ColumnInv

LEMMA LatencyStutters ==
  ASSUME LatencyInv, UNCHANGED latencyvars
  PROVE  LatencyInv'
<1>1. /\ method' = method /\ param' = param /\ original' = original /\ kept' = kept
      /\ passes' = passes /\ weights' = weights /\ keys' = keys /\ translate' = translate
  BY DEF latencyvars, huffman
<1>2. Symbols' = Symbols /\ (ColumnType => ColumnType')
  BY <1>1, SymbolsStay
<1>3. RewriteInv => RewriteInv'
  BY <1>1 DEF RewriteInv
<1>4. ColumnInv => ColumnInv'
  BY <1>1, <1>2 DEF ColumnInv, Came
<1> QED BY <1>3, <1>4 DEF LatencyInv

LEMMA LatencyStep ==
  ASSUME LatencyInv, LatencyNext
  PROVE  LatencyInv'
<1>1. CASE Rewrite
  <2>1. RewriteInv
    BY <1>1 DEF LatencyInv, Rewrite, ColumnInv, ColumnType
  <2> QED BY <1>1, <2>1, RewriteStep DEF LatencyInv
<1>2. CASE CountSymbols
  <2>1. ColumnInv
    BY <1>2 DEF LatencyInv, CountSymbols, RewriteInv
  <2> QED BY <1>2, <2>1, CountStep DEF LatencyInv
<1>3. CASE \E k \in keys : Look(k)
  <2>1. PICK k \in keys : Look(k)
    BY <1>3
  <2>2. ColumnInv
    BY <2>1 DEF LatencyInv, RewriteInv
  <2> QED BY <2>1, <2>2, LookStep DEF LatencyInv
<1>4. CASE Decompress
  <2>1. ColumnInv
    BY <1>4 DEF LatencyInv, Decompress, RewriteInv
  <2> QED BY <1>4, <2>1, DecompressStep DEF LatencyInv
<1> QED BY <1>1, <1>2, <1>3, <1>4 DEF LatencyNext

LEMMA LatencyAlways == LatencySpec => []LatencyInv
<1>1. LatencyInv /\ [LatencyNext]_latencyvars => LatencyInv'
  BY LatencyStep, LatencyStutters
<1> QED BY <1>1, LatencyBegins, PTL DEF LatencySpec

-----------------------------------------------------------------------------
(* Theorems.                                                               *)

LEMMA RewriteMargin ==
  ASSUME RewriteInv, NEW i \in DOMAIN original
  PROVE  IF original[i] <= param THEN kept[i] = original[i]
         ELSE 2 * param * Magnitude(kept[i] - original[i]) <= 2 * original[i] + param
<1>1. PICK v \in -1 .. Largest[param] :
        original = <<v>> /\ kept = <<IF passes = 0 THEN v ELSE Restored(param, v)>>
  BY DEF RewriteInv
<1>2. param \in Nat \ {0} /\ Largest[param] \in Nat
  BY PrecisionAssumption DEF RewriteInv
<1>3. v \in Int /\ v >= -1
  BY <1>2
<1> DEFINE x == IF passes = 0 THEN v ELSE Restored(param, v)
<1>4. kept = <<x>>
  BY <1>1
<1>5. IF v <= param THEN x = v ELSE 2 * param * Magnitude(x - v) <= 2 * v + param
  <2>1. CASE passes = 0
    <3>1. x = v
      BY <2>1
    <3>2. (x - v = 0 /\ 2 * v + param >= 0) \/ v <= param
      BY <1>2, <1>3, <3>1
    <3>3. CASE v <= param
      BY <3>1, <3>3
    <3>4. CASE ~(v <= param)
      <4>1. x - v = 0 /\ 2 * v + param >= 0
        BY <3>2, <3>4
      <4> HIDE DEF x
      <4>2. Magnitude(x - v) = 0
        BY <4>1 DEF Magnitude
      <4>3. 2 * param * Magnitude(x - v) = 0
        BY <1>2, <4>2
      <4> QED BY <3>4, <4>1, <4>3
    <3> QED BY <3>3, <3>4
  <2>2. CASE passes # 0
    <3>1. x = Restored(param, v)
      BY <2>2
    <3> HIDE DEF x
    <3>2. IF v <= param THEN Restored(param, v) = v
          ELSE 2 * param * Magnitude(Restored(param, v) - v) <= 2 * v + param
      BY <1>2, <1>3, ReadBack
    <3> QED BY <3>1, <3>2
  <2> QED BY <2>1, <2>2
<1> HIDE DEF x
<1>6. i = 1 /\ original[i] = v /\ kept[i] = x
  BY <1>1, <1>4
<1> QED BY <1>5, <1>6

LEMMA LogMargin ==
  ASSUME ColumnInv, method = "log", passes = 1, NEW i \in DOMAIN original
  PROVE  NearLog(param, Least(original), original[i], kept[i])
<1> DEFINE s == Symbols[i]
           j == kept[i]
           v == original[i]
           zero == Least(original)
<1>1. param \in Nat \ {0} /\ original \in Columns
  BY PrecisionAssumption DEF ColumnInv, ColumnType
<1>2. Came(i)
  BY DEF ColumnInv
<1>3. j \in Nat /\ s - 1 <= j /\ j <= s + 1
  BY <1>2 DEF Came
<1>4. zero \in Nat \ {0} /\ v \in Nat /\ zero <= v /\ i \in 1 .. Len(original)
  BY <1>1, ColumnEnds
<1>5. s \in Nat
  BY <1>4, SymbolsAre DEF ColumnInv
<1>6. Rounds(param, zero, v, s)
  BY <1>1, <1>4, LogSymbolsAre DEF Symbols
<1> HIDE DEF s, j, v, zero
<1>7. NearLog(param, zero, v, j)
  BY <1>1, <1>3, <1>4, <1>5, <1>6, NearSymbol
<1> QED BY <1>7 DEF j, v, zero

LEMMA LinearMargin ==
  ASSUME ColumnInv, method = "linear", passes = 1, NEW i \in DOMAIN original
  PROVE  NearPartOf(param, original, original[i], kept[i])
<1>1. param \in Nat /\ original \in Columns
  BY PrecisionAssumption DEF ColumnInv, ColumnType
<1>2. Came(i)
  BY DEF ColumnInv
<1>3. kept[i] \in Int /\ Symbols[i] - 1 <= kept[i] /\ kept[i] <= Symbols[i] + 1
  BY <1>2 DEF Came
<1>4. i \in 1 .. Len(original)
  BY <1>1, ColumnEnds
<1>5. Symbols = LinearSymbols(param, original)
  BY DEF Symbols
<1> QED BY <1>1, <1>3, <1>4, <1>5, LinearSymbolsAre

\* A latency comes back within the documented margin of the quantizer, however
\* often fdqread rewrites it, and a column from HuffmanQ within a step and a half,
\* for every precision 1/m, every latency, every column, bound of the weights and
\* order of the symbols.
THEOREM MarginHolds == LatencySpec => []WithinMargin
<1>1. LatencyInv => WithinMargin
  <2> SUFFICES ASSUME LatencyInv PROVE WithinMargin
    OBVIOUS
  <2>1. CASE RewriteInv
    <3>1. method = "rewrite"
      BY <2>1 DEF RewriteInv
    <3>2. \A i \in DOMAIN original :
            IF original[i] <= param THEN kept[i] = original[i]
            ELSE 2 * param * Magnitude(kept[i] - original[i]) <= 2 * original[i] + param
      BY <2>1, RewriteMargin
    <3> QED BY <3>1, <3>2 DEF WithinMargin
  <2>2. CASE ColumnInv /\ method = "log"
    <3>1. passes = 1 => \A i \in DOMAIN original :
                          NearLog(param, Least(original), original[i], kept[i])
      BY <2>2, LogMargin
    <3> QED BY <2>2, <3>1 DEF WithinMargin
  <2>3. CASE ColumnInv /\ method = "linear"
    <3>1. passes = 1 => \A i \in DOMAIN original :
                          NearPartOf(param, original, original[i], kept[i])
      BY <2>3, LinearMargin
    <3> QED BY <2>3, <3>1 DEF WithinMargin, NearPartOf
  <2> QED BY <2>1, <2>2, <2>3 DEF LatencyInv, ColumnInv, ColumnType
<1> QED BY <1>1, LatencyAlways, PTL

\* From its second writing on a latency does not change any more.
THEOREM RewritesAreStable == LatencySpec => Stable
<1>1. LatencyInv /\ [LatencyNext]_latencyvars
        => [method = "rewrite" /\ passes > 0 => kept' = kept]_latencyvars
  <2> SUFFICES ASSUME LatencyInv, LatencyNext, method = "rewrite", passes > 0
               PROVE  kept' = kept
    BY DEF latencyvars
  <2>1. RewriteInv
    BY DEF LatencyInv, ColumnInv, ColumnType
  <2>2. Rewrite
    BY <2>1 DEF LatencyNext, CountSymbols, Look, Decompress, RewriteInv
  <2> QED BY <2>1, <2>2, RewriteStep
<1> QED BY <1>1, LatencyAlways, PTL DEF LatencySpec, Stable

\* bucket_size counts the values that are encoded as one symbol, on both sides of
\* zero, for every precision 1/m.
THEOREM BucketsAreCounted == LatencySpec => []BucketCounts
<1>1. LatencyInv => BucketCounts
  <2> DEFINE largest == Largest[param]
             z == Encode(param, original[1])
             bucket == {n \in 0 .. largest : Encode(param, n) = z}
  <2> SUFFICES ASSUME LatencyInv, method = "rewrite", z \in 0 .. Encode(param, largest) - 1
               PROVE  /\ BucketSize(param, z) = Cardinality(bucket)
                      /\ BucketSize(param, -z) = Cardinality(bucket)
    BY DEF BucketCounts
  <2>1. RewriteInv
    BY DEF LatencyInv, ColumnInv, ColumnType
  <2>2. param \in Nat \ {0} /\ largest \in Nat
    BY <2>1, PrecisionAssumption DEF RewriteInv
  <2>3. PICK v \in -1 .. largest : original = <<v>>
    BY <2>1 DEF RewriteInv
  <2> HIDE DEF largest
  <2>4. v \in Int /\ v >= -1 /\ z = Encode(param, v)
    BY <2>2, <2>3
  <2>5. Encode(param, largest) \in Nat
    BY <2>2, EncodeType
  <2>6. z \in Nat /\ z < Encode(param, largest)
    BY <2>5
  <2>7. v \in Nat
    <3>1. Magnitude(v) <= param \/ v \in Nat
      BY <2>2, <2>4 DEF Magnitude
    <3>2. CASE Magnitude(v) <= param
      <4>1. Encode(param, v) = v
        BY <2>2, <2>4, <3>2, EncodeSmall
      <4> QED BY <2>4, <2>6, <4>1
    <3> QED BY <3>1, <3>2
  <2> HIDE DEF z
  <2> QED BY <2>2, <2>4, <2>6, <2>7, BucketIs
<1> QED BY <1>1, LatencyAlways, PTL

\* Every symbol has a code at last, its own or that of a neighbour, in whatever
\* order the HashMap gives them.
THEOREM AllSymbolsCoded == LatencySpec => []CodesAll
<1>1. LatencyInv => CodesAll
  <2> SUFFICES ASSUME LatencyInv, passes = 1, method # "rewrite", NEW i \in DOMAIN kept
               PROVE  kept[i] \in DOMAIN weights /\ weights[kept[i]] \in 1 .. MaxCount - 1
    BY DEF CodesAll
  <2>1. ColumnInv
    BY DEF LatencyInv, RewriteInv
  <2>2. DOMAIN kept = DOMAIN original /\ \A j \in DOMAIN original : Came(j)
    BY <2>1 DEF ColumnInv
  <2> QED BY <2>2 DEF Came
<1> QED BY <1>1, LatencyAlways, PTL

\* The symbols of a column come back from the bits they were packed into, but the
\* greatest, where it is a power of two.
THEOREM SymbolsPackBack == LatencySpec => []PacksBack
<1>1. LatencyInv => PacksBack
  <2> SUFFICES ASSUME LatencyInv, method = "log"
               PROVE  Packed(Symbols) =
                        [i \in DOMAIN Symbols |->
                           IF Symbols[i] \in Lost(Greatest(Symbols)) THEN 0 ELSE Symbols[i]]
    BY DEF PacksBack, Lost
  <2>1. ColumnType
    BY DEF LatencyInv, RewriteInv, ColumnInv
  <2>2. Len(original) \in Nat \ {0} /\ Symbols \in [1 .. Len(original) -> Nat]
    BY <2>1, SymbolsAre
  <2> QED BY <2>2, PackedBack
<1> QED BY <1>1, LatencyAlways, PTL
=============================================================================

---------------------------- MODULE CodecProofs -----------------------------
(***************************************************************************)
(* Proofs about the codec of FrameDataQ files, for all times, values and   *)
(* quantizers, any width of the integers that holds a full_encode_secs and *)
(* both kinds of build and all settings: it never panics but where NoPanic *)
(* says, and a file is a channel that keeps its frames, without the values *)
(* where delta_enc is combined with a quantizer. The arithmetic is in one lemma: a   *)
(* difference, wrapped by the writer and added by the reader, wrapped too, *)
(* is the time of the frame again.                                         *)
(***************************************************************************)
EXTENDS FDCodec, SequenceTheorems, TLAPS

\* The reference of a codec is frame n of s.
RefersTo(st, s, n) == st.ts = s[n].ts /\ st.sub = s[n].sub

\* Frame i of the file is a full one.
HoldsTime(i) == file[i].ts = input[i].ts /\ file[i].sub = input[i].sub

\* It is a difference to the frame before.
HoldsDifference(i) ==
  /\ i > 1
  /\ ~IsFull(input[i - 1], input[i])
  /\ file[i].ts = NoTime
  /\ file[i].sub = Wrapped(Difference(input[i - 1], input[i]))
  /\ cfg.overflow_checks => Fits(Difference(input[i - 1], input[i]))

\* What the reader returns, whatever it reads.
Returned ==
  [ts : Nat, sub : Nat, len : {0, 1}, value : Int \cup {Dequantize(z) : z \in Int}]

\* How far the writer and the reader are. A writer that panicked took one frame
\* that it did not write, a frame that goes back in time.
ProgressInv ==
  /\ cfg \in Configs
  /\ input \in Seq(Complete)
  /\ file \in Seq(Encoded)
  /\ output \in Seq(Returned)
  /\ Len(output) <= Len(file)
  /\ panic \in {"none", "writer"}
  /\ panic = "none" => Len(input) = Len(file)
  /\ panic = "writer" =>
       /\ Len(input) = Len(file) + 1
       /\ Len(input) > 1
       /\ Before(input[Len(input)], input[Len(input) - 1])

\* The two codecs and the file agree on the times of the frames.
TimeInv ==
  /\ enc.recvq0 \in Int
  /\ enc.ts = NoTime \/ (Len(file) > 0 /\ RefersTo(enc, input, Len(file)))
  /\ IF Len(output) = 0 THEN dec.ts = NoTime ELSE RefersTo(dec, input, Len(output))
  /\ \A i \in 1 .. Len(file) : HoldsTime(i) \/ HoldsDifference(i)

\* They agree on the values, unless these are lost.
Stored(f) == IF cfg.quantized /\ f.len > 0 THEN Quantize(f.value) ELSE f.value
ValueInv ==
  /\ ~cfg.delta_enc => enc.recvq0 = 0
  /\ \A i \in 1 .. Len(file) :
       file[i].len = input[i].len /\ (~Lossy => file[i].value = Stored(input[i]))
  /\ \A i \in 1 .. Len(output) : Seen(output[i]) = Kept(input[i])

CodecInv == ProgressInv /\ TimeInv

-----------------------------------------------------------------------------
(* The arithmetic.                                                         *)

\* Wrapped by the writer and added by the reader, a difference gives the
\* milliseconds since the second of the reference.
LEMMA WrapsBack ==
  ASSUME NEW m \in Nat, m < 1000, NEW d \in Int, d > -1000, d < Width,
         d + m \in Nat, d + m < Width
  PROVE  /\ Wrapped(d) \in Nat /\ Wrapped(d) < Width
         /\ Wrapped(Wrapped(d) + m) = d + m
         /\ Fits(d) => Fits(Wrapped(d) + m)
         /\ ~Fits(d) => d < 0
  BY WidthAssumption DEF WidthAssumption, PerSec, Wrapped, Fits

\* They split into the second and the millisecond of the frame.
LEMMA Splits ==
  \A d, u \in Nat : u < 1000 =>
    (d * 1000 + u) \div 1000 = d /\ (d * 1000 + u) % 1000 = u
  OBVIOUS

-----------------------------------------------------------------------------
(* The operators of the codec.                                             *)

LEMMA CompleteFields ==
  ASSUME NEW f \in Complete
  PROVE  /\ f.ts \in Nat /\ f.sub \in Nat /\ f.sub < 1000 /\ f.len \in {0, 1}
         /\ f.value \in Int
         /\ f.value \in Latencies \cup {-1}
<1>1. /\ \A s \in Seconds : s \in Nat
      /\ \A m \in Millis : m \in Nat /\ m < 1000
      /\ \A v \in Latencies : v \in Int
  BY FrameAssumption DEF FrameAssumption, PerSec
<1>2. /\ f.ts \in Seconds /\ f.sub \in Millis /\ f.len \in {0, 1}
      /\ f.value \in Latencies \/ f.value = -1
  BY DEF Complete
<1>3. /\ f.ts \in Nat /\ f.sub \in Nat /\ f.sub < 1000 /\ f.len \in {0, 1}
      /\ f.value \in Int
  BY <1>1, <1>2
<1>4. f.value \in Latencies \cup {-1}
  BY <1>2, Zenon
<1> QED
  BY <1>3, <1>4

\* A frame taken as a difference to the frame g before it.
LEMMA FrameDifference ==
  ASSUME NEW f \in Complete, NEW g \in Complete, ~IsFull(g, f)
  PROVE  /\ f.ts - g.ts \in Nat
         /\ Wrapped(Difference(g, f)) \in Nat /\ Wrapped(Difference(g, f)) < Width
         /\ Wrapped(Wrapped(Difference(g, f)) + g.sub) = (f.ts - g.ts) * 1000 + f.sub
         /\ Fits(Difference(g, f)) => Fits(Wrapped(Difference(g, f)) + g.sub)
         /\ ~Fits(Difference(g, f)) => Before(f, g)
<1> DEFINE s == g.ts
           m == g.sub
           t == f.ts
           u == f.sub
           k == t - s
           d == k * 1000 + u - m
<1>1. s \in Nat /\ m \in Nat /\ t \in Nat /\ u \in Nat /\ m < 1000 /\ u < 1000
  BY CompleteFields
<1>2. FullEncodeSecs \in Nat
  BY WidthAssumption DEF WidthAssumption
<1>3. ~(t - s >= FullEncodeSecs) /\ ~(t < s)
  BY DEF IsFull
<1>4. Difference(g, f) = d
  BY DEF Difference, PerSec
<1>5. Before(f, g) <=> t < s \/ (t = s /\ u < m)
  BY DEF Before
<1> HIDE DEF s, m, t, u
<1>6. k \in Nat /\ k < FullEncodeSecs /\ (k = 0 => t = s)
  BY <1>1, <1>2, <1>3
<1> HIDE DEF k
<1>7. d = k * 1000 + u - m
  OBVIOUS
<1> HIDE DEF d
<1>8. /\ d \in Int /\ d > -1000 /\ d < Width
      /\ d + m = k * 1000 + u /\ d + m \in Nat /\ d + m < Width
      /\ d < 0 => k = 0 /\ u < m
  <2>1. Width \in Nat /\ FullEncodeSecs * 1000 + 1000 <= Width
    BY WidthAssumption DEF WidthAssumption, PerSec
  <2>2. k * 1000 + u \in Nat /\ k * 1000 + u < Width
    BY <1>1, <1>2, <1>6, <2>1
  <2>3. k # 0 => d > 0
    BY <1>1, <1>6, <1>7
  <2>4. d \in Int /\ d > -1000 /\ d + m = k * 1000 + u
    BY <1>1, <1>6, <1>7
  <2> QED
    BY <1>1, <1>6, <1>7, <2>1, <2>2, <2>3, <2>4
<1>9. /\ Wrapped(d) \in Nat /\ Wrapped(d) < Width
      /\ Wrapped(Wrapped(d) + m) = d + m
      /\ Fits(d) => Fits(Wrapped(d) + m)
      /\ ~Fits(d) => d < 0
  BY <1>1, <1>8, WrapsBack
<1> QED
  BY <1>4, <1>5, <1>6, <1>8, <1>9 DEF s, m, t, u, k

\* The codec looks at nothing of its reference but the time.
LEMMA SameReference ==
  ASSUME NEW st, NEW g, NEW f, st.ts = g.ts, st.sub = g.sub
  PROVE  (IsFull(st, f) <=> IsFull(g, f)) /\ Difference(st, f) = Difference(g, f)
  BY DEF IsFull, Difference

LEMMA PeekEncodeType ==
  ASSUME NEW f \in Complete, enc.recvq0 \in Int,
         IsFull(enc, f)
           \/ (Wrapped(Difference(enc, f)) \in Nat /\ Wrapped(Difference(enc, f)) < Width)
  PROVE  PeekEncode(enc, f) \in Encoded
<1>1. f.ts \in Nat /\ f.sub \in 0 .. Width - 1 /\ f.len \in {0, 1} /\ f.value \in Int
  <2>1. Width \in Nat /\ Width >= 1000
    BY WidthAssumption DEF WidthAssumption, PerSec
  <2>2. f.ts \in Nat /\ f.sub \in Nat /\ f.sub < 1000 /\ f.len \in {0, 1} /\ f.value \in Int
    BY CompleteFields
  <2> QED
    BY <2>1, <2>2
<1>2. EncodedTime(enc, f).ts \in Nat \cup {NoTime} /\ EncodedTime(enc, f).sub \in 0 .. Width - 1
  <2>1. EncodedTime(enc, f).ts \in {f.ts, NoTime}
    BY DEF EncodedTime
  <2>2. EncodedTime(enc, f).sub \in 0 .. Width - 1
    <3> DEFINE w == Wrapped(Difference(enc, f))
    <3>1. EncodedTime(enc, f).sub = IF IsFull(enc, f) THEN f.sub ELSE w
      BY DEF EncodedTime
    <3>2. ~IsFull(enc, f) => w \in 0 .. Width - 1
      <4> HIDE DEF w
      <4> QED
        BY WidthAssumption DEF w, WidthAssumption
    <3> HIDE DEF w
    <3> QED
      BY <1>1, <3>1, <3>2
  <2> QED
    BY <1>1, <2>1, <2>2, Zenon
<1>3. EncodedValue(enc, f) \in Int
  <2>1. Quantize(f.value) \in Int
    BY CompleteFields, QuantizerAssumption, Zenon DEF QuantizerAssumption
  <2>2. Quantize(f.value) - enc.recvq0 \in Int
    BY <2>1
  <2> QED
    BY <1>1, <2>2 DEF EncodedValue
<1> QED
  BY <1>1, <1>2, <1>3 DEF PeekEncode, Encoded

-----------------------------------------------------------------------------
(* The writer.                                                             *)

\* A frame that is taken.
LEMMA TakesFrame ==
  ASSUME ProgressInv, NEW f \in Complete, input' = Append(input, f)
  PROVE  /\ input' \in Seq(Complete) /\ Len(input') = Len(input) + 1
         /\ input'[Len(input')] = f
         /\ \A i \in 1 .. Len(input) : input'[i] = input[i]
<1>1. input \in Seq(Complete)
  BY DEF ProgressInv
<1> QED
  BY <1>1, AppendProperties

\* A difference that is negative, in a checked build.
LEMMA WriterPanics ==
  ASSUME CodecInv, NEW f \in Complete, panic = "none",
         ~IsFull(enc, f), ~Fits(Difference(enc, f)),
         input' = Append(input, f), panic' = "writer",
         UNCHANGED <<cfg, file, output>>
  PROVE  ProgressInv'
<1>1. /\ input \in Seq(Complete) /\ Len(input) = Len(file) /\ file \in Seq(Encoded)
      /\ cfg \in Configs /\ output \in Seq(Returned) /\ Len(output) <= Len(file)
  BY DEF CodecInv, ProgressInv
<1>2. Len(file) > 0 /\ RefersTo(enc, input, Len(file))
  BY DEF CodecInv, TimeInv, IsFull, Some
<1>3. Len(file) \in Nat \ {0}
  BY <1>1, <1>2, LenProperties
<1> DEFINE g == input[Len(input)]
<1>4. g \in Complete
  BY <1>1, <1>3, ElementOfSeq
<1>5. ~IsFull(g, f) /\ ~Fits(Difference(g, f))
  <2>1. enc.ts = g.ts /\ enc.sub = g.sub
    BY <1>1, <1>2 DEF RefersTo
  <2> QED
    BY <2>1, SameReference
<1>6. Before(f, g)
  BY <1>4, <1>5, FrameDifference
<1>7. /\ input' \in Seq(Complete) /\ Len(input') = Len(input) + 1
      /\ input'[Len(input')] = f
      /\ \A i \in 1 .. Len(input) : input'[i] = input[i]
  BY TakesFrame DEF CodecInv
<1>8. input'[Len(input') - 1] = g
  BY <1>1, <1>3, <1>7
<1>9. Before(input[Len(input)], input[Len(input) - 1])'
  BY <1>6, <1>7, <1>8 DEF Before
<1> QED
  BY <1>1, <1>3, <1>7, <1>9 DEF ProgressInv

\* The encoding of a frame holds its time, or the difference to the last one.
LEMMA EncodesTime ==
  ASSUME CodecInv, NEW f \in Complete, panic = "none",
         ~(cfg.overflow_checks /\ ~IsFull(enc, f) /\ ~Fits(Difference(enc, f))),
         NEW e, e = PeekEncode(enc, f)
  PROVE  /\ e \in Encoded
         /\ \/ e.ts = f.ts /\ e.sub = f.sub
            \/ /\ Len(input) > 0
               /\ ~IsFull(input[Len(input)], f)
               /\ e.ts = NoTime /\ e.sub = Wrapped(Difference(input[Len(input)], f))
               /\ cfg.overflow_checks => Fits(Difference(input[Len(input)], f))
<1>1. input \in Seq(Complete) /\ Len(input) = Len(file) /\ enc.recvq0 \in Int
  BY DEF CodecInv, ProgressInv, TimeInv
<1>2. CASE IsFull(enc, f)
  <2>1. e.ts = f.ts /\ e.sub = f.sub
    BY <1>2 DEF PeekEncode, EncodedTime
  <2> QED
    BY <1>1, <1>2, <2>1, PeekEncodeType
<1>3. CASE ~IsFull(enc, f)
  <2> DEFINE g == input[Len(input)]
  <2>1. Len(input) > 0 /\ enc.ts = g.ts /\ enc.sub = g.sub
    BY <1>1, <1>3 DEF CodecInv, TimeInv, RefersTo, IsFull, Some
  <2>2. g \in Complete
    BY <1>1, <2>1, ElementOfSeq, LenProperties
  <2>3. ~IsFull(g, f) /\ Difference(enc, f) = Difference(g, f)
    BY <1>3, <2>1, SameReference
  <2>4. e.ts = NoTime /\ e.sub = Wrapped(Difference(g, f))
    BY <1>3, <2>3 DEF PeekEncode, EncodedTime
  <2>5. cfg.overflow_checks => Fits(Difference(g, f))
    BY <1>3, <2>3
  <2>6. e \in Encoded
    BY <1>1, <2>2, <2>3, FrameDifference, PeekEncodeType
  <2> QED
    BY <2>1, <2>3, <2>4, <2>5, <2>6
<1> QED
  BY <1>2, <1>3

\* A frame that is written.
LEMMA WriterWrites ==
  ASSUME CodecInv, NEW f \in Complete, panic = "none",
         ~(cfg.overflow_checks /\ ~IsFull(enc, f) /\ ~Fits(Difference(enc, f))),
         input' = Append(input, f), file' = Append(file, PeekEncode(enc, f)),
         enc' = Push(enc, f), UNCHANGED <<cfg, dec, output, panic>>
  PROVE  CodecInv'
<1> DEFINE e == PeekEncode(enc, f)
           n == Len(file) + 1
<1>1. /\ input \in Seq(Complete) /\ Len(input) = Len(file) /\ file \in Seq(Encoded)
      /\ cfg \in Configs /\ output \in Seq(Returned) /\ Len(output) <= Len(file)
  BY DEF CodecInv, ProgressInv
<1>2. Len(file) \in Nat /\ Len(output) \in Nat
  BY <1>1, LenProperties
<1>3. /\ e \in Encoded
      /\ \/ e.ts = f.ts /\ e.sub = f.sub
         \/ /\ Len(input) > 0
            /\ ~IsFull(input[Len(input)], f)
            /\ e.ts = NoTime /\ e.sub = Wrapped(Difference(input[Len(input)], f))
            /\ cfg.overflow_checks => Fits(Difference(input[Len(input)], f))
  BY EncodesTime
<1> HIDE DEF e
<1>4. /\ input' \in Seq(Complete) /\ Len(input') = n /\ input'[n] = f
      /\ \A i \in 1 .. Len(file) : input'[i] = input[i]
  BY <1>1, TakesFrame DEF CodecInv
<1>5. /\ file' \in Seq(Encoded) /\ Len(file') = n /\ file'[n] = e
      /\ \A i \in 1 .. Len(file) : file'[i] = file[i]
  <2>1. file' = Append(file, e)
    BY DEF e
  <2> QED
    BY <1>1, <1>3, <2>1, AppendProperties
<1>6. ProgressInv'
  BY <1>1, <1>2, <1>4, <1>5 DEF ProgressInv
<1>7. \A i \in 1 .. n : HoldsTime(i)' \/ HoldsDifference(i)'
  <2> SUFFICES ASSUME NEW i \in 1 .. n PROVE HoldsTime(i)' \/ HoldsDifference(i)'
    OBVIOUS
  <2>1. CASE i \in 1 .. Len(file)
    <3>1. CASE HoldsTime(i)
      BY <1>4, <1>5, <2>1, <3>1 DEF HoldsTime
    <3>2. CASE HoldsDifference(i)
      <4>1. input'[i] = input[i] /\ input'[i - 1] = input[i - 1] /\ file'[i] = file[i]
        BY <1>2, <1>4, <1>5, <2>1, <3>2 DEF HoldsDifference
      <4> QED
        BY <3>2, <4>1 DEF HoldsDifference, IsFull, Difference
    <3> QED
      BY <2>1, <3>1, <3>2 DEF CodecInv, TimeInv
  <2>2. CASE i = n
    <3>1. input'[i] = f /\ file'[i] = e
      BY <1>4, <1>5, <2>2
    <3>2. CASE e.ts = f.ts /\ e.sub = f.sub
      BY <3>1, <3>2 DEF HoldsTime
    <3>3. CASE ~(e.ts = f.ts /\ e.sub = f.sub)
      <4>1. i > 1 /\ input'[i - 1] = input[Len(input)]
        BY <1>1, <1>2, <1>3, <1>4, <2>2, <3>3
      <4> QED
        BY <1>3, <3>1, <3>3, <4>1 DEF HoldsDifference, IsFull, Difference
    <3> QED
      BY <3>2, <3>3
  <2> QED
    BY <1>2, <2>1, <2>2
<1>8. enc'.recvq0 \in Int /\ RefersTo(enc, input, Len(file))'
  <2>1. f.value \in Int /\ Quantize(f.value) \in Int
    BY CompleteFields, QuantizerAssumption, Zenon DEF QuantizerAssumption
  <2>2. enc.recvq0 \in Int
    BY DEF CodecInv, TimeInv
  <2>3. enc'.recvq0 \in {enc.recvq0, Quantize(f.value), f.value}
    BY DEF Push
  <2>4. enc'.ts = f.ts /\ enc'.sub = f.sub
    BY DEF Push
  <2>5. enc'.recvq0 \in Int
    BY <2>1, <2>2, <2>3
  <2> QED
    BY <1>4, <1>5, <2>4, <2>5 DEF RefersTo
<1>9. IF Len(output') = 0 THEN dec'.ts = NoTime ELSE RefersTo(dec, input, Len(output))'
  BY <1>1, <1>2, <1>4 DEF CodecInv, TimeInv, RefersTo
<1>10. TimeInv'
  BY <1>2, <1>5, <1>7, <1>8, <1>9 DEF TimeInv
<1> QED
  BY <1>6, <1>10 DEF CodecInv

-----------------------------------------------------------------------------
(* The reader.                                                             *)

\* The frame the reader is at is decoded without a panic and to its time.
LEMMA ReadsBack ==
  ASSUME CodecInv, NEW n, n = Len(output) + 1, n <= Len(file)
  PROVE  /\ Some(file[n].ts) \/ Some(dec.ts)
         /\ ~Some(file[n].ts) /\ cfg.overflow_checks => Fits(file[n].sub + dec.sub)
         /\ PeekDecode(dec, file[n]).ts = input[n].ts
         /\ PeekDecode(dec, file[n]).sub = input[n].sub
<1>1. /\ input \in Seq(Complete) /\ file \in Seq(Encoded) /\ output \in Seq(Returned)
      /\ Len(input) >= Len(file)
  <2>1. /\ input \in Seq(Complete) /\ file \in Seq(Encoded) /\ output \in Seq(Returned)
        /\ Len(input) = Len(file) \/ Len(input) = Len(file) + 1
    BY DEF CodecInv, ProgressInv
  <2> QED
    BY <2>1, LenProperties
<1>2. Len(input) \in Nat /\ Len(file) \in Nat /\ Len(output) \in Nat
  BY <1>1, LenProperties
<1> DEFINE e == file[n]
           f == input[n]
<1>3. n \in 1 .. Len(file) /\ f \in Complete
  BY <1>1, <1>2, ElementOfSeq
<1>4. f.ts \in Nat /\ f.sub \in Nat /\ f.sub < 1000
  BY <1>3, CompleteFields
<1>5. HoldsTime(n) \/ HoldsDifference(n)
  BY <1>3 DEF CodecInv, TimeInv
<1>6. CASE HoldsTime(n)
  <2>1. e.ts = f.ts /\ e.sub = f.sub
    BY <1>6 DEF HoldsTime
  <2>2. Some(e.ts)
    BY <1>4, <2>1 DEF Some, NoTime
  <2>3. (0 * 1000 + f.sub) \div 1000 = 0 /\ (0 * 1000 + f.sub) % 1000 = f.sub
    BY <1>4, Splits
  <2>4. f.sub \div 1000 = 0 /\ f.sub % 1000 = f.sub
    <3>1. 0 * 1000 + f.sub = f.sub
      BY <1>4
    <3> QED
      BY <2>3, <3>1
  <2>5. /\ PeekDecode(dec, e).ts = f.ts + f.sub \div 1000
        /\ PeekDecode(dec, e).sub = f.sub % 1000
    BY <2>1, <2>2 DEF PeekDecode, DecodedSub, PerSec
  <2> QED
    BY <1>4, <2>2, <2>4, <2>5
<1>7. CASE HoldsDifference(n)
  <2> DEFINE g == input[n - 1]
             k == f.ts - g.ts
  <2>1. /\ n > 1 /\ ~IsFull(g, f) /\ e.ts = NoTime
        /\ e.sub = Wrapped(Difference(g, f))
        /\ cfg.overflow_checks => Fits(Difference(g, f))
    BY <1>7 DEF HoldsDifference
  <2>2. n - 1 = Len(output) /\ Len(output) > 0
    BY <1>2, <2>1
  <2>3. dec.ts = g.ts /\ dec.sub = g.sub
    BY <2>2 DEF CodecInv, TimeInv, RefersTo
  <2>4. g \in Complete
    BY <1>1, <1>2, <1>3, <2>1, ElementOfSeq
  <2>5. g.ts \in Nat
    BY <2>4, CompleteFields
  <2>6. /\ k \in Nat
        /\ Wrapped(e.sub + dec.sub) = k * 1000 + f.sub
        /\ Fits(Difference(g, f)) => Fits(e.sub + dec.sub)
    BY <1>3, <2>1, <2>3, <2>4, FrameDifference
  <2>7. g.ts + k = f.ts
    BY <1>4, <2>5
  <2> HIDE DEF k
  <2>8. (k * 1000 + f.sub) \div 1000 = k /\ (k * 1000 + f.sub) % 1000 = f.sub
    <3> DEFINE u == f.sub
    <3>1. u \in Nat /\ u < 1000 /\ k \in Nat
      BY <1>4, <2>6
    <3> HIDE DEF u
    <3>2. (k * 1000 + u) \div 1000 = k /\ (k * 1000 + u) % 1000 = u
      BY <3>1, Splits
    <3> QED
      BY <3>2 DEF u
  <2>9. /\ PeekDecode(dec, e).ts = dec.ts + (k * 1000 + f.sub) \div 1000
        /\ PeekDecode(dec, e).sub = (k * 1000 + f.sub) % 1000
    BY <2>1, <2>6 DEF PeekDecode, DecodedSub, Some, PerSec
  <2>10. Some(dec.ts)
    BY <2>3, <2>5 DEF Some, NoTime
  <2> QED
    BY <2>1, <2>3, <2>6, <2>7, <2>8, <2>9, <2>10
<1> QED
  BY <1>5, <1>6, <1>7

\* A frame that is read.
LEMMA ReaderReads ==
  ASSUME CodecInv, Decode
  PROVE  /\ CodecInv'
         /\ panic' = panic /\ file' = file /\ input' = input /\ cfg' = cfg /\ enc' = enc
         /\ output' = Append(output, PeekDecode(dec, file[Len(output) + 1]))
         /\ PeekDecode(dec, file[Len(output) + 1]) \in Returned
<1> DEFINE n == Len(output) + 1
           r == PeekDecode(dec, file[n])
<1>1. /\ input \in Seq(Complete) /\ file \in Seq(Encoded) /\ output \in Seq(Returned)
      /\ Len(output) < Len(file)
      /\ Len(input) = Len(file) \/ Len(input) = Len(file) + 1
  BY DEF CodecInv, ProgressInv, Decode
<1>2. Len(input) \in Nat /\ Len(file) \in Nat /\ Len(output) \in Nat
  BY <1>1, LenProperties
<1>3. n \in 1 .. Len(file) /\ n <= Len(input)
  BY <1>1, <1>2
<1>4. /\ Some(file[n].ts) \/ Some(dec.ts)
      /\ ~Some(file[n].ts) /\ cfg.overflow_checks => Fits(file[n].sub + dec.sub)
      /\ r.ts = input[n].ts /\ r.sub = input[n].sub
  BY <1>2, <1>3, ReadsBack
<1>5. /\ output' = Append(output, r) /\ dec' = Push(dec, r)
      /\ UNCHANGED <<panic, cfg, input, enc, file>>
  BY <1>4 DEF Decode
<1>6. r \in Returned
  <2>1. input[n] \in Complete /\ file[n] \in Encoded
    BY <1>1, <1>2, <1>3, ElementOfSeq
  <2>2. r.ts \in Nat /\ r.sub \in Nat
    BY <1>4, <2>1, CompleteFields
  <2>3. file[n].value \in Int /\ file[n].len \in {0, 1}
    BY <2>1 DEF Encoded
  <2>4. r.len = file[n].len /\ (r.value = file[n].value \/ r.value = Dequantize(file[n].value))
    BY DEF PeekDecode
  <2>5. r.value \in Int \cup {Dequantize(z) : z \in Int}
    BY <2>3, <2>4, Zenon
  <2>6. r = [ts |-> r.ts, sub |-> r.sub, len |-> r.len, value |-> r.value]
    BY DEF PeekDecode
  <2> HIDE DEF r
  <2> QED
    BY <2>2, <2>3, <2>4, <2>5, <2>6 DEF Returned
<1> HIDE DEF r
<1>7. output' \in Seq(Returned) /\ Len(output') = n
  BY <1>1, <1>5, <1>6, AppendProperties
<1>8. ProgressInv'
  BY <1>3, <1>5, <1>7 DEF CodecInv, ProgressInv
<1>9. dec'.ts = input[n].ts /\ dec'.sub = input[n].sub
  BY <1>4, <1>5 DEF Push
<1>10. RefersTo(dec, input, Len(output))'
  BY <1>5, <1>7, <1>9 DEF RefersTo
<1>11. /\ enc'.recvq0 \in Int
       /\ enc'.ts = NoTime \/ (Len(file') > 0 /\ RefersTo(enc, input, Len(file))')
       /\ \A i \in 1 .. Len(file') : HoldsTime(i)' \/ HoldsDifference(i)'
  BY <1>5 DEF CodecInv, TimeInv, HoldsTime, HoldsDifference, RefersTo, IsFull, Difference
<1>12. TimeInv'
  BY <1>2, <1>7, <1>10, <1>11 DEF TimeInv
<1> QED
  BY <1>5, <1>6, <1>8, <1>12 DEF CodecInv, r

-----------------------------------------------------------------------------
(* No panic.                                                               *)

LEMMA InitCodec == Init => CodecInv
<1> SUFFICES ASSUME Init PROVE CodecInv
  OBVIOUS
<1>1. Len(<<>>) = 0 /\ \A S : <<>> \in Seq(S)
  BY EmptySeq
<1>2. /\ cfg \in Configs /\ input = <<>> /\ file = <<>> /\ output = <<>>
      /\ panic = "none" /\ enc.recvq0 = 0 /\ enc.ts = NoTime /\ dec.ts = NoTime
  BY DEF Init, New
<1>3. ProgressInv
  BY <1>1, <1>2 DEF ProgressInv
<1>4. TimeInv
  BY <1>1, <1>2 DEF TimeInv
<1> QED
  BY <1>3, <1>4 DEF CodecInv

LEMMA StepCodec == CodecInv /\ [Next]_vars => CodecInv'
<1> SUFFICES ASSUME CodecInv, [Next]_vars PROVE CodecInv'
  OBVIOUS
<1>1. CASE Encode
  <2>1. PICK f \in Complete :
          /\ input' = Append(input, f)
          /\ IF cfg.overflow_checks /\ ~IsFull(enc, f) /\ ~Fits(Difference(enc, f))
             THEN panic' = "writer" /\ UNCHANGED <<enc, file>>
             ELSE /\ file' = Append(file, PeekEncode(enc, f))
                  /\ enc' = Push(enc, f)
                  /\ UNCHANGED panic
    BY <1>1 DEF Encode
  <2>2. panic = "none" /\ UNCHANGED <<cfg, dec, output>>
    BY <1>1 DEF Encode
  <2>3. CASE cfg.overflow_checks /\ ~IsFull(enc, f) /\ ~Fits(Difference(enc, f))
    <3>1. panic' = "writer" /\ UNCHANGED <<enc, file>>
      BY <2>1, <2>3
    <3>2. ProgressInv'
      BY <2>1, <2>2, <2>3, <3>1, WriterPanics
    <3>3. /\ input \in Seq(Complete) /\ Len(input) = Len(file) /\ output \in Seq(Returned)
          /\ Len(output) <= Len(file)
      BY <2>2 DEF CodecInv, ProgressInv
    <3>4. \A i \in 1 .. Len(file) : input'[i] = input[i]
      BY <2>1, <3>3, TakesFrame DEF CodecInv
    <3>5. Len(file) \in Nat /\ Len(output) \in Nat
      BY <3>3, LenProperties
    <3>6. /\ enc'.recvq0 \in Int
          /\ enc'.ts = NoTime \/ (Len(file') > 0 /\ RefersTo(enc, input, Len(file))')
      BY <3>1, <3>4, <3>5 DEF CodecInv, TimeInv, RefersTo
    <3>7. IF Len(output') = 0 THEN dec'.ts = NoTime ELSE RefersTo(dec, input, Len(output))'
      BY <2>2, <3>3, <3>4, <3>5 DEF CodecInv, TimeInv, RefersTo
    <3>8. ASSUME NEW i \in 1 .. Len(file) PROVE HoldsTime(i)' \/ HoldsDifference(i)'
      <4>1. CASE HoldsTime(i)
        BY <3>1, <3>4, <4>1 DEF HoldsTime
      <4>2. CASE HoldsDifference(i)
        <5>1. input'[i] = input[i] /\ input'[i - 1] = input[i - 1]
          BY <3>4, <3>5, <4>2 DEF HoldsDifference
        <5> QED
          BY <2>2, <3>1, <4>2, <5>1 DEF HoldsDifference, IsFull, Difference
      <4> QED
        BY <4>1, <4>2 DEF CodecInv, TimeInv
    <3>9. TimeInv'
      BY <3>1, <3>6, <3>7, <3>8 DEF TimeInv
    <3> QED
      BY <3>2, <3>9 DEF CodecInv
  <2>4. CASE ~(cfg.overflow_checks /\ ~IsFull(enc, f) /\ ~Fits(Difference(enc, f)))
    BY <2>1, <2>2, <2>4, WriterWrites
  <2> QED
    BY <2>3, <2>4
<1>2. CASE NextInput
  <2>1. enc' = New /\ UNCHANGED <<cfg, input, file, dec, output, panic>>
    BY <1>2 DEF NextInput
  <2>2. enc'.recvq0 = 0 /\ enc'.ts = NoTime
    BY <2>1 DEF New
  <2>3. ProgressInv'
    BY <2>1 DEF CodecInv, ProgressInv
  <2>4. TimeInv'
    BY <2>1, <2>2 DEF CodecInv, TimeInv, HoldsTime, HoldsDifference, RefersTo, IsFull, Difference
  <2> QED
    BY <2>3, <2>4 DEF CodecInv
<1>3. CASE Decode
  BY <1>3, ReaderReads
<1>4. CASE UNCHANGED vars
  BY <1>4 DEF vars, CodecInv, ProgressInv, TimeInv, HoldsTime, HoldsDifference, RefersTo,
              IsFull, Difference
<1> QED
  BY <1>1, <1>2, <1>3, <1>4 DEF Next

\* The codec panics only where the writer of a checked build meets a frame that
\* goes back in time: the reader (FDCodecIter, FDCodecState::decode) never
\* meets a difference without a reference, nor one that overflows, whatever
\* the times, the joints of the file, the kind of build and the settings.
THEOREM CodecNeverPanics == Spec => []NoPanic
<1>1. CodecInv => NoPanic
  <2> SUFFICES ASSUME CodecInv PROVE NoPanic
    OBVIOUS
  <2>1. panic \in {"none", "writer"} /\ input \in Seq(Complete)
    BY DEF CodecInv, ProgressInv
  <2>2. ASSUME panic = "writer"
        PROVE  \E i \in 2 .. Len(input) : Before(input[i], input[i - 1])
    <3>1. Len(input) > 1 /\ Before(input[Len(input)], input[Len(input) - 1])
      BY <2>2 DEF CodecInv, ProgressInv
    <3>2. Len(input) \in 2 .. Len(input)
      BY <2>1, <3>1, LenProperties
    <3> QED
      BY <3>1, <3>2
  <2> QED
    BY <2>1, <2>2 DEF NoPanic
<1> QED
  BY <1>1, InitCodec, StepCodec, PTL DEF Spec

-----------------------------------------------------------------------------
(* The channel.                                                            *)

LEMMA KeptIs ==
  ASSUME NEW f \in Complete
  PROVE  /\ Kept(f) = [ts |-> f.ts, sub |-> f.sub, len |-> f.len, value |-> KeptValue(f)]
         /\ Kept(f) \in Keepable
<1>1. f = [ts |-> f.ts, sub |-> f.sub, len |-> f.len, value |-> f.value]
  BY DEF Complete
<1>2. Kept(f) = [f EXCEPT !.value = KeptValue(f)]
  BY DEF Kept
<1>3. Kept(f) = [ts |-> f.ts, sub |-> f.sub, len |-> f.len, value |-> KeptValue(f)]
  BY <1>1, <1>2
<1>4. ASSUME KeptValue(f) \in KeptValues
      PROVE  Kept(f) \in Keepable
  BY <1>2, <1>4 DEF Keepable
<1>5. CASE Lossy \/ (cfg.quantized /\ f.len > 0)
  <2>1. f.len > 0 => f.value \in Latencies
    BY DEF Complete
  <2>2. KeptValue(f) \in KeptValues
    BY <1>5, <2>1 DEF KeptValue, KeptValues
  <2> QED
    BY <1>3, <1>4, <2>2
<1>6. CASE ~Lossy /\ ~(cfg.quantized /\ f.len > 0)
  <2>1. Kept(f) = f
    BY <1>1, <1>3, <1>6 DEF KeptValue
  <2> QED
    BY <1>3, <2>1 DEF Keepable
<1> QED
  BY <1>3, <1>5, <1>6

\* What a reader of the encoding of a frame gets.
LEMMA ReadsKept ==
  ASSUME CodecInv, ValueInv, NEW n, n = Len(output) + 1, n <= Len(file)
  PROVE  Seen(PeekDecode(dec, file[n])) = Kept(input[n])
<1> DEFINE e == file[n]
           f == input[n]
           r == PeekDecode(dec, e)
<1>1. /\ input \in Seq(Complete) /\ output \in Seq(Returned) /\ file \in Seq(Encoded)
      /\ Len(input) = Len(file) \/ Len(input) = Len(file) + 1
  BY DEF CodecInv, ProgressInv
<1>2. n \in 1 .. Len(file) /\ n \in 1 .. Len(input)
  BY <1>1, LenProperties
<1>3. f \in Complete
  BY <1>1, <1>2, ElementOfSeq
<1>4. e.len = f.len /\ (~Lossy => e.value = Stored(f))
  BY <1>2 DEF ValueInv
<1>5. r.ts = f.ts /\ r.sub = f.sub
  BY ReadsBack
<1>6. r.len = e.len /\ r.value = IF cfg.quantized /\ e.len > 0 THEN Dequantize(e.value) ELSE e.value
  BY DEF PeekDecode
<1>7. r = [ts |-> r.ts, sub |-> r.sub, len |-> r.len, value |-> r.value]
  BY DEF PeekDecode
<1> HIDE DEF r
<1>8. Seen(r) = [ts |-> r.ts, sub |-> r.sub, len |-> r.len,
                 value |-> IF Lossy THEN NoValue ELSE r.value]
  <2>1. Seen(r) = [r EXCEPT !.value = IF Lossy THEN NoValue ELSE r.value]
    BY DEF Seen
  <2> QED
    BY <1>7, <2>1
<1>9. (IF Lossy THEN NoValue ELSE r.value) = KeptValue(f)
  BY <1>4, <1>6 DEF Stored, KeptValue
<1> QED
  BY <1>3, <1>4, <1>5, <1>6, <1>8, <1>9, KeptIs DEF r

LEMMA InitValue == Init => ValueInv
<1> SUFFICES ASSUME Init PROVE ValueInv
  OBVIOUS
<1>1. Len(<<>>) = 0 /\ \A S : <<>> \in Seq(S)
  BY EmptySeq
<1> QED
  BY <1>1 DEF Init, New, ValueInv

\* What a step does to the values in the file and to those read.
LEMMA StepValue ==
  ASSUME CodecInv, ValueInv, [Next]_vars
  PROVE  ValueInv'
<1>1. /\ input \in Seq(Complete) /\ file \in Seq(Encoded) /\ cfg \in Configs
      /\ Len(input) = Len(file) \/ Len(input) = Len(file) + 1
      /\ panic = "none" => Len(input) = Len(file)
  BY DEF CodecInv, ProgressInv
<1>2. Len(file) \in Nat /\ Len(input) \in Nat
  BY <1>1, LenProperties
<1>3. cfg' = cfg /\ (Lossy' <=> Lossy)
  BY DEF Next, Encode, NextInput, Decode, vars, Lossy
<1>4. CASE Encode
  <2>1. PICK f \in Complete :
          /\ input' = Append(input, f)
          /\ IF cfg.overflow_checks /\ ~IsFull(enc, f) /\ ~Fits(Difference(enc, f))
             THEN panic' = "writer" /\ UNCHANGED <<enc, file>>
             ELSE /\ file' = Append(file, PeekEncode(enc, f))
                  /\ enc' = Push(enc, f)
                  /\ UNCHANGED panic
    BY <1>4 DEF Encode
  <2>2. panic = "none" /\ cfg' = cfg /\ output' = output /\ Len(input) = Len(file)
    BY <1>1, <1>4 DEF Encode
  <2>3. input'[Len(input) + 1] = f /\ \A i \in 1 .. Len(input) : input'[i] = input[i]
    BY <1>1, <2>1, AppendProperties
  <2>4. ~cfg.delta_enc => enc'.recvq0 = 0
    <3>1. enc' = enc \/ enc' = Push(enc, f)
      BY <2>1
    <3> QED
      BY <3>1 DEF Push, ValueInv
  <2>5. \A i \in 1 .. Len(file') :
          file'[i].len = input'[i].len /\ (~Lossy => file'[i].value = Stored(input'[i]))
    <3>1. CASE file' = file
      BY <2>2, <2>3, <3>1 DEF ValueInv
    <3>2. CASE file' = Append(file, PeekEncode(enc, f))
      <4> DEFINE e == PeekEncode(enc, f)
      <4>1. e.len = f.len /\ e.value = EncodedValue(enc, f)
        BY DEF PeekEncode
      <4>2. ~Lossy /\ cfg.quantized => enc.recvq0 = 0
        BY DEF Lossy, ValueInv
      <4>3. Quantize(f.value) \in Int
        BY CompleteFields, QuantizerAssumption, Zenon DEF QuantizerAssumption
      <4>4. ~Lossy => e.value = Stored(f)
        BY <4>1, <4>2, <4>3 DEF EncodedValue, Stored
      <4>5. e \in Encoded
        <5>1. panic' = panic /\ ~(cfg.overflow_checks /\ ~IsFull(enc, f) /\ ~Fits(Difference(enc, f)))
          BY <1>1, <1>2, <2>1, <3>2
        <5> QED
          BY <2>2, <5>1, EncodesTime
      <4> HIDE DEF e
      <4>6. /\ Len(file') = Len(file) + 1 /\ file'[Len(file) + 1] = e
            /\ \A i \in 1 .. Len(file) : file'[i] = file[i]
        BY <1>1, <3>2, <4>5, AppendProperties DEF e
      <4> SUFFICES ASSUME NEW i \in 1 .. Len(file')
                   PROVE  /\ file'[i].len = input'[i].len
                          /\ ~Lossy => file'[i].value = Stored(input'[i])
        OBVIOUS
      <4>7. CASE i = Len(file) + 1
        BY <2>2, <2>3, <4>1, <4>4, <4>6, <4>7
      <4>8. CASE i # Len(file) + 1
        <5>1. i \in 1 .. Len(file)
          BY <1>2, <4>6, <4>8
        <5> QED
          BY <2>2, <2>3, <4>6, <5>1 DEF ValueInv
      <4> QED
        BY <4>7, <4>8
    <3> QED
      BY <2>1, <3>1, <3>2
  <2>6. \A i \in 1 .. Len(output') : Seen(output'[i]) = Kept(input'[i])
    <3>1. Len(output) <= Len(input) /\ Len(output) \in Nat
      BY <2>2, LenProperties DEF CodecInv, ProgressInv
    <3> QED
      BY <1>2, <2>2, <2>3, <3>1 DEF ValueInv
  <2> QED
    BY <1>3, <2>2, <2>4, <2>5, <2>6 DEF ValueInv, Stored, Kept, KeptValue, Seen, Lossy
<1>5. CASE NextInput
  BY <1>5 DEF NextInput, New, ValueInv, Stored, Kept, KeptValue, Seen, Lossy
<1>6. CASE Decode
  <2>1. /\ UNCHANGED <<cfg, input, enc, file>>
        /\ output' = Append(output, PeekDecode(dec, file[Len(output) + 1]))
    BY <1>6, ReaderReads
  <2>2. /\ output \in Seq(Returned) /\ Len(output) < Len(file)
        /\ PeekDecode(dec, file[Len(output) + 1]) \in Returned
    BY <1>6, ReaderReads DEF CodecInv, ProgressInv, Decode
  <2>3. Len(output) \in Nat
    BY <2>2, LenProperties
  <2> DEFINE n == Len(output) + 1
             r == PeekDecode(dec, file[n])
  <2>4. Seen(r) = Kept(input[n])
    BY <1>2, <2>2, <2>3, ReadsKept
  <2> HIDE DEF r
  <2>5. /\ Len(output') = n /\ output'[n] = r
        /\ \A i \in 1 .. Len(output) : output'[i] = output[i]
    BY <2>1, <2>2, AppendProperties DEF r
  <2>6. \A i \in 1 .. Len(output') : Seen(output'[i]) = Kept(input[i])
    BY <2>3, <2>4, <2>5 DEF ValueInv
  <2> QED
    BY <1>3, <2>1, <2>6 DEF ValueInv, Stored, Kept, KeptValue, Seen
<1>7. CASE UNCHANGED vars
  BY <1>7 DEF vars, ValueInv, Stored, Kept, KeptValue, Seen, Lossy
<1> QED
  BY <1>4, <1>5, <1>6, <1>7 DEF Next

\* The frames of the writer, as the format keeps them.
Written == [i \in DOMAIN input |-> Kept(input[i])]

LEMMA WrittenIs ==
  ASSUME CodecInv
  PROVE  /\ Written \in Seq(Keepable) /\ Len(Written) = Len(input)
         /\ \A i \in 1 .. Len(input) : Written[i] = Kept(input[i])
<1>1. input \in Seq(Complete)
  BY DEF CodecInv, ProgressInv
<1>2. DOMAIN input = 1 .. Len(input) /\ Len(input) \in Nat
  BY <1>1, LenProperties
<1>3. \A i \in 1 .. Len(input) : input[i] \in Complete
  BY <1>1, ElementOfSeq
<1>4. \A i \in 1 .. Len(input) : Kept(input[i]) \in Keepable
  BY <1>3, KeptIs
<1>5. Written \in [1 .. Len(input) -> Keepable]
  BY <1>2, <1>4 DEF Written
<1>6. Written \in Seq(Keepable)
  BY <1>2, <1>5, SeqDef
<1>7. Len(Written) = Len(input)
  BY <1>2, <1>5, <1>6, LenProperties
<1> QED
  BY <1>2, <1>6, <1>7 DEF Written

\* What the reader has got.
Shown == [i \in DOMAIN output |-> Seen(output[i])]

\* One frame more.
LEMMA ShownGrows ==
  ASSUME output \in Seq(Returned), output' \in Seq(Returned), NEW r, Lossy' <=> Lossy,
         Len(output') = Len(output) + 1, output'[Len(output) + 1] = r,
         \A i \in 1 .. Len(output) : output'[i] = output[i]
  PROVE  Shown' = Append(Shown, Seen(r)) /\ Len(Shown) = Len(output)
<1> DEFINE n == Len(output)
           Got == {Seen(output[i]) : i \in 1 .. n} \cup {Seen(r)}
<1>1. n \in Nat /\ DOMAIN output = 1 .. n /\ DOMAIN output' = 1 .. n + 1
  BY LenProperties
<1>2. Shown = [i \in 1 .. n |-> Seen(output[i])] /\ Shown \in [1 .. n -> Got]
  BY <1>1 DEF Shown
<1>3. Shown' = [i \in 1 .. n + 1 |-> Seen(output'[i])]
  BY <1>1 DEF Shown, Seen
<1> HIDE DEF Got
<1>4. Shown \in Seq(Got) /\ Len(Shown) = n
  <2>1. Shown \in Seq(Got)
    BY <1>1, <1>2, SeqDef
  <2> QED
    BY <1>1, <1>2, <2>1, LenProperties
<1> DEFINE longer == Append(Shown, Seen(r))
<1>5. /\ longer \in Seq(Got) /\ Len(longer) = n + 1 /\ longer[n + 1] = Seen(r)
      /\ \A i \in 1 .. n : longer[i] = Shown[i]
  <2>1. Seen(r) \in Got
    BY DEF Got
  <2> QED
    BY <1>4, <2>1, AppendProperties
<1>6. longer \in [1 .. n + 1 -> Got]
  BY <1>5, LenProperties
<1> HIDE DEF longer
<1>7. \A i \in 1 .. n + 1 : longer[i] = Seen(output'[i])
  <2> SUFFICES ASSUME NEW i \in 1 .. n + 1 PROVE longer[i] = Seen(output'[i])
    OBVIOUS
  <2>1. CASE i = n + 1
    BY <1>5, <2>1
  <2>2. CASE i # n + 1
    <3>1. i \in 1 .. n
      BY <1>1, <2>2
    <3> QED
      BY <1>2, <1>5, <3>1
  <2> QED
    BY <2>1, <2>2
<1>8. Shown' = longer
  BY <1>3, <1>6, <1>7
<1> QED
  BY <1>4, <1>8 DEF longer

LEMMA StepChannel ==
  ASSUME CodecInv, ValueInv, CodecInv', [Next]_vars
  PROVE  [Channel!Next]_Channel!vars
<1>1. input \in Seq(Complete) /\ Len(input) \in Nat
  BY LenProperties DEF CodecInv, ProgressInv
<1>2. /\ Written \in Seq(Keepable) /\ Len(Written) = Len(input)
      /\ \A i \in 1 .. Len(input) : Written[i] = Kept(input[i])
  BY WrittenIs
<1>3. cfg' = cfg /\ (Lossy' <=> Lossy)
  BY DEF Next, Encode, NextInput, Decode, vars, Lossy
<1>4. CASE Encode
  <2>1. PICK f \in Complete : input' = Append(input, f)
    BY <1>4 DEF Encode
  <2>2. Shown' = Shown
    BY <1>3, <1>4 DEF Encode, Shown, Seen
  <2>3. /\ input' \in Seq(Complete) /\ Len(input') = Len(input) + 1
        /\ input'[Len(input) + 1] = f
        /\ \A i \in 1 .. Len(input) : input'[i] = input[i]
    BY <1>1, <2>1, AppendProperties
  <2>4. DOMAIN input' = 1 .. Len(input) + 1
    BY <2>3, LenProperties
  <2>5. Written' = [i \in 1 .. Len(input) + 1 |-> Kept(input'[i])]
    BY <1>3, <2>4 DEF Written, Kept, KeptValue
  <2>6. Kept(f) \in Keepable
    BY KeptIs
  <2> DEFINE longer == Append(Written, Kept(f))
  <2>7. /\ longer \in Seq(Keepable) /\ Len(longer) = Len(input) + 1
        /\ longer[Len(input) + 1] = Kept(f)
        /\ \A i \in 1 .. Len(input) : longer[i] = Kept(input[i])
    BY <1>2, <2>6, AppendProperties
  <2>8. \A i \in 1 .. Len(input) + 1 : longer[i] = Kept(input'[i])
    BY <1>1, <2>3, <2>7
  <2>9. Written' = longer
    <3>1. longer \in [1 .. Len(input) + 1 -> Keepable]
      BY <2>7, LenProperties
    <3> HIDE DEF longer
    <3> QED
      BY <2>5, <2>8, <3>1
  <2>10. Channel!Write
    BY <2>2, <2>6, <2>9 DEF Channel!Write, Written, Shown
  <2> QED
    BY <2>10 DEF Channel!Next
<1>5. CASE NextInput \/ UNCHANGED vars
  <2>1. input' = input /\ output' = output /\ cfg' = cfg
    BY <1>5 DEF NextInput, vars
  <2>2. Written' = Written /\ Shown' = Shown
    BY <1>3, <2>1 DEF Written, Kept, KeptValue, Shown, Seen
  <2> QED
    BY <2>2 DEF Channel!vars, Written, Shown
<1>6. CASE Decode
  <2> DEFINE n == Len(output) + 1
  <2>1. /\ input' = input
        /\ output' = Append(output, PeekDecode(dec, file[n]))
    BY <1>6, ReaderReads
  <2>2. /\ Len(output) < Len(file) /\ output \in Seq(Returned) /\ file \in Seq(Encoded)
        /\ Len(input) = Len(file) \/ Len(input) = Len(file) + 1
    BY <1>6 DEF CodecInv, ProgressInv, Decode
  <2>3. Len(output) \in Nat /\ Len(file) \in Nat
    BY <2>2, LenProperties
  <2>4. n <= Len(file) /\ n \in 1 .. Len(input)
    BY <2>2, <2>3
  <2> DEFINE r == PeekDecode(dec, file[n])
  <2>5. Seen(r) = Written[n] /\ r \in Returned
    BY <1>2, <1>6, <2>4, ReadsKept, ReaderReads
  <2> HIDE DEF r
  <2>6. /\ output' \in Seq(Returned) /\ Len(output') = n /\ output'[n] = r
        /\ \A i \in 1 .. Len(output) : output'[i] = output[i]
    BY <2>1, <2>2, <2>5, AppendProperties DEF r
  <2>7. Shown' = Append(Shown, Written[n]) /\ Len(Shown) = Len(output)
    BY <1>3, <2>2, <2>5, <2>6, ShownGrows
  <2>8. Written' = Written
    BY <1>3, <2>1 DEF Written, Kept, KeptValue
  <2>9. Len(Shown) < Len(Written) /\ n = Len(Shown) + 1
    BY <1>2, <2>3, <2>4, <2>7
  <2>10. Channel!Read
    BY <2>7, <2>8, <2>9 DEF Channel!Read, Written, Shown
  <2> QED
    BY <2>10 DEF Channel!Next
<1> QED
  BY <1>4, <1>5, <1>6 DEF Next

\* A file of frames is a channel, for every configuration and every sequence of
\* frames: FDCodecState::decode undoes encode, in order and for every time, where
\* differences wrap, where times go back and where files are joined; also the
\* values, unless a quantizer and delta_enc are combined.
THEOREM FramesKept == Spec => KeepsFrames
<1>1. Init => Channel!Init
  <2> SUFFICES ASSUME Init PROVE Channel!Init
    OBVIOUS
  <2>1. input = <<>> /\ output = <<>>
    BY DEF Init
  <2>2. Written = <<>> /\ Shown = <<>>
    <3>1. DOMAIN input = {} /\ DOMAIN output = {}
      BY <2>1
    <3> QED
      BY <3>1 DEF Written, Shown
  <2> QED
    BY <2>2 DEF Channel!Init, Written, Shown
<1>2. CodecInv /\ ValueInv /\ [Next]_vars => CodecInv' /\ ValueInv'
  BY StepCodec, StepValue
<1>3. CodecInv /\ ValueInv /\ CodecInv' /\ [Next]_vars => [Channel!Next]_Channel!vars
  BY StepChannel
<1> QED
  BY <1>1, <1>2, <1>3, InitCodec, InitValue, PTL DEF Spec, KeepsFrames, Channel!Spec
=============================================================================

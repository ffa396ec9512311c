------------------------------ MODULE FDCodec -------------------------------
(***************************************************************************)
(* FDCodecState of zzping-lib/src/framedataq.rs: the codec of FrameDataQ   *)
(* files, as datareadq and fdqread write them and FDCodecIter reads them.  *)
(* A frame is its time and one value that stands for its seven             *)
(* percentiles, which the codec treats alike. The quantizer is a           *)
(* parameter. subsec_ms is a u32, so the codec's sums wrap or, in a build  *)
(* with overflow checks, panic.                                            *)
(***************************************************************************)
EXTENDS Integers, Sequences

CONSTANTS
  Width,            \* values of a u32
  FullEncodeSecs,   \* FDCodecCfg.full_encode_secs
  Configs,          \* the rest of FDCodecCfg, and the kind of build
  Quantize(_),      \* LinearLogQuantizer::encode
  Dequantize(_),    \* LinearLogQuantizer::decode
  Seconds, Millis,  \* times of the frames
  Latencies,        \* values of the frames
  MaxFrames         \* bound of the frames in a file

PerSec == 1000

\* A full_encode_secs of less than 49 days: the milliseconds of a delta fit.
ASSUME WidthAssumption ==
  /\ Width \in Nat
  /\ FullEncodeSecs \in Nat
  /\ FullEncodeSecs * PerSec + PerSec <= Width

ASSUME FrameAssumption ==
  /\ Seconds \subseteq Nat
  /\ Millis \subseteq 0 .. PerSec - 1
  /\ Latencies \subseteq Nat
  /\ MaxFrames \in Nat

\* recv_llq is Some; delta_enc; the build panics where a sum overflows.
ASSUME ConfigAssumption ==
  Configs \subseteq [quantized : BOOLEAN, delta_enc : BOOLEAN, overflow_checks : BOOLEAN]

ASSUME QuantizerAssumption ==
  \A v \in Latencies \cup {-1} : Quantize(v) \in Int /\ Dequantize(Quantize(v)) \in Int

VARIABLES
  cfg,     \* the configuration, which the header carries from writer to reader
  input,   \* the frames the writer took
  enc,     \* the codec of the writer
  file,    \* the encoded frames
  dec,     \* the codec of the reader
  output,  \* the frames the reader returned
  panic    \* the thread that panicked: "none", "writer" or "reader"

vars == <<cfg, input, enc, file, dec, output, panic>>

\* FrameDataQ<Complete>: a frame without pings holds -1.
Complete ==
  [ts : Seconds, sub : Millis, len : {1}, value : Latencies]
    \cup [ts : Seconds, sub : Millis, len : {0}, value : {-1}]

NoTime == -1
Some(ts) == ts # NoTime

\* FrameDataQ<Encoded>: ts is NoTime in a delta frame, and sub a difference.
Encoded == [ts : Nat \cup {NoTime}, sub : 0 .. Width - 1, len : {0, 1}, value : Int]

New == [ts |-> NoTime, sub |-> 0, recvq0 |-> 0]

-----------------------------------------------------------------------------
(* The arithmetic of u32.                                                  *)

Fits(n) == n \in 0 .. Width - 1

Wrapped(n) == IF n < 0 THEN n + Width ELSE IF n >= Width THEN n - Width ELSE n

-----------------------------------------------------------------------------
(* FDCodecState.                                                           *)

\* Fault: the start of a file is not looked at.
FullOnJumpOnly(st, f) == f.ts - st.ts >= FullEncodeSecs \/ f.ts < st.ts

\* peek_encode writes the time in full at the start, after a gap, and when it
\* goes back to an earlier second.
IsFull(st, f) ==
  \/ ~Some(st.ts)
  \/ f.ts - st.ts >= FullEncodeSecs
  \/ f.ts < st.ts

\* Fault: the difference is to the start of the last frame's second.
DifferenceToSecond(st, f) == (f.ts - st.ts) * PerSec + f.sub

\* The milliseconds since the last frame; negative if time goes back within a
\* second.
Difference(st, f) == (f.ts - st.ts) * PerSec + f.sub - st.sub

EncodedTime(st, f) ==
  IF IsFull(st, f)
  THEN [ts |-> f.ts, sub |-> f.sub]
  ELSE [ts |-> NoTime, sub |-> Wrapped(Difference(st, f))]

EncodedValue(st, f) ==
  IF cfg.quantized /\ f.len > 0 THEN Quantize(f.value) - st.recvq0 ELSE f.value

PeekEncode(st, f) ==
  LET time == EncodedTime(st, f) IN
  [ts |-> time.ts, sub |-> time.sub, len |-> f.len, value |-> EncodedValue(st, f)]

\* push: the frame becomes the reference of the next one.
Push(st, f) ==
  [ts |-> f.ts, sub |-> f.sub,
   recvq0 |-> IF ~cfg.delta_enc THEN st.recvq0
              ELSE IF cfg.quantized THEN Quantize(f.value) ELSE f.value]

\* The subsec_ms that peek_decode splits into seconds and milliseconds.
DecodedSub(st, e) == IF Some(e.ts) THEN e.sub ELSE Wrapped(e.sub + st.sub)

PeekDecode(st, e) ==
  LET sub == DecodedSub(st, e) IN
  [ts |-> (IF Some(e.ts) THEN e.ts ELSE st.ts) + sub \div PerSec,
   sub |-> sub % PerSec,
   len |-> e.len,
   value |-> IF cfg.quantized /\ e.len > 0 THEN Dequantize(e.value) ELSE e.value]

-----------------------------------------------------------------------------
Init ==
  /\ cfg \in Configs
  /\ input = <<>>
  /\ enc = New
  /\ file = <<>>
  /\ dec = New
  /\ output = <<>>
  /\ panic = "none"

\* encode, and the writing of the frame. A checked build panics where the
\* difference is negative.
Encode ==
  /\ panic = "none"
  /\ Len(input) < MaxFrames
  /\ \E f \in Complete :
       /\ input' = Append(input, f)
       /\ IF cfg.overflow_checks /\ ~IsFull(enc, f) /\ ~Fits(Difference(enc, f))
          THEN /\ panic' = "writer"
               /\ UNCHANGED <<enc, file>>
          ELSE /\ file' = Append(file, PeekEncode(enc, f))
               /\ enc' = Push(enc, f)
               /\ UNCHANGED panic
  /\ UNCHANGED <<cfg, dec, output>>

\* datareadq: the next input file is encoded by a new codec and joined.
NextInput ==
  /\ panic = "none"
  /\ enc' = New
  /\ UNCHANGED <<cfg, input, file, dec, output, panic>>

\* FDCodecIter::next on a frame: decode panics on a difference without a
\* reference and, checked, on an overflow.
Decode ==
  /\ panic # "reader"
  /\ Len(output) < Len(file)
  /\ LET e == file[Len(output) + 1] IN
       IF ~Some(e.ts) /\ (~Some(dec.ts) \/ (cfg.overflow_checks /\ ~Fits(e.sub + dec.sub)))
       THEN /\ panic' = "reader"
            /\ UNCHANGED <<dec, output>>
       ELSE /\ output' = Append(output, PeekDecode(dec, e))
            /\ dec' = Push(dec, PeekDecode(dec, e))
            /\ UNCHANGED panic
  /\ UNCHANGED <<cfg, input, enc, file>>

Next == Encode \/ NextInput \/ Decode

Spec == Init /\ [][Next]_vars

-----------------------------------------------------------------------------
(* Properties.                                                             *)

Before(f, g) == f.ts < g.ts \/ (f.ts = g.ts /\ f.sub < g.sub)

\* The writer panics only on frames that go back in time, as the log of a
\* daemon whose clock was set does; the reader never does, neither at the
\* joints of a file made of several nor on a difference without a reference.
NoPanic ==
  /\ panic # "reader"
  /\ panic = "writer" => \E i \in 2 .. Len(input) : Before(input[i], input[i - 1])

\* delta_enc has the writer take quantized values as differences to the last
\* frame, which the reader does not add up again: the values are lost.
Lossy == cfg.quantized /\ cfg.delta_enc
NoValue == -1

\* What a file keeps of a frame: its time to the millisecond, whether it has
\* pings and, unless the values are lost, these as precise as the quantizer
\* keeps them.
KeptValue(f) ==
  IF Lossy THEN NoValue
  ELSE IF cfg.quantized /\ f.len > 0 THEN Dequantize(Quantize(f.value)) ELSE f.value
Kept(f) == [f EXCEPT !.value = KeptValue(f)]

\* What the reader gets of it.
Seen(f) == [f EXCEPT !.value = IF Lossy THEN NoValue ELSE @]

KeptValues == {NoValue} \cup {Dequantize(Quantize(v)) : v \in Latencies}
Keepable == Complete \cup {[f EXCEPT !.value = v] : f \in Complete, v \in KeptValues}

Channel == INSTANCE FrameChannel WITH
  Frames <- Keepable,
  written <- [i \in DOMAIN input |-> Kept(input[i])],
  read <- [i \in DOMAIN output |-> Seen(output[i])]

\* The reader gets back the frames written, in order and with their times, in
\* every configuration, also where times go back, unsigned differences wrap or
\* files are joined; and with their values in every one but that of delta_enc
\* with a quantizer: delta_enc alone changes nothing.
KeepsFrames == Channel!Spec
=============================================================================

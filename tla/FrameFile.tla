----------------------------- MODULE FrameFile ------------------------------
(***************************************************************************)
(* A FrameDataQ file: its header and the MessagePack form of an encoded    *)
(* frame (RMPCodec, FDCodecState::try_get_header and try_from_header,      *)
(* FDCodecIter of zzping-lib/src/framedataq.rs). The means of inflight and *)
(* lost packets are counted in halves.                                     *)
(***************************************************************************)
EXTENDS DynRmp

CONSTANTS
  Schema, Version,   \* HEADER_SCHEMA, HEADER_VERSION of the reader
  NumRecv            \* the seven percentiles of recv_us

ASSUME NumRecvAssumption == NumRecv \in Nat

\* f32::round, of halves.
Rounded(halves) == (halves + 1) \div 2

NoTime == -1

-----------------------------------------------------------------------------
(* The header. recv_llq is the reciprocal of the precision, or 0 for None. *)

\* try_get_header, by a program that may be of another version.
GetHeader(cfg) ==
  WriteMapLen(5)
    \o WriteStr("schema") \o WriteStr(cfg.schema)
    \o WriteStr("version") \o WriteUint(cfg.version)
    \o WriteStr("full_encode_secs") \o WriteUint(cfg.full_encode_secs)
    \o WriteStr("recv_llq") \o (IF cfg.recv_llq = 0 THEN WriteNil ELSE WriteF64(cfg.recv_llq))
    \o WriteStr("delta_enc") \o WriteBool(cfg.delta_enc)

Is(header, field, type) == field \in DOMAIN header /\ header[field].type = type

\* Fault: older versions only.
SupportedOlder(header) ==
  /\ Is(header, "schema", "String") /\ header["schema"].v = Schema
  /\ Is(header, "version", "Integer") /\ header["version"].v < Version
  /\ Is(header, "full_encode_secs", "Integer")
  /\ Is(header, "recv_llq", "Null") \/ Is(header, "recv_llq", "Float")
  /\ Is(header, "delta_enc", "Bool")

\* The checks of try_from_header, and the panic of as_bool.
Supported(header) ==
  /\ Is(header, "schema", "String") /\ header["schema"].v = Schema
  /\ Is(header, "version", "Integer") /\ header["version"].v <= Version
  /\ Is(header, "full_encode_secs", "Integer")
  /\ Is(header, "recv_llq", "Null") \/ Is(header, "recv_llq", "Float")
  /\ Is(header, "delta_enc", "Bool")

\* try_from_header: the configuration and the place of the first frame.
TryFromHeader(file) ==
  Then(Read(file, 1), LAMBDA h :
    IF h.type # "Map" \/ ~Supported(h.v) THEN Failed("header")
    ELSE [ok |-> TRUE, pos |-> h.pos,
          full_encode_secs |-> h.v["full_encode_secs"].v,
          recv_llq |-> h.v["recv_llq"].v,
          delta_enc |-> h.v["delta_enc"].v])

-----------------------------------------------------------------------------
(* A frame. Without replies it holds -1 for each percentile.               *)

EncodedFrame ==
  {f \in [timestamp : Nat \cup {NoTime}, subsec_ms : Nat,
          inflight : Nat, lost_packets : Nat,
          recv_us_len : Nat, recv_us : [1 .. NumRecv -> Int]] :
     f.recv_us_len = 0 => f.recv_us = [i \in 1 .. NumRecv |-> -1]}

WriteInt(n) == IF n < 0 THEN WriteSint(n) ELSE WriteUint(n)

\* The first percentile, and what each is above the one before.
Steps(recv_us) == [i \in DOMAIN recv_us |-> recv_us[i] - (IF i = 1 THEN 0 ELSE recv_us[i - 1])]

\* Fault: one of them has to be there in full.
IsIdleRounded(f) == Rounded(f.inflight) = 0 \/ Rounded(f.lost_packets) = 0

IsIdle(f) == Rounded(f.inflight) + Rounded(f.lost_packets) = 0

Concat(seqs) == FoldLeft(\o, <<>>, seqs)

\* try_to_rmp.
TryToRmp(f) ==
  LET steps == Steps(f.recv_us) IN
  (IF f.timestamp = NoTime THEN WriteNil ELSE WriteUint(f.timestamp))
    \o WriteUint(f.subsec_ms)
    \o (IF IsIdle(f) THEN WriteSint(-1)
        ELSE WriteUint(Rounded(f.inflight)) \o WriteUint(Rounded(f.lost_packets)))
    \o WriteUint(f.recv_us_len)
    \o (IF f.recv_us_len = 0 THEN <<>>
        ELSE WriteArrayLen(NumRecv) \o Concat([i \in DOMAIN steps |-> WriteInt(steps[i])]))

\* The sums that take Steps back.
Sums(steps) == [n \in DOMAIN steps |-> FoldLeft(+, 0, SubSeq(steps, 1, n))]

\* The first value of a frame: where its marker is missing, XError::EOF.
Timestamp(file, pos) ==
  LET r == Read(file, pos) IN
  IF ~r.ok /\ r.err = "eof" THEN Failed("EOF")
  ELSE IF r.ok /\ r.type \notin {"Null", "Integer"} THEN Failed("want Null or Int")
  ELSE r

\* Inflight and lost packets: two numbers, or -1 for none of both.
Missing(file, pos) ==
  Then(ReadRmpInt(file, pos), LAMBDA i :
    IF i.v = -1 THEN [ok |-> TRUE, inflight |-> 0, lost_packets |-> 0, pos |-> i.pos]
    ELSE Then(ReadRmpInt(file, i.pos), LAMBDA l :
      [ok |-> TRUE, inflight |-> 2 * i.v, lost_packets |-> 2 * l.v, pos |-> l.pos]))

\* The percentiles, if there are any.
Percentiles(file, pos, len) ==
  IF len = 0 THEN [ok |-> TRUE, v |-> [i \in 1 .. NumRecv |-> -1], pos |-> pos]
  ELSE Then(Read(file, pos), LAMBDA r :
    IF r.type # "Array" THEN Failed("recv_var slice") ELSE [r EXCEPT !.v = Sums(r.v)])

\* try_from_rmp: the frame and the place behind it.
TryFromRmp(file, pos) ==
  Then(Timestamp(file, pos), LAMBDA ts :
  Then(ReadRmpInt(file, ts.pos), LAMBDA sub :
  Then(Missing(file, sub.pos), LAMBDA m :
  Then(ReadRmpInt(file, m.pos), LAMBDA len :
  Then(Percentiles(file, len.pos, len.v), LAMBDA recv :
    [ok |-> TRUE, pos |-> recv.pos,
     v |-> [timestamp |-> IF ts.type = "Null" THEN NoTime ELSE ts.v,
            subsec_ms |-> sub.v,
            inflight |-> m.inflight, lost_packets |-> m.lost_packets,
            recv_us_len |-> len.v, recv_us |-> recv.v]])))))
=============================================================================

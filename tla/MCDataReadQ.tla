---------------------------- MODULE MCDataReadQ -----------------------------
(* An instance of DataReadQ for TLC.                                       *)
EXTENDS DataReadQ

Full == [timestamp |-> 9, subsec_ms |-> 2, inflight |-> 0, lost_packets |-> 1,
         recv_us_len |-> 0, recv_us |-> <<-1, -1, -1>>]
Delta == [timestamp |-> NoTime, subsec_ms |-> 8, inflight |-> 0, lost_packets |-> 0,
          recv_us_len |-> 2, recv_us |-> <<-1, 5, 4>>]
Idle == [timestamp |-> NoTime, subsec_ms |-> 0, inflight |-> 2, lost_packets |-> 0,
         recv_us_len |-> 4, recv_us |-> <<9, 2, 2>>]

SomeLogs == {<<Full>>, <<Full, Delta, Idle>>}

Cfg(schema, version, llq) ==
  [schema |-> schema, version |-> version, full_encode_secs |-> 60, recv_llq |-> llq,
   delta_enc |-> llq = 0]
SomeCfgs == {Cfg("FDCodec", 3, 5), Cfg("FDCodec", 2, 0), Cfg("FDCodec", 4, 0), Cfg("Other", 3, 0)}
=============================================================================

------------------------------- MODULE Pinger -------------------------------
(***************************************************************************)
(* The pinger core of zzping-daemon: the destinations with their queues    *)
(* (transport.rs, Destination), the reader thread that stamps replies, and *)
(* the main thread's round recv_all / send_all / cleanup (transport.rs,    *)
(* Comms; main.rs, the loop of main).                                      *)
(*                                                                         *)
(* Time is an integer clock that any two steps may be separated by, so a   *)
(* preempted thread and a slow round are ordinary behaviours. Queues are   *)
(* sets of records: a packet carries its ordinal n among the packets of    *)
(* its destination, a name the program does not keep, so two packets are   *)
(* never equal and Cardinality is the length of the Vec. No Vec is read    *)
(* in an order that matters here except the reader's buffer, whose order   *)
(* is that of the reception times it holds.                                *)
(***************************************************************************)
EXTENDS Integers, FiniteSets

CONSTANTS
  NumDest,         \* number of target hosts (cfg.ping_targets)
  Interval,        \* Interval[d]: time between pings of destination d
  Seqs,            \* ICMP sequence numbers (u16)
  Idents,          \* ICMP identifiers (u16)
  Foreign,         \* ICMP packets the socket delivers that answer no ping
  ForgetInflight,  \* CommConfig.forget_inflight
  ForgetLost,      \* CommConfig.forget_lost
  ForgetRecv,      \* CommConfig.forget_recv
  Delay,           \* Comms::get_delay, a round's length and Comms.delay
  CliRefresh,      \* cli_refresh of main
  SyncTime,        \* sync_time of the reader thread
  RndMin, RndMax,  \* gen_range(16..64) of Destination::send
  Jitter,          \* upper bound of gen_range(0..101) microseconds
  SendLimit,       \* send_all(2)
  MaxTime,         \* bound of the clock
  MaxSend,         \* bound of the pings sent to one destination
  MaxBuffered      \* bound of the replies between reader and matcher

Dest == 1 .. NumDest

ASSUME DestAssumption == NumDest \in Nat \ {0}

\* add_destination panics on a zero interval.
ASSUME IntervalAssumption == Interval \in [Dest -> Nat \ {0}]

ASSUME PacketAssumption ==
  /\ Seqs \subseteq Nat
  /\ 1 \in Seqs
  /\ Foreign \subseteq [ident : Idents, seqn : Seqs, from : {0}, n : {0}]

ASSUME TimingAssumption ==
  /\ ForgetInflight \in Nat
  /\ ForgetLost \in Nat
  /\ ForgetRecv \in Nat
  /\ Delay \in Nat
  /\ CliRefresh \in Nat
  /\ SyncTime \in Nat
  /\ Jitter \in Nat

ASSUME ThrottleAssumption ==
  /\ RndMin \in Nat
  /\ RndMax \in Nat
  /\ RndMin <= RndMax
  /\ SendLimit \in Nat

ASSUME BoundAssumption ==
  /\ MaxTime \in Nat
  /\ MaxSend \in Nat
  /\ MaxBuffered \in Nat

VARIABLES
  now,             \* the monotone clock (Instant)
  ident, seq, last_pckt_sent, inflight, recv, lost, sent_count, recv_count,
  wire,            \* what the network may deliver: an answer to every ping sent
  buffer, last_sync,                \* locals of receiver_thread
  readbuf,                          \* Comms.readbuf, shared by the threads
  pc,              \* where the main thread is in its round
  starttime, batch,                 \* locals of recv_all
  asked, turn, count,               \* locals of send_all
  send_start,      \* when tx.send_to was entered for the ping being sent
  last_refresh     \* local of main

destVars == <<ident, seq, last_pckt_sent, inflight, recv, lost, sent_count, recv_count>>
readerVars == <<buffer, last_sync>>
roundVars == <<starttime, batch, asked, turn, count, send_start, last_refresh>>
vars == <<now, destVars, wire, readerVars, readbuf, pc, roundVars>>

-----------------------------------------------------------------------------
(* Packets.                                                                *)

\* An ICMP packet as the socket delivers it. "from" and "n" tell which ping it
\* answers; the code sees only ident and seqn (icmp.rs, PacketData).
Datagram == [ident : Idents, seqn : Seqs, from : 0 .. NumDest, n : Nat]

\* A PacketData once the reader thread has stamped it.
Stamped == [pkt : Datagram, received : Nat]

InflightPacket == [n : Nat, seqn : Seqs, sent : Nat]
ReceivedPacket == [n : Nat, seqn : Seqs, sent : Nat, received : Int, by : Datagram]
LostPacket == [n : Nat, sent : Nat, declared : Nat]

\* Duration arithmetic saturates at zero.
Saturating(t) == IF t > 0 THEN t ELSE 0

\* sent_before: the packet was sent less than "wait" ago.
SentBefore(p, t, wait) == Saturating(t - p.sent) < wait
SentAfter(p, t, wait) == ~SentBefore(p, t, wait)

Rnd == RndMin .. RndMax
MinDelay == Delay \div 2

-----------------------------------------------------------------------------
(* Initial state: Comms::new, add_destination for every target, and the    *)
(* first call of recv_all. last_refresh lies 60 s back, more than any      *)
(* cli_refresh (a second at most).                                         *)

Init ==
  /\ now = 0
  /\ ident \in [Dest -> Idents]
  /\ seq = [d \in Dest |-> 1]
  /\ last_pckt_sent = [d \in Dest |-> -Interval[d]]
  /\ inflight = [d \in Dest |-> {}]
  /\ recv = [d \in Dest |-> {}]
  /\ lost = [d \in Dest |-> {}]
  /\ sent_count = [d \in Dest |-> 0]
  /\ recv_count = [d \in Dest |-> 0]
  /\ wire = {}
  /\ buffer = {}
  /\ last_sync = 0
  /\ readbuf = {}
  /\ pc = "drain"
  /\ starttime = 0
  /\ batch = {}
  /\ asked = {}
  /\ turn = 1
  /\ count = 0
  /\ send_start = 0
  /\ last_refresh = -(CliRefresh + 1)

-----------------------------------------------------------------------------
(* The reader thread: one turn of its loop. The packet, if one came, is    *)
(* stamped and buffered; when the last sync is old enough the thread tries *)
(* the lock, which the main thread can hold only while it drains.          *)

ReaderTurn ==
  /\ pc # "crashed"
  /\ \E got \in {{}} \cup {{g} : g \in wire \cup Foreign} :
       LET filled == buffer \cup {[pkt |-> g, received |-> now] : g \in got} IN
       /\ Cardinality(filled \cup readbuf \cup batch) <= MaxBuffered
       /\ \/ /\ now - last_sync > SyncTime
             /\ readbuf' = readbuf \cup filled
             /\ buffer' = {}
             /\ last_sync' = now
          \/ /\ now - last_sync <= SyncTime \/ pc = "drain"
             /\ buffer' = filled
             /\ UNCHANGED <<readbuf, last_sync>>
  /\ UNCHANGED <<now, destVars, wire, pc, roundVars>>

-----------------------------------------------------------------------------
(* Comms::recv_all.                                                        *)

\* Takes the shared buffer under the lock, which it releases at once.
Drain ==
  /\ pc = "drain"
  /\ batch' = readbuf
  /\ readbuf' = {}
  /\ pc' = "match"
  /\ UNCHANGED <<now, destVars, wire, readerVars, starttime, asked, turn, count,
                 send_start, last_refresh>>

\* Faults: the clocks are not compared; the identifier is not.
CompletedUnordered(d, r) ==
  {p \in inflight[d] : ident[d] = r.pkt.ident /\ p.seqn = r.pkt.seqn}
CompletedAnyIdent(d, r) ==
  {p \in inflight[d] : p.seqn = r.pkt.seqn /\ r.received >= p.sent}

\* The packets of d that r completes: the sequence number agrees and the
\* reception is not earlier than the sending (checked_duration_since). There
\* may be several.
Completed(d, r) ==
  {p \in inflight[d] : /\ ident[d] = r.pkt.ident
                       /\ p.seqn = r.pkt.seqn
                       /\ r.received >= p.sent}

Completion(p, r) ==
  [n |-> p.n, seqn |-> p.seqn, sent |-> p.sent,
   received |-> r.received - p.sent, by |-> r.pkt]

\* Fault: the completed packets stay in the queue.
UnansweredForgotten(d, r) == inflight[d]

\* What recv's retain leaves in flight.
Unanswered(d, r) == inflight[d] \ Completed(d, r)

\* Destination::recv for one drained reply, on every destination.
Match ==
  /\ pc = "match"
  /\ \E r \in batch :
       /\ \A other \in batch : r.received <= other.received
       /\ inflight' = [d \in Dest |-> Unanswered(d, r)]
       /\ recv' = [d \in Dest |-> recv[d] \cup {Completion(p, r) : p \in Completed(d, r)}]
       /\ recv_count' = [d \in Dest |-> recv_count[d] + Cardinality(Completed(d, r))]
       /\ batch' = batch \ {r}
  /\ UNCHANGED <<now, ident, seq, last_pckt_sent, lost, sent_count, wire, readerVars,
                 readbuf, pc, starttime, asked, turn, count, send_start, last_refresh>>

\* The batch is done: sleep for what is left of the timeout, or return to
\* send_all, which may begin with any host.
Matched ==
  /\ pc = "match"
  /\ batch = {}
  /\ IF now - starttime <= Delay
     THEN pc' = "sleep" /\ UNCHANGED turn
     ELSE pc' = "send" /\ turn' \in Dest
  /\ UNCHANGED <<now, destVars, wire, readerVars, readbuf, starttime, batch, asked, count,
                 send_start, last_refresh>>

Wake ==
  /\ pc = "sleep"
  /\ now >= starttime + Delay
  /\ pc' = "drain"
  /\ UNCHANGED <<now, destVars, wire, readerVars, readbuf, roundVars>>

-----------------------------------------------------------------------------
(* Comms::send_all. Its sort key, the time from now until last_pckt_sent,  *)
(* saturates at zero for every destination, and an unstable sort leaves    *)
(* equal keys in any order: "asked" are the hosts that this call is done   *)
(* with, "turn" is the one it is at.                                       *)

\* Faults: the number is compared with one packet less; a host with nothing in
\* flight is pinged at once; the end of the destinations is missed.
AdmittedOneMore(d) == \E rnd \in Rnd : rnd + 1 >= Cardinality(inflight[d])
DueWhenIdle(d) ==
  inflight[d] = {} \/ Saturating(now - last_pckt_sent[d]) + MinDelay >= Interval[d]
AfterSendPastEnd(sent) ==
  IF SendLimit > 0 /\ sent >= SendLimit
  THEN pc' = "timer" /\ asked' = {} /\ turn' = 1 /\ count' = 0
  ELSE /\ pc' = "send"
       /\ asked' = asked \cup {turn}
       /\ turn' \in (1 .. NumDest + 1) \ asked'
       /\ count' = sent

\* Destination::send refuses when the drawn number is below the queue length.
Throttled(d) == \E rnd \in Rnd : rnd < Cardinality(inflight[d])
Admitted(d) == \E rnd \in Rnd : rnd >= Cardinality(inflight[d])

\* Enough of the interval has gone by.
Due(d) == Saturating(now - last_pckt_sent[d]) + MinDelay >= Interval[d]

\* What follows the call of send for destination "turn": another one, or the
\* end of send_all after the last one or after "limit" pings.
AfterSend(sent) ==
  IF asked \cup {turn} = Dest \/ (SendLimit > 0 /\ sent >= SendLimit)
  THEN /\ pc' = "timer"
       /\ asked' = {}
       /\ turn' = 1
       /\ count' = 0
  ELSE /\ pc' = "send"
       /\ asked' = asked \cup {turn}
       /\ turn' \in Dest \ asked'
       /\ count' = sent

\* send returns false.
Skip ==
  /\ pc = "send"
  /\ Throttled(turn) \/ (Admitted(turn) /\ ~Due(turn))
  /\ AfterSend(count)
  /\ UNCHANGED <<now, destVars, wire, readerVars, readbuf, starttime, batch,
                 send_start, last_refresh>>

\* tx.send_to: from here on the network may answer.
Transmit ==
  /\ pc = "send"
  /\ Admitted(turn) /\ Due(turn)
  /\ sent_count[turn] < MaxSend
  /\ wire' = wire \cup {[ident |-> ident[turn], seqn |-> seq[turn],
                         from |-> turn, n |-> sent_count[turn] + 1]}
  /\ send_start' = now
  /\ pc' = "stamp"
  /\ UNCHANGED <<now, destVars, readerVars, readbuf, starttime, batch, asked, turn, count,
                 last_refresh>>

\* tx.send_to fails (network unreachable): its unwrap ends the program.
TransmitFails ==
  /\ pc = "send"
  /\ Admitted(turn) /\ Due(turn)
  /\ pc' = "crashed"
  /\ UNCHANGED <<now, destVars, wire, readerVars, readbuf, roundVars>>

\* The rest of send: the sending time is read after send_to has returned, the
\* time of the last packet after that, up to Jitter into the past.
Stamp ==
  /\ pc = "stamp"
  /\ \E sent \in send_start .. now, j \in 0 .. Jitter, s \in Seqs :
       /\ inflight' = [inflight EXCEPT ![turn] = @ \cup
            {[n |-> sent_count[turn] + 1, seqn |-> seq[turn], sent |-> sent]}]
       /\ last_pckt_sent' = [last_pckt_sent EXCEPT ![turn] = now - j]
       /\ seq' = [seq EXCEPT ![turn] = s]
  /\ sent_count' = [sent_count EXCEPT ![turn] = @ + 1]
  /\ AfterSend(count + 1)
  /\ send_start' = 0
  /\ UNCHANGED <<now, ident, recv, lost, recv_count, wire, readerVars, readbuf,
                 starttime, batch, last_refresh>>

-----------------------------------------------------------------------------
(* The refresh of main and Comms::cleanup.                                 *)

\* main: is it time to refresh? If not, recv_all is called again.
Timer ==
  /\ pc = "timer"
  /\ IF now - last_refresh > CliRefresh
     THEN /\ pc' = "cleanup"
          /\ last_refresh' = now
          /\ UNCHANGED starttime
     ELSE /\ pc' = "drain"
          /\ starttime' = now
          /\ UNCHANGED last_refresh
  /\ UNCHANGED <<now, destVars, wire, readerVars, readbuf, batch, asked, turn, count,
                 send_start>>

\* Faults: the lost are those older than the limit, not those at it; the limit
\* of the lost queue is used to declare them, or to remove pings from flight;
\* received packets are kept by the time they were received.
OverduePast(d) == {p \in inflight[d] : now - p.sent > ForgetRecv}
OverdueSooner(d) == {p \in inflight[d] : SentAfter(p, now, ForgetLost)}
KeptInflightLonger(d) == {p \in inflight[d] : SentBefore(p, now, ForgetInflight + ForgetLost)}
KeptRecvByReception(d) ==
  {p \in recv[d] : Saturating(now - (p.sent + p.received)) < ForgetInflight + ForgetRecv}

\* What cleanup adds to the lost queue of d: the limit it reads is forget_recv.
Overdue(d) == {p \in inflight[d] : SentAfter(p, now, ForgetRecv)}

Declared(p) == [n |-> p.n, sent |-> p.sent, declared |-> now]

\* What cleanup leaves in the queues of d.
KeptInflight(d) == {p \in inflight[d] : SentBefore(p, now, ForgetInflight)}

KeptRecv(d) == {p \in recv[d] : SentBefore(p, now, ForgetInflight + ForgetRecv)}

KeptLost(d) ==
  {p \in lost[d] \cup {Declared(p) : p \in Overdue(d)} :
     SentBefore(p, now, ForgetInflight + ForgetLost)}

\* cleanup, then main's statistics, UDP messages and log frames, which only
\* read the queues, and the next call of recv_all.
Cleanup ==
  /\ pc = "cleanup"
  /\ inflight' = [d \in Dest |-> KeptInflight(d)]
  /\ recv' = [d \in Dest |-> KeptRecv(d)]
  /\ lost' = [d \in Dest |-> KeptLost(d)]
  /\ starttime' = now
  /\ pc' = "drain"
  /\ UNCHANGED <<now, ident, seq, last_pckt_sent, sent_count, recv_count, wire, readerVars,
                 readbuf, batch, asked, turn, count, send_start, last_refresh>>

-----------------------------------------------------------------------------
Tick ==
  /\ now < MaxTime
  /\ pc # "crashed"
  /\ now' = now + 1
  /\ UNCHANGED <<destVars, wire, readerVars, readbuf, pc, roundVars>>

RecvAll == Drain \/ Match \/ Matched \/ Wake
SendAll == Skip \/ Transmit \/ TransmitFails \/ Stamp
Refresh == Timer \/ Cleanup

Next == ReaderTurn \/ RecvAll \/ SendAll \/ Refresh \/ Tick

Spec == Init /\ [][Next]_vars

-----------------------------------------------------------------------------
(* Properties.                                                             *)

Ordinals(S) == {p.n : p \in S}
Queues(d) == inflight[d] \cup recv[d] \cup lost[d]

\* Every variable has its type; pc is a point of main's loop and turn an index
\* into the destinations.
TypeOK ==
  /\ now \in Nat
  /\ ident \in [Dest -> Idents]
  /\ seq \in [Dest -> Seqs]
  /\ last_pckt_sent \in [Dest -> Int]
  /\ inflight \in [Dest -> SUBSET InflightPacket]
  /\ recv \in [Dest -> SUBSET ReceivedPacket]
  /\ lost \in [Dest -> SUBSET LostPacket]
  /\ sent_count \in [Dest -> Nat]
  /\ recv_count \in [Dest -> Nat]
  /\ wire \subseteq Datagram
  /\ buffer \subseteq Stamped
  /\ readbuf \subseteq Stamped
  /\ batch \subseteq Stamped
  /\ last_sync \in Nat
  /\ pc \in {"drain", "match", "sleep", "send", "stamp", "timer", "cleanup", "crashed"}
  /\ starttime \in Nat
  /\ asked \subseteq Dest
  /\ turn \in Dest
  /\ count \in Nat
  /\ send_start \in Nat
  /\ last_refresh \in Int

\* Destination::send casts the queue length to u16 and compares it with a
\* number below 64: the queue never outgrows the largest number drawn by more
\* than one, so the cast cannot wrap, whatever the network loses.
InflightBound == \A d \in Dest : Cardinality(inflight[d]) <= RndMax + 1

\* Every ping sent is in at most one of the queues inflight_packets,
\* recv_packets and lost_packets, and there once, under duplicated and late
\* replies, equal sequence numbers and slow rounds. main adds the lengths of
\* the queues up into packets_lost and packet_loss.
AccountedOnce ==
  \A d \in Dest :
    /\ Ordinals(inflight[d]) \cap Ordinals(recv[d]) = {}
    /\ Ordinals(inflight[d]) \cap Ordinals(lost[d]) = {}
    /\ Ordinals(recv[d]) \cap Ordinals(lost[d]) = {}
    /\ \A S \in {inflight[d], recv[d], lost[d]} :
         \A p, q \in S : p.n = q.n => p = q

\* The counters and the queues agree: pings received, in flight and lost are
\* never more than the pings sent (recv_count and sent_count of Destination).
Conservation ==
  \A d \in Dest :
    recv_count[d] + Cardinality(inflight[d]) + Cardinality(lost[d]) <= sent_count[d]

\* The latency recorded is that of a reply that came after the sending and
\* not in the future, though reception and sending are stamped by two threads
\* and matched later (checked_duration_since in Destination::recv).
RttSound ==
  \A d \in Dest : \A p \in recv[d] : p.received >= 0 /\ p.sent + p.received <= now

\* After a refresh no queue holds a packet past its retention: what bounds
\* recv_packets and lost_packets ("hold only for a certain amount of time").
Retention ==
  pc # "cleanup" =>
    \A d \in Dest :
      /\ \A p \in inflight[d] : SentBefore(p, last_refresh, ForgetInflight)
      /\ \A p \in recv[d] : SentBefore(p, last_refresh, ForgetInflight + ForgetRecv)
      /\ \A p \in lost[d] : SentBefore(p, last_refresh, ForgetInflight + ForgetLost)

\* Two pings to one host are at least the interval apart, less what send
\* grants as min_delay and jitter ("Limit on how frequently to send pings"),
\* however the rounds bunch up.
SendSpacing ==
  \A d \in Dest : \A p, q \in Queues(d) :
    p.n < q.n => q.sent - p.sent >= Interval[d] - MinDelay - Jitter

\* A ping is declared lost only after keep_packets.inflight_secs ("Seconds to
\* wait until a packet is declared lost"), which holds while recv_secs is not
\* below it: cleanup reads the wrong one of the two.
LostOnlyAfterTimeout ==
  \A d \in Dest : \A p \in lost[d] : p.declared - p.sent >= ForgetInflight

\* A ping leaves the queue of pings in flight only into recv_packets or
\* lost_packets, unless a late refresh finds it past the retention of both.
LeavesForAQueue ==
  \A d \in Dest : \A p \in inflight[d] :
    \/ p.n \in Ordinals(inflight'[d]) \cup Ordinals(recv'[d]) \cup Ordinals(lost'[d])
    \/ now - p.sent >= ForgetInflight + ForgetLost

NoSilentDrop == [][LeavesForAQueue]_vars

\* A ping is completed by its own reply unless another datagram that came, or
\* may come, has its random identifier and sequence number: recv looks at
\* nothing else, not at the address.
OwnReply ==
  \A d \in Dest : \A p \in recv[d] :
    (\A g \in wire \cup Foreign : g.ident = ident[d] /\ g.seqn = p.seqn
                                    => g.from = d /\ g.n = p.n)
      => p.by.from = d /\ p.by.n = p.n

-----------------------------------------------------------------------------
(* The pinger keeps the promise of Ledger. A ping of Ledger is a packet    *)
(* without its sequence number and its bookkeeping.                        *)

Pings(S) == {[n |-> p.n, sent |-> p.sent] : p \in S}

L == INSTANCE Ledger WITH
  LossAge <- ForgetInflight,
  RecvAge <- ForgetInflight + ForgetRecv,
  LostAge <- ForgetInflight + ForgetLost,
  clock <- now,
  issued <- sent_count,
  waiting <- [d \in Dest |-> Pings(inflight[d])],
  answered <- [d \in Dest |-> Pings(recv[d])],
  missed <- [d \in Dest |-> Pings(lost[d])]

\* Every step of the pinger is a step the ledger allows.
KeepsLedger == L!Spec

=============================================================================

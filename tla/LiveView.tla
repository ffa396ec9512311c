------------------------------ MODULE LiveView ------------------------------
(***************************************************************************)
(* The live view: the statistics that the daemon computes at a refresh     *)
(* (main.rs, the filters of transport.rs), the datagrams that carry them   *)
(* (framestats.rs of zzping-lib, udp_comm.rs of zzping-gui) and the GUI    *)
(* that draws them (gui.rs, graph_plot.rs). UDP may lose datagrams, repeat *)
(* them and change their order; the GUI may be started and closed at any   *)
(* time. The number of the refresh and the queues a datagram tells of are  *)
(* history: only the properties read them.                                 *)
(***************************************************************************)
EXTENDS Integers, Sequences, FiniteSets, FiniteSetsExt, SequencesExt

CONSTANTS
  NumDest,          \* the daemon's hosts are 1 .. NumDest
  Displayed,        \* display_address of the GUI, a host per graph
  Queues,           \* possible queues of a host at a refresh, a sequence
  TimeAvg,          \* five intervals of a host, or one refresh if that is longer
  LossInflight,     \* pckt_loss_inflight_time
  LossRecv,         \* pckt_loss_recv_time
  LatencyCap,       \* the 500000 us of LatencyGraph::update
  Width,            \* values of a u32
  SampleLimits,     \* settings of sample_limit
  OverflowChecks,   \* the build panics where a sum overflows
  SocketCap,        \* datagrams that the GUI's socket holds
  MaxRefreshes,     \* bound of the refreshes
  MaxArrivals       \* bound of the datagrams that reach the GUI's host

Hosts == 1 .. NumDest
Graphs == DOMAIN Displayed
States == DOMAIN Queues

\* An inflight packet is its age, a received one its latency and the time
\* since its reply came.
Queue ==
  [inflight : SUBSET Nat, recv : SUBSET [received : Nat, ago : Nat], lost : Nat]

ASSUME DaemonAssumption ==
  /\ NumDest \in Nat \ {0}
  /\ Queues \in Seq(Queue)
  /\ \A q \in States : IsFiniteSet(Queues[q].inflight) /\ IsFiniteSet(Queues[q].recv)
  /\ TimeAvg \in Nat /\ LossInflight \in Nat /\ LossRecv \in Nat
  /\ Width \in Nat \ {0}

ASSUME GuiAssumption ==
  /\ Displayed \in Seq(Nat)
  /\ LatencyCap \in Nat
  /\ SampleLimits \subseteq Nat
  /\ OverflowChecks \in BOOLEAN
  /\ SocketCap \in Nat /\ MaxRefreshes \in Nat /\ MaxArrivals \in Nat

VARIABLES
  refreshes,    \* number of refreshes so far
  net,          \* datagrams on their way
  arrivals,     \* number of datagrams that came to the GUI's host
  socket,       \* receive queue of the GUI's socket
  samples,      \* LatencyGraph.samples
  bound,        \* PingmonGUI.socket is Some
  latency_us,   \* LatencyGraph.latency_us of each graph
  packet_loss_x100_000,
  taken,        \* the datagrams that recv_all has returned
  panic

daemon == <<refreshes, net>>
plots == <<latency_us, packet_loss_x100_000>>
gui == <<samples, bound, plots, taken, panic>>
vars == <<daemon, arrivals, socket, gui>>

-----------------------------------------------------------------------------
(* Statistics of a refresh.                                                *)

\* received_last and inflight_after, filters by the time a packet was
\* received or, as long as it is not, sent.
ReceivedLast(q, wait) == {p \in Queues[q].recv : p.ago < wait}
InflightAfter(q, wait) == {age \in Queues[q].inflight : ~(age < wait)}

\* Fault: the mean of all that the queue holds.
AveragedAll(q) == Queues[q].recv

Averaged(q) == ReceivedLast(q, TimeAvg)

\* mean_recv_time; zero if no packet is in the window.
MeanRecvTime(q) ==
  MapThenSumSet(LAMBDA p : p.received, Averaged(q)) \div Max({Cardinality(Averaged(q)), 1})

\* Fault: what is in flight counts as lost.
PacketsLostWaiting(q) == Cardinality(Queues[q].inflight) + Queues[q].lost

PacketsLost(q) == Cardinality(InflightAfter(q, LossInflight)) + Queues[q].lost
PacketsRecv(q) == Cardinality(ReceivedLast(q, LossRecv))

\* 100.0 * lost / (lost + recv + 0.1), times 1000 and truncated.
PacketLoss(q) == (1000000 * PacketsLost(q)) \div (10 * (PacketsLost(q) + PacketsRecv(q)) + 1)

\* encode_stats: what of a host's datagram the GUI uses.
FrameStats(h, n, q) ==
  [addr |-> h, avg_time_us |-> MeanRecvTime(q) % Width,
   packet_loss_x100_000 |-> PacketLoss(q) % Width, n |-> n, queue |-> q]

\* What is not of five fields, or not of their types.
Garbled == [addr |-> 0]

-----------------------------------------------------------------------------
(* LatencyGraph.                                                           *)

\* Fault: the latencies are trimmed before they are added to.
TrimmedLess(seq) == SubSeq(seq, Max({1, Len(seq) - samples + 1}), Len(seq))

\* The loop that removes the oldest until there are fewer than samples.
Trimmed(seq) == SubSeq(seq, Max({1, Len(seq) - samples + 2}), Len(seq))

\* update, on each of the two vectors.
Own(g, stats) ==
  LET own[i \in 0 .. Len(stats)] ==
        IF i = 0 THEN <<>>
        ELSE IF stats[i].addr = Displayed[g] THEN Append(own[i - 1], stats[i]) ELSE own[i - 1]
  IN own[Len(stats)]
Latencies(stats) == [i \in DOMAIN stats |-> Min({stats[i].avg_time_us, LatencyCap})]
Losses(stats) == [i \in DOMAIN stats |-> stats[i].packet_loss_x100_000]

\* draw adds the latencies up in a u32.
Overflows(g) == OverflowChecks /\ FoldLeft(+, 0, latency_us[g]) >= Width

-----------------------------------------------------------------------------
Fresh == [g \in Graphs |-> <<>>]

Init ==
  /\ refreshes = 0
  /\ net = {}
  /\ arrivals = 0
  /\ socket = <<>>
  /\ samples \in SampleLimits
  /\ bound = FALSE
  /\ latency_us = Fresh
  /\ packet_loss_x100_000 = Fresh
  /\ taken = <<>>
  /\ panic = FALSE

\* The statistics of all hosts, and their datagrams up to the first that
\* cannot be sent: udp_ok keeps the others from being tried.
Refresh ==
  /\ refreshes < MaxRefreshes
  /\ refreshes' = refreshes + 1
  /\ \E queue \in [Hosts -> States], sent \in 0 .. NumDest :
       net' = net \cup {FrameStats(h, refreshes', queue[h]) : h \in 1 .. sent}
  /\ UNCHANGED <<arrivals, socket, gui>>

Received(d) ==
  IF bound /\ Len(socket) < SocketCap THEN socket' = Append(socket, d) ELSE UNCHANGED socket

\* A datagram arrives, in any order; it may come again. Without a socket, or
\* when its queue is full, it is lost.
Deliver ==
  /\ arrivals < MaxArrivals
  /\ arrivals' = arrivals + 1
  /\ \E d \in net :
       /\ net' \in {net, net \ {d}}
       /\ Received(d)
  /\ UNCHANGED <<refreshes, gui>>

\* One that the GUI cannot parse, as of another version of the daemon.
DeliverGarbled ==
  /\ arrivals < MaxArrivals
  /\ arrivals' = arrivals + 1
  /\ Received(Garbled)
  /\ UNCHANGED <<daemon, gui>>

\* startup. The address may be in use.
Startup ==
  /\ ~bound /\ ~panic
  /\ \/ bound' = TRUE /\ UNCHANGED panic
     \/ panic' = TRUE /\ UNCHANGED bound
  /\ UNCHANGED <<daemon, arrivals, socket, samples, plots, taken>>

FirstGarbled == SelectInSeq(socket, LAMBDA d : d = Garbled)

\* recv_all: what it returns, and what it leaves in the socket when it stops
\* at a datagram that it cannot parse.
Parsed == IF FirstGarbled = 0 THEN socket ELSE SubSeq(socket, 1, FirstGarbled - 1)

\* Fault: the datagram is left there too.
UnreadAndGarbled ==
  IF FirstGarbled = 0 THEN <<>> ELSE SubSeq(socket, FirstGarbled, Len(socket))

Unread == IF FirstGarbled = 0 THEN <<>> ELSE SubSeq(socket, FirstGarbled + 1, Len(socket))

\* tick. It unwraps the socket, and update removes from a vector that is empty
\* already if samples is zero.
Tick ==
  /\ ~panic
  /\ IF bound /\ (samples > 0 \/ Graphs = {})
     THEN /\ latency_us' = [g \in Graphs |->
               Trimmed(latency_us[g] \o Latencies(Own(g, Parsed)))]
          /\ packet_loss_x100_000' = [g \in Graphs |->
               Trimmed(packet_loss_x100_000[g] \o Losses(Own(g, Parsed)))]
          /\ taken' = taken \o Parsed
          /\ socket' = Unread
          /\ UNCHANGED panic
     ELSE panic' = TRUE /\ UNCHANGED <<socket, plots, taken>>
  /\ UNCHANGED <<daemon, arrivals, samples, bound>>

\* The window is drawn, and a sum overflows.
DrawPanics ==
  /\ ~panic
  /\ \E g \in Graphs : Overflows(g)
  /\ panic' = TRUE
  /\ UNCHANGED <<daemon, arrivals, socket, samples, bound, plots, taken>>

\* The GUI is closed and started again.
Relaunch ==
  /\ bound \/ panic
  /\ bound' = FALSE
  /\ panic' = FALSE
  /\ socket' = <<>>
  /\ latency_us' = Fresh
  /\ packet_loss_x100_000' = Fresh
  /\ taken' = <<>>
  /\ UNCHANGED <<daemon, arrivals, samples>>

Gui == Startup \/ Tick \/ DrawPanics
Next == Refresh \/ Deliver \/ DeliverGarbled \/ Gui \/ Relaunch

Spec == Init /\ [][Next]_vars

\* The timer of the GUI ticks every 20 ms (subscription).
FairSpec == Spec /\ WF_vars(Tick)

-----------------------------------------------------------------------------
(* Properties.                                                             *)

\* The last n of seq, or all of it.
Newest(seq, n) == SubSeq(seq, Max({1, Len(seq) - n + 1}), Len(seq))

\* A graph shows the newest sample_limit - 1 reports of its own host, of those
\* that were received, in the order they came in: its two vectors, which are
\* filled and trimmed apart and tick by tick, hold the same refreshes.
ShowsLatest ==
  ~panic => \A g \in Graphs :
    LET latest == Newest(Own(g, taken), samples - 1) IN
    /\ latency_us[g] = Latencies(latest)
    /\ packet_loss_x100_000[g] = Losses(latest)

\* A datagram against the latencies of the last replies, the overdue packets
\* and the number of the lost.
TrueOf(d, recent, missing, lost) ==
  /\ IF recent = {} THEN d.avg_time_us = 0
     ELSE Min(recent) <= d.avg_time_us /\ d.avg_time_us <= Max(recent)
  /\ d.packet_loss_x100_000 < 100000
  /\ d.packet_loss_x100_000 = 0 <=> (missing = {} /\ lost = 0)

\* What is reported of a host is true of its queues: the latency is one
\* between the lowest and the highest of the last replies, or zero without
\* them; the loss is below 100%, which is the height of the graph, and zero
\* only if nothing is lost or overdue.
ReportsTrue ==
  \A d \in net \cup ToSet(taken) :
    TrueOf(d, {p.received : p \in {r \in Queues[d.queue].recv : r.ago < TimeAvg}},
           {age \in Queues[d.queue].inflight : age >= LossInflight}, Queues[d.queue].lost)

\* Once it has its socket the GUI does not panic, for a sample_limit that is
\* not zero and whose samples, capped as they are, add up within a u32.
NoPanic ==
  (panic /\ bound) => (samples = 0 \/ (OverflowChecks /\ (samples - 1) * LatencyCap >= Width))

\* What is in the socket is taken out although a tick stops at a datagram that
\* it cannot parse.
Drains == socket # <<>> ~> (socket = <<>> \/ panic)
=============================================================================

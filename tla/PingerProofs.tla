---------------------------- MODULE PingerProofs ----------------------------
(***************************************************************************)
(* Proofs about Pinger, for every number of hosts, every setting of the    *)
(* retention times and every schedule.                                     *)
(***************************************************************************)
EXTENDS Pinger, FiniteSetTheorems, TLAPS

USE DestAssumption, IntervalAssumption, PacketAssumption, TimingAssumption, ThrottleAssumption
USE DEF DestAssumption, IntervalAssumption, PacketAssumption, TimingAssumption,
  ThrottleAssumption, Dest

-----------------------------------------------------------------------------
(* Type correctness.                                                       *)

LEMMA InitType == Init => TypeOK
  BY DEF Init, TypeOK, Dest

\* Each action keeps the types; one lemma per action that does real work.
LEMMA ReaderType == TypeOK /\ ReaderTurn => TypeOK'
<1> SUFFICES ASSUME TypeOK, ReaderTurn PROVE TypeOK'
  OBVIOUS
<1> USE DEF TypeOK, destVars, roundVars
<1>1. Foreign \subseteq Datagram
  BY DEF Datagram, Dest
<1>2. PICK got \in {{}} \cup {{g} : g \in wire \cup Foreign} :
        \/ /\ readbuf' = readbuf \cup (buffer \cup {[pkt |-> g, received |-> now] : g \in got})
           /\ buffer' = {}
           /\ last_sync' = now
        \/ /\ buffer' = buffer \cup {[pkt |-> g, received |-> now] : g \in got}
           /\ UNCHANGED <<readbuf, last_sync>>
  BY DEF ReaderTurn
<1>3. got \subseteq Datagram
  BY <1>1, <1>2
<1>4. {[pkt |-> g, received |-> now] : g \in got} \subseteq Stamped
  BY <1>3 DEF Stamped
<1>5. readbuf' \subseteq Stamped /\ buffer' \subseteq Stamped /\ last_sync' \in Nat
  BY <1>2, <1>4
<1> QED
  BY <1>5 DEF ReaderTurn


\* The queues must be finite for the counter to stay a number.
FiniteQueues == \A d \in Dest : IsFiniteSet(inflight[d]) /\ IsFiniteSet(lost[d])

LEMMA MatchType == TypeOK /\ FiniteQueues /\ Match => TypeOK'
<1> SUFFICES ASSUME TypeOK, FiniteQueues, Match PROVE TypeOK'
  OBVIOUS
<1>1. PICK r \in batch :
        /\ inflight' = [d \in Dest |-> Unanswered(d, r)]
        /\ recv' = [d \in Dest |-> recv[d] \cup {Completion(p, r) : p \in Completed(d, r)}]
        /\ recv_count' = [d \in Dest |-> recv_count[d] + Cardinality(Completed(d, r))]
        /\ batch' = batch \ {r}
  BY DEF Match
<1>2. r \in Stamped
  BY <1>1 DEF TypeOK
<1>3. \A d \in Dest : Completed(d, r) \subseteq inflight[d] /\ inflight[d] \subseteq InflightPacket
  BY DEF Completed, TypeOK
<1>4. inflight' \in [Dest -> SUBSET InflightPacket]
  BY <1>1, <1>3 DEF Unanswered
<1>5. ASSUME NEW p \in InflightPacket PROVE Completion(p, r) \in ReceivedPacket
  <2>1. p.n \in Nat /\ p.seqn \in Seqs /\ p.sent \in Nat /\ r.received \in Nat /\ r.pkt \in Datagram
    BY <1>2 DEF InflightPacket, Stamped
  <2> QED
    BY <2>1 DEF Completion, ReceivedPacket
<1>6. \A d \in Dest : recv[d] \subseteq ReceivedPacket
  BY DEF TypeOK
<1>7. recv' \in [Dest -> SUBSET ReceivedPacket]
  BY <1>1, <1>3, <1>5, <1>6
<1>8. \A d \in Dest : Cardinality(Completed(d, r)) \in Nat
  <2> TAKE d \in Dest
  <2>1. IsFiniteSet(Completed(d, r))
    BY <1>3, FS_Subset DEF FiniteQueues
  <2> QED
    BY <2>1, FS_CardinalityType
<1>9. \A d \in Dest : recv_count[d] \in Nat
  BY DEF TypeOK
<1>10. recv_count' \in [Dest -> Nat]
  BY <1>1, <1>8, <1>9
<1>11. batch' \subseteq Stamped
  BY <1>1 DEF TypeOK
<1> QED
  BY <1>4, <1>7, <1>10, <1>11 DEF Match, TypeOK, readerVars

LEMMA AfterSendType ==
  ASSUME asked \subseteq Dest, turn \in Dest, NEW k \in Nat, AfterSend(k)
  PROVE  /\ asked' \subseteq Dest /\ turn' \in Dest /\ count' \in Nat
         /\ pc' \in {"timer", "send"}
<1>1. CASE asked \cup {turn} = Dest \/ (SendLimit > 0 /\ k >= SendLimit)
  <2>1. pc' = "timer" /\ asked' = {} /\ turn' = 1 /\ count' = 0
    BY <1>1 DEF AfterSend
  <2>2. 1 \in Dest
    BY DestAssumption DEF DestAssumption, Dest
  <2> QED
    BY <2>1, <2>2
<1>2. CASE ~(asked \cup {turn} = Dest \/ (SendLimit > 0 /\ k >= SendLimit))
  <2>1. /\ pc' = "send" /\ asked' = asked \cup {turn}
        /\ turn' \in Dest \ asked' /\ count' = k
    BY <1>2 DEF AfterSend
  <2> QED
    BY <2>1
<1> QED
  BY <1>1, <1>2

LEMMA StampType == TypeOK /\ Stamp => TypeOK'
<1> SUFFICES ASSUME TypeOK, Stamp PROVE TypeOK'
  OBVIOUS
<1>1. PICK sent \in send_start .. now, j \in 0 .. Jitter, s \in Seqs :
       /\ inflight' = [inflight EXCEPT ![turn] = @ \cup
            {[n |-> sent_count[turn] + 1, seqn |-> seq[turn], sent |-> sent]}]
       /\ last_pckt_sent' = [last_pckt_sent EXCEPT ![turn] = now - j]
       /\ seq' = [seq EXCEPT ![turn] = s]
  BY DEF Stamp
<1>2. /\ turn \in Dest /\ sent_count[turn] \in Nat /\ seq[turn] \in Seqs
      /\ sent \in Nat /\ now \in Nat /\ count \in Nat
  BY DEF TypeOK
<1>3. [n |-> sent_count[turn] + 1, seqn |-> seq[turn], sent |-> sent] \in InflightPacket
  BY <1>2 DEF InflightPacket
<1>4. inflight' \in [Dest -> SUBSET InflightPacket]
  BY <1>1, <1>3 DEF TypeOK
<1>5. now - j \in Int
  BY <1>2
<1>6. last_pckt_sent' \in [Dest -> Int] /\ seq' \in [Dest -> Seqs]
  BY <1>1, <1>5 DEF TypeOK
<1>7. sent_count' \in [Dest -> Nat]
  <2>1. sent_count' = [sent_count EXCEPT ![turn] = @ + 1] /\ sent_count \in [Dest -> Nat]
    BY DEF Stamp, TypeOK
  <2>2. sent_count[turn] + 1 \in Nat
    BY <1>2
  <2> QED
    BY <2>1, <2>2
<1>8. /\ asked' \subseteq Dest /\ turn' \in Dest /\ count' \in Nat
      /\ pc' \in {"timer", "send"}
  <2>1. AfterSend(count + 1)
    BY DEF Stamp
  <2>2. count + 1 \in Nat
    BY <1>2
  <2> QED
    BY <1>2, <2>1, <2>2, AfterSendType DEF TypeOK
<1> QED
  BY <1>4, <1>6, <1>7, <1>8 DEF Stamp, TypeOK, readerVars

LEMMA CleanupType == TypeOK /\ Cleanup => TypeOK'
<1> SUFFICES ASSUME TypeOK, Cleanup PROVE TypeOK'
  OBVIOUS
<1> USE DEF TypeOK, readerVars
<1>1. \A d \in Dest : KeptInflight(d) \in SUBSET InflightPacket /\ KeptRecv(d) \in SUBSET ReceivedPacket
  BY DEF KeptInflight, KeptRecv
<1>2. \A d \in Dest : {Declared(p) : p \in Overdue(d)} \subseteq LostPacket
  <2> SUFFICES ASSUME NEW d \in Dest, NEW p \in Overdue(d) PROVE Declared(p) \in LostPacket
    OBVIOUS
  <2>1. p \in InflightPacket
    BY DEF Overdue
  <2>2. p.n \in Nat /\ p.sent \in Nat
    BY <2>1 DEF InflightPacket
  <2> QED
    BY <2>2 DEF Declared, LostPacket
<1>3. \A d \in Dest : KeptLost(d) \in SUBSET LostPacket
  BY <1>2 DEF KeptLost
<1>4. /\ inflight' \in [Dest -> SUBSET InflightPacket]
      /\ recv' \in [Dest -> SUBSET ReceivedPacket]
      /\ lost' \in [Dest -> SUBSET LostPacket]
  BY <1>1, <1>3 DEF Cleanup
<1> QED
  BY <1>4 DEF Cleanup

LEMMA TransmitType == TypeOK /\ Transmit => TypeOK'
<1> SUFFICES ASSUME TypeOK, Transmit PROVE TypeOK'
  OBVIOUS
<1> USE DEF TypeOK, readerVars, destVars
<1>1. [ident |-> ident[turn], seqn |-> seq[turn], from |-> turn, n |-> sent_count[turn] + 1]
        \in Datagram
  <2>1. turn \in Dest /\ ident[turn] \in Idents /\ seq[turn] \in Seqs /\ sent_count[turn] \in Nat
    OBVIOUS
  <2> QED
    BY <2>1 DEF Datagram
<1>2. wire' \subseteq Datagram
  BY <1>1 DEF Transmit
<1> QED
  BY <1>2 DEF Transmit

\* The other actions move the program counter and the timers only.
LEMMA OtherType ==
  ASSUME TypeOK, Drain \/ Matched \/ Wake \/ Skip \/ TransmitFails \/ Timer \/ Tick \/ UNCHANGED vars
  PROVE  TypeOK'
<1> USE DEF TypeOK, readerVars, destVars, roundVars
<1>1. CASE Drain BY <1>1 DEF Drain
<1>2. CASE Matched BY <1>2 DEF Matched
<1>3. CASE Wake BY <1>3 DEF Wake
<1>4. CASE Skip 
  <2>1. /\ asked' \subseteq Dest /\ turn' \in Dest /\ count' \in Nat
        /\ pc' \in {"timer", "send"}
    BY <1>4, AfterSendType DEF Skip
  <2> QED BY <1>4, <2>1 DEF Skip
<1>5. CASE TransmitFails BY <1>5 DEF TransmitFails
<1>6. CASE Timer
  <2>1. pc' \in {"cleanup", "drain"} /\ starttime' \in Nat /\ last_refresh' \in Int
    BY <1>6 DEF Timer
  <2> QED BY <1>6, <2>1 DEF Timer
<1>7. CASE Tick BY <1>7 DEF Tick
<1>8. CASE UNCHANGED vars BY <1>8 DEF vars
<1> QED BY <1>1, <1>2, <1>3, <1>4, <1>5, <1>6, <1>7, <1>8

-----------------------------------------------------------------------------
(* The queues are finite, which the counters and the types rest on.        *)

\* What every step but those of Match, Stamp and Cleanup leaves alone.
queueVars == <<inflight, recv, lost, sent_count, recv_count, last_pckt_sent>>

LEMMA QueueSteps ==
  ASSUME [Next]_vars
  PROVE  \/ Match
         \/ Stamp
         \/ Cleanup
         \/ UNCHANGED queueVars
BY DEF Next, RecvAll, SendAll, Refresh, ReaderTurn, Drain, Matched, Wake, Skip, Transmit,
       TransmitFails, Timer, Tick, vars, destVars, queueVars

\* The packets cleanup declares lost are at most those it selects.
LEMMA DeclaredFinite ==
  ASSUME FiniteQueues, NEW d \in Dest
  PROVE  LET D == {Declared(p) : p \in Overdue(d)} IN
         /\ IsFiniteSet(Overdue(d))
         /\ IsFiniteSet(D)
         /\ Cardinality(D) <= Cardinality(Overdue(d))
<1> DEFINE D == {Declared(p) : p \in Overdue(d)}
           f == [p \in Overdue(d) |-> Declared(p)]
<1>1. IsFiniteSet(Overdue(d))
  <2>1. Overdue(d) \in SUBSET inflight[d]
    BY DEF Overdue
  <2> QED
    BY <2>1, FS_Subset DEF FiniteQueues
<1>2. f \in Surjection(Overdue(d), D)
  BY DEF Surjection
<1> HIDE DEF D, f
<1>3. IsFiniteSet(D) /\ Cardinality(D) <= Cardinality(Overdue(d))
  BY <1>1, <1>2, FS_Surjection
<1> QED
  BY <1>1, <1>3 DEF D

LEMMA FiniteStep == TypeOK /\ FiniteQueues /\ [Next]_vars => FiniteQueues'
<1> SUFFICES ASSUME TypeOK, FiniteQueues, [Next]_vars, NEW d \in Dest
             PROVE  IsFiniteSet(inflight'[d]) /\ IsFiniteSet(lost'[d])
  BY DEF FiniteQueues
<1>1. IsFiniteSet(inflight[d]) /\ IsFiniteSet(lost[d])
  BY DEF FiniteQueues
<1>2. CASE Match
  <2>1. PICK r \in batch : inflight' = [e \in Dest |-> Unanswered(e, r)]
    BY <1>2 DEF Match
  <2>2. inflight'[d] \in SUBSET inflight[d] /\ lost' = lost
    BY <1>2, <2>1 DEF Match, Unanswered
  <2> QED
    BY <1>1, <2>2, FS_Subset
<1>3. CASE Stamp
  <2>1. PICK p : inflight' = [inflight EXCEPT ![turn] = @ \cup {p}]
    BY <1>3 DEF Stamp
  <2>2. inflight'[d] = inflight[d] \/ inflight'[d] = inflight[d] \cup {p}
    BY <2>1 DEF TypeOK
  <2>3. lost' = lost
    BY <1>3 DEF Stamp
  <2>4. IsFiniteSet(inflight[d] \cup {p})
    BY <1>1, FS_AddElement
  <2> QED
    BY <1>1, <2>2, <2>3, <2>4
<1>4. CASE Cleanup
  <2> DEFINE D == {Declared(p) : p \in Overdue(d)}
  <2>1. inflight'[d] \in SUBSET inflight[d]
    BY <1>4 DEF Cleanup, KeptInflight
  <2>2. lost'[d] \in SUBSET (lost[d] \cup D)
    BY <1>4 DEF Cleanup, KeptLost
  <2>3. IsFiniteSet(D)
    BY DeclaredFinite
  <2> HIDE DEF D
  <2>4. IsFiniteSet(lost[d] \cup D)
    BY <1>1, <2>3, FS_Union
  <2> QED
    BY <1>1, <2>1, <2>2, <2>4, FS_Subset
<1>5. CASE UNCHANGED queueVars
  BY <1>1, <1>5 DEF queueVars
<1> QED
  BY <1>2, <1>3, <1>4, <1>5, QueueSteps

LEMMA TypeStep == TypeOK /\ FiniteQueues /\ [Next]_vars => TypeOK'
BY ReaderType, MatchType, StampType, CleanupType, TransmitType, OtherType
   DEF Next, RecvAll, SendAll, Refresh

\* Every reachable state of the pinger is of its type, and its queues are
\* finite (Destination, Comms and the locals of the two threads).
THEOREM TypeCorrect == Spec => [](TypeOK /\ FiniteQueues)
<1>1. Init => TypeOK /\ FiniteQueues
  BY InitType, FS_EmptySet DEF Init, FiniteQueues
<1>2. (TypeOK /\ FiniteQueues) /\ [Next]_vars => (TypeOK /\ FiniteQueues)'
  BY TypeStep, FiniteStep
<1> QED
  BY <1>1, <1>2, PTL DEF Spec

-----------------------------------------------------------------------------
(* The bound on the pings in flight. Between the throttle's decision and   *)
(* the push the queue cannot grow, because only the main thread pushes.    *)

BoundInv ==
  /\ InflightBound
  /\ pc = "stamp" => Cardinality(inflight[turn]) <= RndMax

\* How the main thread comes to be between send_to and the stamp.
LEMMA StampingSteps ==
  ASSUME TypeOK, [Next]_vars, pc' = "stamp"
  PROVE  \/ Transmit
         \/ pc = "stamp" /\ UNCHANGED <<turn, send_start, last_refresh, queueVars>>
BY DEF Next, RecvAll, SendAll, Refresh, ReaderTurn, Drain, Match, Matched, Wake, Skip,
       Stamp, AfterSend, Cleanup, TransmitFails, Timer, Tick, vars, destVars, roundVars, queueVars

\* Only Stamp makes a queue of pings in flight longer.
LEMMA InflightSteps ==
  ASSUME TypeOK, [Next]_vars, NEW d \in Dest
  PROVE  \/ inflight'[d] \in SUBSET inflight[d]
         \/ /\ Stamp
            /\ d = turn
            /\ \E p \in InflightPacket : inflight'[d] = inflight[d] \cup {p}
<1>1. CASE Match
  BY <1>1 DEF Match, Unanswered
<1>2. CASE Cleanup
  BY <1>2 DEF Cleanup, KeptInflight
<1>3. CASE Stamp
  <2>1. TypeOK'
    BY <1>3, StampType
  <2>2. PICK p : inflight' = [inflight EXCEPT ![turn] = @ \cup {p}]
    BY <1>3 DEF Stamp
  <2>3. CASE d = turn
    <3>1. inflight'[d] = inflight[d] \cup {p}
      BY <2>2, <2>3 DEF TypeOK
    <3>2. p \in InflightPacket
      BY <2>1, <3>1 DEF TypeOK
    <3> QED
      BY <1>3, <2>3, <3>1, <3>2
  <2>4. CASE d # turn
    BY <2>2, <2>4 DEF TypeOK
  <2> QED
    BY <2>3, <2>4
<1>4. CASE UNCHANGED queueVars
  BY <1>4 DEF queueVars
<1> QED
  BY <1>1, <1>2, <1>3, <1>4, QueueSteps

LEMMA BoundStep ==
  TypeOK /\ FiniteQueues /\ BoundInv /\ [Next]_vars => BoundInv'
<1> SUFFICES ASSUME TypeOK, FiniteQueues, BoundInv, [Next]_vars PROVE BoundInv'
  OBVIOUS
<1>1. ASSUME NEW d \in Dest PROVE Cardinality(inflight'[d]) <= RndMax + 1
  <2>1. IsFiniteSet(inflight[d]) /\ Cardinality(inflight[d]) \in Nat
    BY FS_CardinalityType DEF FiniteQueues
  <2>2. CASE inflight'[d] \in SUBSET inflight[d]
    <3>1. Cardinality(inflight'[d]) <= Cardinality(inflight[d]) /\ IsFiniteSet(inflight'[d])
      BY <2>1, <2>2, FS_Subset
    <3>2. Cardinality(inflight'[d]) \in Nat
      BY <3>1, FS_CardinalityType
    <3>3. Cardinality(inflight[d]) <= RndMax + 1
      BY DEF BoundInv, InflightBound
    <3> QED
      BY <2>1, <3>1, <3>2, <3>3
  <2>3. ASSUME Stamp, d = turn, NEW p \in InflightPacket, inflight'[d] = inflight[d] \cup {p}
        PROVE  Cardinality(inflight'[d]) <= RndMax + 1
    <3>1. Cardinality(inflight[d]) <= RndMax
      BY <2>3 DEF BoundInv, Stamp
    <3>2. \/ Cardinality(inflight'[d]) = Cardinality(inflight[d])
          \/ Cardinality(inflight'[d]) = Cardinality(inflight[d]) + 1
      <4>1. Cardinality(inflight[d] \cup {p}) =
              IF p \in inflight[d] THEN Cardinality(inflight[d]) ELSE Cardinality(inflight[d]) + 1
        BY <2>1, FS_AddElement
      <4> QED
        BY <2>3, <4>1
    <3> QED
      BY <2>1, <3>1, <3>2
  <2> QED
    BY <2>2, <2>3, InflightSteps
<1>2. ASSUME pc' = "stamp" PROVE Cardinality(inflight'[turn']) <= RndMax
  <2>1. CASE Transmit
    <3>1. PICK rnd \in Rnd : rnd >= Cardinality(inflight[turn])
      BY <2>1 DEF Transmit, Admitted
    <3>2. Cardinality(inflight[turn]) \in Nat
      BY FS_CardinalityType DEF FiniteQueues, TypeOK
    <3>3. Cardinality(inflight[turn]) <= RndMax
      BY <3>1, <3>2 DEF Rnd
    <3> QED
      BY <2>1, <3>3 DEF Transmit, destVars
  <2>2. CASE pc = "stamp" /\ UNCHANGED <<turn, send_start, last_refresh, queueVars>>
    BY <2>2 DEF BoundInv, queueVars
  <2> QED
    BY <1>2, <2>1, <2>2, StampingSteps
<1> QED
  BY <1>1, <1>2 DEF BoundInv, InflightBound

\* However many replies the network loses, Destination::send never lets more
\* than RndMax + 1 pings wait for a reply, so the cast to u16 is exact.
THEOREM InflightBounded == Spec => []InflightBound
<1>1. Init => BoundInv
  BY FS_EmptySet DEF Init, BoundInv, InflightBound
<1>2. BoundInv => InflightBound
  BY DEF BoundInv
<1> QED
  BY <1>1, <1>2, BoundStep, TypeCorrect, PTL DEF Spec

\* What the types say of any packet in a queue.
LEMMA QueueType ==
  ASSUME TypeOK, NEW d \in Dest, NEW p \in Queues(d)
  PROVE  p.n \in Nat /\ p.sent \in Nat
<1>1. p \in InflightPacket \/ p \in ReceivedPacket \/ p \in LostPacket
  BY DEF TypeOK, Queues
<1> QED
  BY <1>1 DEF InflightPacket, ReceivedPacket, LostPacket

\* A packet in a queue was in a queue before, or is the ping just stamped.
LEMMA QueueOrigin ==
  ASSUME TypeOK, [Next]_vars, NEW d \in Dest, NEW p \in Queues(d)'
  PROVE  \/ \E q \in Queues(d) : q.n = p.n /\ q.sent = p.sent
         \/ /\ Stamp
            /\ d = turn
            /\ p.n = sent_count[d] + 1
            /\ p.sent \in send_start .. now
<1>1. CASE p \in Queues(d)
  BY <1>1
<1>2. CASE Match
  <2>1. PICK r \in batch :
          /\ inflight' = [e \in Dest |-> Unanswered(e, r)]
          /\ recv' = [e \in Dest |-> recv[e] \cup {Completion(q, r) : q \in Completed(e, r)}]
    BY <1>2 DEF Match
  <2>2. p \in Queues(d) \/ p \in {Completion(q, r) : q \in Completed(d, r)}
    BY <1>2, <2>1 DEF Match, Unanswered, Queues
  <2>3. CASE p \in {Completion(q, r) : q \in Completed(d, r)}
    <3>1. PICK q \in Completed(d, r) : p = Completion(q, r)
      BY <2>3
    <3>2. q \in Queues(d) /\ p.n = q.n /\ p.sent = q.sent
      BY <3>1 DEF Completed, Completion, Queues
    <3> QED
      BY <3>2
  <2> QED
    BY <1>1, <2>2, <2>3
<1>3. CASE Cleanup
  <2>1. p \in Queues(d) \/ p \in {Declared(q) : q \in Overdue(d)}
    BY <1>3 DEF Cleanup, Queues, KeptInflight, KeptRecv, KeptLost
  <2>2. CASE p \in {Declared(q) : q \in Overdue(d)}
    <3>1. PICK q \in Overdue(d) : p = Declared(q)
      BY <2>2
    <3>2. q \in Queues(d) /\ p.n = q.n /\ p.sent = q.sent
      BY <3>1 DEF Overdue, Declared, Queues
    <3> QED
      BY <3>2
  <2> QED
    BY <1>1, <2>1, <2>2
<1>4. CASE Stamp
  <2>1. PICK sent \in send_start .. now :
          inflight' = [inflight EXCEPT ![turn] = @ \cup
            {[n |-> sent_count[turn] + 1, seqn |-> seq[turn], sent |-> sent]}]
    BY <1>4 DEF Stamp
  <2>2. \/ p \in Queues(d)
        \/ d = turn /\ p = [n |-> sent_count[turn] + 1, seqn |-> seq[turn], sent |-> sent]
    BY <1>4, <2>1 DEF Stamp, Queues, TypeOK
  <2> QED
    BY <1>1, <1>4, <2>2
<1>5. CASE UNCHANGED queueVars
  BY <1>1, <1>5 DEF queueVars, Queues
<1> QED
  BY <1>2, <1>3, <1>4, <1>5, QueueSteps

-----------------------------------------------------------------------------
(* The clock: no instant that a thread has stored lies in the future.      *)

ClockInv ==
  /\ last_refresh <= now
  /\ send_start <= now
  /\ \A d \in Dest : last_pckt_sent[d] <= now
  /\ \A d \in Dest : \A p \in Queues(d) : p.sent <= now
  /\ \A r \in buffer \cup readbuf \cup batch : r.received <= now
  /\ pc = "stamp" => send_start >= last_refresh

LEMMA TimeAdvances ==
  ASSUME TypeOK, [Next]_vars
  PROVE  now' \in Nat /\ now' >= now
<1>1. now' = now \/ now' = now + 1
  BY DEF Next, RecvAll, SendAll, Refresh, ReaderTurn, Drain, Match, Matched, Wake, Skip,
         Transmit, Stamp, Cleanup, TransmitFails, Timer, Tick, vars
<1> QED
  BY <1>1 DEF TypeOK

LEMMA ClockStep == TypeOK /\ ClockInv /\ [Next]_vars => ClockInv'
<1> SUFFICES ASSUME TypeOK, ClockInv, [Next]_vars PROVE ClockInv'
  OBVIOUS
<1>1. now \in Nat /\ now' \in Nat /\ now' >= now
  BY TimeAdvances DEF TypeOK
<1>2. last_refresh' <= now'
  <2>1. last_refresh' = last_refresh \/ last_refresh' = now
    BY DEF Next, RecvAll, SendAll, Refresh, ReaderTurn, Drain, Match, Matched, Wake, Skip,
       Transmit, Stamp, Cleanup, TransmitFails, Timer, Tick, vars, roundVars
  <2> QED
    BY <1>1, <2>1 DEF ClockInv, TypeOK
<1>3. send_start' <= now'
  <2>1. send_start' = send_start \/ send_start' = now \/ send_start' = 0
    BY DEF Next, RecvAll, SendAll, Refresh, ReaderTurn, Drain, Match, Matched, Wake, Skip,
       Transmit, Stamp, Cleanup, TransmitFails, Timer, Tick, vars, roundVars
  <2> QED
    BY <1>1, <2>1 DEF ClockInv, TypeOK
<1>4. ASSUME NEW d \in Dest PROVE last_pckt_sent'[d] <= now'
  <2>1. last_pckt_sent'[d] = last_pckt_sent[d] \/ \E j \in 0 .. Jitter : last_pckt_sent'[d] = now - j
    <3>1. CASE Stamp
      <4>1. PICK j \in 0 .. Jitter : last_pckt_sent' = [last_pckt_sent EXCEPT ![turn] = now - j]
        BY <3>1 DEF Stamp
      <4> QED
        BY <4>1 DEF TypeOK
    <3>2. CASE Match \/ Cleanup \/ UNCHANGED queueVars
      BY <3>2 DEF Match, Cleanup, queueVars
    <3> QED
      BY <3>1, <3>2, QueueSteps
  <2>2. last_pckt_sent[d] \in Int /\ last_pckt_sent[d] <= now
    BY DEF ClockInv, TypeOK
  <2> QED
    BY <1>1, <2>1, <2>2
<1>5. ASSUME NEW d \in Dest, NEW p \in Queues(d)' PROVE p.sent <= now'
  <2>1. CASE \E q \in Queues(d) : q.n = p.n /\ q.sent = p.sent
    BY <1>1, <2>1, QueueType DEF ClockInv
  <2>2. CASE p.sent \in send_start .. now
    <3>1. send_start \in Nat /\ now \in Nat
      BY DEF TypeOK
    <3>2. p.sent \in Nat /\ p.sent <= now
      BY <2>2, <3>1
    <3> QED
      BY <1>1, <3>1, <3>2
  <2> QED
    BY <2>1, <2>2, QueueOrigin
<1>6. ASSUME NEW r \in (buffer \cup readbuf \cup batch)' PROVE r.received <= now'
  <2>1. CASE r \in buffer \cup readbuf \cup batch
    BY <1>1, <2>1 DEF ClockInv, TypeOK, Stamped
  <2>2. CASE ReaderTurn
    <3>1. PICK got \in {{}} \cup {{g} : g \in wire \cup Foreign} :
            \/ /\ readbuf' = readbuf \cup (buffer \cup {[pkt |-> g, received |-> now] : g \in got})
               /\ buffer' = {}
            \/ /\ buffer' = buffer \cup {[pkt |-> g, received |-> now] : g \in got}
               /\ UNCHANGED readbuf
      BY <2>2 DEF ReaderTurn
    <3>2. batch' = batch
      BY <2>2 DEF ReaderTurn, roundVars
    <3>3. \/ r \in buffer \cup readbuf \cup batch
          \/ r \in {[pkt |-> g, received |-> now] : g \in got}
      BY <3>1, <3>2
    <3>4. CASE r \in {[pkt |-> g, received |-> now] : g \in got}
      <4>1. r.received = now
        BY <3>4
      <4> QED
        BY <1>1, <4>1
    <3> QED
      BY <2>1, <3>3, <3>4
  <2>3. CASE Drain
    BY <2>1, <2>3 DEF Drain, readerVars
  <2>4. CASE Match
    BY <2>1, <2>4 DEF Match, readerVars
  <2>5. CASE ~ReaderTurn /\ ~Drain /\ ~Match
    BY <2>1, <2>5 DEF Next, RecvAll, SendAll, Refresh, Matched, Wake, Skip,
       Transmit, Stamp, Cleanup, TransmitFails, Timer, Tick, vars, roundVars, readerVars
  <2> QED
    BY <2>2, <2>3, <2>4, <2>5
<1>7. ASSUME pc' = "stamp" PROVE send_start' >= last_refresh'
  <2>1. CASE Transmit
    BY <2>1 DEF Transmit, ClockInv
  <2>2. CASE pc = "stamp" /\ UNCHANGED <<turn, send_start, last_refresh, queueVars>>
    BY <2>2 DEF ClockInv
  <2> QED
    BY <1>7, <2>1, <2>2, StampingSteps
<1> QED
  BY <1>2, <1>3, <1>4, <1>5, <1>6, <1>7 DEF ClockInv

LEMMA InitClock == Init => ClockInv
<1> SUFFICES ASSUME Init PROVE ClockInv
  OBVIOUS
<1>1. \A d \in Dest : last_pckt_sent[d] <= now /\ Queues(d) = {}
  BY DEF Init, Queues
<1> QED
  BY <1>1 DEF Init, ClockInv

LEMMA ClockCorrect == Spec => []ClockInv
BY InitClock, ClockStep, TypeCorrect, PTL DEF Spec

\* A recorded latency is never negative and never ends in the future, though
\* reception and sending are stamped by two threads (Destination::recv).
THEOREM LatencySound == Spec => []RttSound
<1>1. Init => RttSound
  BY DEF Init, RttSound
<1>2. TypeOK /\ ClockInv /\ RttSound /\ [Next]_vars => RttSound'
  <2> SUFFICES ASSUME TypeOK, ClockInv, RttSound, [Next]_vars,
                      NEW d \in Dest, NEW p \in recv'[d]
               PROVE  p.received >= 0 /\ p.sent + p.received <= now'
    BY DEF RttSound
  <2>1. now \in Nat /\ now' \in Nat /\ now' >= now
    BY TimeAdvances DEF TypeOK
  <2>2. CASE p \in recv[d]
    <3>1. p \in ReceivedPacket
      BY <2>2 DEF TypeOK
    <3>2. p.received \in Int /\ p.sent \in Nat
      BY <3>1 DEF ReceivedPacket
    <3> QED
      BY <2>1, <2>2, <3>2 DEF RttSound
  <2>3. CASE Match
    <3>1. PICK r \in batch :
            recv' = [e \in Dest |-> recv[e] \cup {Completion(q, r) : q \in Completed(e, r)}]
      BY <2>3 DEF Match
    <3>2. CASE p \in {Completion(q, r) : q \in Completed(d, r)}
      <4>1. PICK q \in Completed(d, r) : p = Completion(q, r)
        BY <3>2
      <4>2. q \in inflight[d] /\ r.received >= q.sent
        BY <4>1 DEF Completed
      <4>3. q.sent \in Nat
        BY <4>2 DEF TypeOK, InflightPacket
      <4>4. r.received \in Nat /\ r.received <= now
        BY <3>1 DEF TypeOK, Stamped, ClockInv
      <4>5. p.sent = q.sent /\ p.received = r.received - q.sent
        BY <4>1 DEF Completion
      <4> QED
        BY <2>1, <4>2, <4>3, <4>4, <4>5
    <3> QED
      BY <2>2, <3>1, <3>2
  <2>4. CASE Stamp \/ Cleanup \/ UNCHANGED queueVars
    BY <2>2, <2>4 DEF Stamp, Cleanup, KeptRecv, queueVars
  <2> QED
    BY <2>3, <2>4, QueueSteps
<1> QED
  BY <1>1, <1>2, TypeCorrect, ClockCorrect, PTL DEF Spec

-----------------------------------------------------------------------------
(* Every packet is accounted for once.                                     *)

Apart(S, T) == \A p \in S, q \in T : p.n # q.n
Unique(S) == \A p, q \in S : p.n = q.n => p = q

\* The ordinals in the queues are those of pings already sent.
OrdinalInv == \A d \in Dest : \A p \in Queues(d) : p.n <= sent_count[d]

OnceInv ==
  /\ OrdinalInv
  /\ \A d \in Dest :
       /\ Apart(inflight[d], recv[d])
       /\ Apart(inflight[d], lost[d])
       /\ Apart(recv[d], lost[d])
       /\ Unique(inflight[d])
       /\ Unique(recv[d])
       /\ Unique(lost[d])

LEMMA OrdinalStep == TypeOK /\ OrdinalInv /\ [Next]_vars => OrdinalInv'
<1> SUFFICES ASSUME TypeOK, OrdinalInv, [Next]_vars, NEW d \in Dest, NEW p \in Queues(d)'
             PROVE  p.n <= sent_count'[d]
  BY DEF OrdinalInv
<1>1. sent_count[d] \in Nat
  BY DEF TypeOK
<1>2. \/ sent_count'[d] = sent_count[d]
      \/ Stamp /\ d = turn /\ sent_count'[d] = sent_count[d] + 1
  BY QueueSteps DEF Match, Stamp, Cleanup, queueVars, TypeOK
<1>3. CASE \E q \in Queues(d) : q.n = p.n /\ q.sent = p.sent
  BY <1>1, <1>2, <1>3, QueueType DEF OrdinalInv
<1>4. CASE Stamp /\ d = turn /\ p.n = sent_count[d] + 1
  <2>1. sent_count'[d] = sent_count[d] + 1
    BY <1>4 DEF Stamp, TypeOK
  <2> QED
    BY <1>1, <1>4, <2>1
<1> QED
  BY <1>3, <1>4, QueueOrigin

\* cleanup takes a ping out of flight no later than it declares it lost.
LEMMA LostLeavesFlight ==
  ASSUME ForgetInflight <= ForgetRecv, TypeOK, NEW d \in Dest
  PROVE  KeptInflight(d) \cap Overdue(d) = {}
<1> SUFFICES ASSUME NEW p \in KeptInflight(d), p \in Overdue(d) PROVE FALSE
  OBVIOUS
<1>1. p.sent \in Nat /\ now \in Nat
  BY DEF KeptInflight, TypeOK, InflightPacket
<1> QED
  BY <1>1 DEF KeptInflight, Overdue, SentAfter, SentBefore, Saturating

LEMMA OnceStep ==
  ASSUME ForgetInflight <= ForgetRecv
  PROVE  TypeOK /\ OnceInv /\ [Next]_vars => OnceInv'
<1> SUFFICES ASSUME TypeOK, OnceInv, [Next]_vars PROVE OnceInv'
  OBVIOUS
<1>1. OrdinalInv'
  BY OrdinalStep DEF OnceInv
<1>2. ASSUME NEW d \in Dest
      PROVE  /\ Apart(inflight'[d], recv'[d])
             /\ Apart(inflight'[d], lost'[d])
             /\ Apart(recv'[d], lost'[d])
             /\ Unique(inflight'[d])
             /\ Unique(recv'[d])
             /\ Unique(lost'[d])
  <2>0. /\ Apart(inflight[d], recv[d])
        /\ Apart(inflight[d], lost[d])
        /\ Apart(recv[d], lost[d])
        /\ Unique(inflight[d])
        /\ Unique(recv[d])
        /\ Unique(lost[d])
    BY DEF OnceInv
  <2>1. CASE Match
    <3>1. PICK r \in batch :
            /\ inflight' = [e \in Dest |-> Unanswered(e, r)]
            /\ recv' = [e \in Dest |-> recv[e] \cup {Completion(q, r) : q \in Completed(e, r)}]
      BY <2>1 DEF Match
    <3>2. /\ inflight'[d] = inflight[d] \ Completed(d, r)
          /\ recv'[d] = recv[d] \cup {Completion(q, r) : q \in Completed(d, r)}
          /\ lost'[d] = lost[d]
          /\ Completed(d, r) \subseteq inflight[d]
      BY <2>1, <3>1 DEF Match, Unanswered, Completed
    <3>3. \A q : Completion(q, r).n = q.n
      BY DEF Completion
    <3> QED
      BY <2>0, <3>2, <3>3 DEF Apart, Unique
  <2>2. CASE Cleanup
    <3>1. /\ inflight'[d] \subseteq inflight[d]
          /\ inflight'[d] \cap Overdue(d) = {}
          /\ recv'[d] \subseteq recv[d]
          /\ lost'[d] \subseteq lost[d] \cup {Declared(q) : q \in Overdue(d)}
          /\ Overdue(d) \subseteq inflight[d]
      BY <2>2, LostLeavesFlight DEF Cleanup, KeptInflight, KeptRecv, KeptLost, Overdue
    <3>2. \A q : Declared(q).n = q.n
      BY DEF Declared
    <3> QED
      BY <2>0, <3>1, <3>2 DEF Apart, Unique
  <2>3. CASE Stamp
    <3>1. PICK p : inflight' = [inflight EXCEPT ![turn] = @ \cup {p}] /\ p.n = sent_count[turn] + 1
      <4>1. PICK sent \in send_start .. now :
              inflight' = [inflight EXCEPT ![turn] = @ \cup
                {[n |-> sent_count[turn] + 1, seqn |-> seq[turn], sent |-> sent]}]
        BY <2>3 DEF Stamp
      <4>2. [n |-> sent_count[turn] + 1, seqn |-> seq[turn], sent |-> sent].n = sent_count[turn] + 1
        OBVIOUS
      <4> QED
        BY <4>1, <4>2
    <3>2. recv' = recv /\ lost' = lost
      BY <2>3 DEF Stamp
    <3>3. CASE d = turn
      <4>1. inflight'[d] = inflight[d] \cup {p} /\ p.n = sent_count[d] + 1
        BY <3>1, <3>3 DEF TypeOK
      <4>2. \A q \in inflight[d] \cup recv[d] \cup lost[d] : q.n # p.n
        <5>1. \A q \in Queues(d) : q.n <= sent_count[d] /\ q.n \in Nat
          BY QueueType DEF OnceInv, OrdinalInv
        <5>2. sent_count[d] \in Nat
          BY DEF TypeOK
        <5> QED
          BY <4>1, <5>1, <5>2 DEF Queues
      <4> QED
        BY <2>0, <3>2, <4>1, <4>2 DEF Apart, Unique
    <3>4. CASE d # turn
      BY <2>0, <3>1, <3>2, <3>4 DEF TypeOK
    <3> QED
      BY <3>3, <3>4
  <2>4. CASE UNCHANGED queueVars
    BY <2>0, <2>4 DEF queueVars
  <2> QED
    BY <2>1, <2>2, <2>3, <2>4, QueueSteps
<1> QED
  BY <1>1, <1>2 DEF OnceInv

LEMMA InitOnce == Init => OnceInv
BY DEF Init, OnceInv, OrdinalInv, Queues, Apart, Unique

LEMMA OnceCorrect ==
  ASSUME ForgetInflight <= ForgetRecv
  PROVE  Spec => []OnceInv
<1>1. TypeOK /\ OnceInv /\ [Next]_vars => OnceInv'
  BY OnceStep
<1> QED
  BY <1>1, InitOnce, TypeCorrect, PTL DEF Spec

\* When a ping is not declared lost before it may leave flight, every ping is
\* in one queue at most and there once: what main's loss figures count.
THEOREM EveryPingOnce ==
  ASSUME ForgetInflight <= ForgetRecv
  PROVE  Spec => []AccountedOnce
<1>1. OnceInv => AccountedOnce
  BY DEF OnceInv, AccountedOnce, Apart, Unique, Ordinals
<1> QED
  BY <1>1, OnceCorrect, PTL

-----------------------------------------------------------------------------
(* The interval between two pings.                                         *)

SpacingInv ==
  /\ SendSpacing
  /\ \A d \in Dest : \A p \in Queues(d) : p.sent <= last_pckt_sent[d] + Jitter
  /\ pc = "stamp" => send_start - last_pckt_sent[turn] + MinDelay >= Interval[turn]

LEMMA MinDelayType == MinDelay \in Nat
BY DEF MinDelay

LEMMA SpacingStep ==
  TypeOK /\ ClockInv /\ OrdinalInv /\ SpacingInv /\ [Next]_vars => SpacingInv'
<1> SUFFICES ASSUME TypeOK, ClockInv, OrdinalInv, SpacingInv, [Next]_vars PROVE SpacingInv'
  OBVIOUS
<1>1. \A d \in Dest : Interval[d] \in Nat /\ last_pckt_sent[d] \in Int
  BY DEF TypeOK
<1>2. MinDelay \in Nat /\ send_start \in Nat /\ now \in Nat
  BY MinDelayType DEF TypeOK
<1>3. ASSUME NEW d \in Dest, NEW p \in Queues(d)', NEW q \in Queues(d)', p.n < q.n
      PROVE  q.sent - p.sent >= Interval[d] - MinDelay - Jitter
  <2>1. CASE /\ \E r \in Queues(d) : r.n = p.n /\ r.sent = p.sent
             /\ \E r \in Queues(d) : r.n = q.n /\ r.sent = q.sent
    BY <1>3, <2>1 DEF SpacingInv, SendSpacing
  <2>2. CASE Stamp /\ d = turn /\ q.sent \in send_start .. now
             /\ \E r \in Queues(d) : r.n = p.n /\ r.sent = p.sent
    <3>1. PICK r \in Queues(d) : r.n = p.n /\ r.sent = p.sent
      BY <2>2
    <3>2. r.sent \in Nat /\ r.sent <= last_pckt_sent[d] + Jitter
      BY QueueType DEF SpacingInv
    <3>3. send_start - last_pckt_sent[d] + MinDelay >= Interval[d]
      BY <2>2 DEF SpacingInv, Stamp
    <3>4. Interval[d] \in Nat /\ last_pckt_sent[d] \in Int /\ Jitter \in Nat
      BY <1>1
    <3>5. q.sent \in Int /\ q.sent >= send_start
      BY <1>2, <2>2
    <3>6. p.sent \in Int /\ p.sent <= last_pckt_sent[d] + Jitter
      BY <3>1, <3>2
    <3> DEFINE I == Interval[d]
               l == last_pckt_sent[d]
               M == MinDelay
    <3>7. I \in Int /\ l \in Int /\ M \in Int /\ send_start - l + M >= I
      BY <1>2, <3>3, <3>4
    <3>8. p.sent <= l + Jitter
      BY <3>6
    <3> HIDE DEF I, l, M
    <3>9. q.sent - p.sent >= I - M - Jitter
      BY <1>2, <3>4, <3>5, <3>6, <3>7, <3>8
    <3> QED
      BY <3>9 DEF I, l, M
  <2>3. CASE p.n = sent_count[d] + 1
    <3>1. sent_count[d] \in Nat
      BY DEF TypeOK
    <3>2. q.n <= sent_count[d] + 1 /\ q.n \in Nat
      BY <3>1, QueueOrigin, QueueType DEF OrdinalInv
    <3> QED
      BY <1>3, <2>3, <3>1, <3>2
  <2> QED
    BY <2>1, <2>2, <2>3, QueueOrigin
<1>4. ASSUME NEW d \in Dest, NEW p \in Queues(d)'
      PROVE  p.sent <= last_pckt_sent'[d] + Jitter
  <2>1. CASE Stamp /\ d = turn
    <3>1. PICK j \in 0 .. Jitter : last_pckt_sent' = [last_pckt_sent EXCEPT ![turn] = now - j]
      BY <2>1 DEF Stamp
    <3>2. last_pckt_sent'[d] = now - j
      BY <2>1, <3>1 DEF TypeOK
    <3>3. CASE p.sent \in send_start .. now
      BY <1>2, <3>2, <3>3
    <3>4. CASE \E q \in Queues(d) : q.n = p.n /\ q.sent = p.sent
      <4>1. p.sent \in Nat /\ p.sent <= now
        BY <3>4, QueueType DEF ClockInv
      <4> QED
        BY <1>2, <3>2, <4>1
    <3> QED
      BY <3>3, <3>4, QueueOrigin
  <2>2. CASE ~(Stamp /\ d = turn)
    <3>1. last_pckt_sent'[d] = last_pckt_sent[d]
      BY <2>2, QueueSteps DEF Stamp, Match, Cleanup, queueVars, TypeOK
    <3> QED
      BY <2>2, <3>1, QueueOrigin DEF SpacingInv
  <2> QED
    BY <2>1, <2>2
<1>6. ASSUME pc' = "stamp"
      PROVE  send_start' - last_pckt_sent'[turn'] + MinDelay >= Interval[turn']
  <2>1. CASE Transmit
    <3>1. /\ send_start' = now /\ turn' = turn /\ last_pckt_sent' = last_pckt_sent
          /\ Due(turn) /\ turn \in Dest
      BY <2>1 DEF Transmit, destVars, TypeOK
    <3>2. last_pckt_sent[turn] \in Int /\ last_pckt_sent[turn] <= now
      BY <1>1, <3>1 DEF ClockInv
    <3>3. Saturating(now - last_pckt_sent[turn]) = now - last_pckt_sent[turn]
      BY <1>2, <3>2 DEF Saturating
    <3> QED
      BY <3>1, <3>3 DEF Due
  <2>2. CASE pc = "stamp" /\ UNCHANGED <<turn, send_start, last_refresh, queueVars>>
    BY <2>2 DEF SpacingInv, queueVars
  <2> QED
    BY <1>6, <2>1, <2>2, StampingSteps
<1>7. SendSpacing'
  BY <1>3 DEF SendSpacing
<1> QED
  BY <1>4, <1>6, <1>7 DEF SpacingInv

\* Whatever the rounds do, two pings to one host are sent at least its
\* interval apart, less min_delay and the jitter (Destination::send).
THEOREM PingsSpaced == Spec => []SendSpacing
<1>1. Init => SpacingInv
  BY DEF Init, SpacingInv, SendSpacing, Queues
<1>2. SpacingInv => SendSpacing
  BY DEF SpacingInv
<1>3. Init => OrdinalInv
  BY DEF Init, OrdinalInv, Queues
<1>4. Spec => []OrdinalInv
  BY <1>3, OrdinalStep, TypeCorrect, PTL DEF Spec
<1> QED
  BY <1>1, <1>2, <1>4, SpacingStep, TypeCorrect, ClockCorrect, PTL DEF Spec

-----------------------------------------------------------------------------
(* Retention.                                                              *)

\* How the main thread comes to be outside cleanup: it has run it, or it was
\* outside before and last_refresh is what it was.
LEMMA RefreshSteps ==
  ASSUME [Next]_vars, pc' # "cleanup"
  PROVE  \/ Cleanup
         \/ pc # "cleanup" /\ last_refresh' = last_refresh
BY DEF Next, RecvAll, SendAll, Refresh, ReaderTurn, Drain, Match, Matched, Wake, Skip,
       Transmit, Stamp, TransmitFails, Timer, Tick, vars, roundVars

\* A limit met at one instant is met at every earlier one.
LEMMA YoungerBefore ==
  ASSUME NEW p, p.sent \in Int, NEW t \in Int, NEW u \in Int, u <= t, NEW wait \in Int,
         SentBefore(p, t, wait)
  PROVE  SentBefore(p, u, wait)
BY DEF SentBefore, Saturating

LEMMA RetentionStep ==
  ASSUME ForgetInflight > 0
  PROVE  TypeOK /\ ClockInv /\ Retention /\ [Next]_vars => Retention'
<1> SUFFICES ASSUME TypeOK, ClockInv, Retention, [Next]_vars, pc' # "cleanup",
                    NEW d \in Dest
             PROVE  /\ \A p \in inflight'[d] : SentBefore(p, last_refresh', ForgetInflight)
                    /\ \A p \in recv'[d] :
                         SentBefore(p, last_refresh', ForgetInflight + ForgetRecv)
                    /\ \A p \in lost'[d] :
                         SentBefore(p, last_refresh', ForgetInflight + ForgetLost)
  BY DEF Retention
<1>1. now \in Int /\ last_refresh \in Int /\ last_refresh <= now
  BY DEF TypeOK, ClockInv
<1>2. CASE Cleanup
  <2>1. /\ inflight'[d] = KeptInflight(d) /\ recv'[d] = KeptRecv(d) /\ lost'[d] = KeptLost(d)
        /\ last_refresh' = last_refresh
    BY <1>2 DEF Cleanup
  <2>2. TypeOK'
    BY <1>2, CleanupType
  <2>3. \A p \in inflight'[d] \cup recv'[d] \cup lost'[d] : p.sent \in Int
    <3>1. /\ inflight'[d] \subseteq InflightPacket
          /\ recv'[d] \subseteq ReceivedPacket
          /\ lost'[d] \subseteq LostPacket
      BY <2>2 DEF TypeOK
    <3> QED
      BY <3>1 DEF InflightPacket, ReceivedPacket, LostPacket
  <2>4. \A p \in inflight'[d] : SentBefore(p, now, ForgetInflight)
    BY <2>1 DEF KeptInflight
  <2>5. \A p \in recv'[d] : SentBefore(p, now, ForgetInflight + ForgetRecv)
    BY <2>1 DEF KeptRecv
  <2>6. \A p \in lost'[d] : SentBefore(p, now, ForgetInflight + ForgetLost)
    BY <2>1 DEF KeptLost
  <2>7. /\ ForgetInflight \in Int
        /\ ForgetInflight + ForgetRecv \in Int
        /\ ForgetInflight + ForgetLost \in Int
    BY TimingAssumption DEF TimingAssumption
  <2>8. last_refresh' \in Int /\ last_refresh' <= now
    BY <1>1, <2>1
  <2>9. ASSUME NEW p \in inflight'[d] PROVE SentBefore(p, last_refresh', ForgetInflight)
    <3>1. p.sent \in Int /\ SentBefore(p, now, ForgetInflight)
      BY <2>3, <2>4
    <3> QED
      BY <1>1, <2>7, <2>8, <3>1, YoungerBefore
  <2>10. ASSUME NEW p \in recv'[d]
         PROVE  SentBefore(p, last_refresh', ForgetInflight + ForgetRecv)
    <3>1. p.sent \in Int /\ SentBefore(p, now, ForgetInflight + ForgetRecv)
      BY <2>3, <2>5
    <3> QED
      BY <1>1, <2>7, <2>8, <3>1, YoungerBefore
  <2>11. ASSUME NEW p \in lost'[d]
         PROVE  SentBefore(p, last_refresh', ForgetInflight + ForgetLost)
    <3>1. p.sent \in Int /\ SentBefore(p, now, ForgetInflight + ForgetLost)
      BY <2>3, <2>6
    <3> QED
      BY <1>1, <2>7, <2>8, <3>1, YoungerBefore
  <2> QED
    BY <2>9, <2>10, <2>11
<1>3. CASE pc # "cleanup" /\ last_refresh' = last_refresh /\ ~Cleanup
  <2>1. /\ \A p \in inflight[d] : SentBefore(p, last_refresh, ForgetInflight)
        /\ \A p \in recv[d] : SentBefore(p, last_refresh, ForgetInflight + ForgetRecv)
        /\ \A p \in lost[d] : SentBefore(p, last_refresh, ForgetInflight + ForgetLost)
    BY <1>3 DEF Retention
  <2>2. CASE Match
    <3>1. PICK r \in batch :
            /\ inflight' = [e \in Dest |-> Unanswered(e, r)]
            /\ recv' = [e \in Dest |-> recv[e] \cup {Completion(q, r) : q \in Completed(e, r)}]
      BY <2>2 DEF Match
    <3>2. inflight'[d] \subseteq inflight[d] /\ lost'[d] = lost[d]
      BY <2>2, <3>1 DEF Match, Unanswered
    <3>3. ASSUME NEW q \in Completed(d, r)
          PROVE  SentBefore(Completion(q, r), last_refresh, ForgetInflight + ForgetRecv)
      <4>1. q.sent \in Nat /\ SentBefore(q, last_refresh, ForgetInflight)
        BY <2>1 DEF Completed, TypeOK, InflightPacket
      <4>2. Completion(q, r).sent = q.sent
        BY DEF Completion
      <4> QED
        BY <1>1, <4>1, <4>2 DEF SentBefore, Saturating
    <3> QED
      BY <1>3, <2>1, <3>1, <3>2, <3>3
  <2>3. CASE Stamp
    <3>1. PICK sent \in send_start .. now :
            inflight' = [inflight EXCEPT ![turn] = @ \cup
              {[n |-> sent_count[turn] + 1, seqn |-> seq[turn], sent |-> sent]}]
      BY <2>3 DEF Stamp
    <3>2. recv' = recv /\ lost' = lost
      BY <2>3 DEF Stamp
    <3>3. ASSUME NEW p \in inflight'[d], p \notin inflight[d]
          PROVE  SentBefore(p, last_refresh, ForgetInflight)
      <4>1. p = [n |-> sent_count[turn] + 1, seqn |-> seq[turn], sent |-> sent]
        BY <3>1, <3>3 DEF TypeOK
      <4>2. sent \in Nat /\ sent >= last_refresh
        BY <1>1, <2>3 DEF ClockInv, Stamp, TypeOK
      <4> QED
        BY <1>1, <4>1, <4>2 DEF SentBefore, Saturating
    <3> QED
      BY <1>3, <2>1, <3>2, <3>3
  <2>4. CASE UNCHANGED queueVars
    BY <1>3, <2>1, <2>4 DEF queueVars
  <2> QED
    BY <1>3, <2>2, <2>3, <2>4, QueueSteps
<1> QED
  BY <1>2, <1>3, RefreshSteps

\* From one refresh to the next no queue holds a packet that was past its
\* retention at the refresh (Comms::cleanup), if inflight_secs is not zero.
THEOREM QueuesRetained ==
  ASSUME ForgetInflight > 0
  PROVE  Spec => []Retention
<1>1. Init => Retention
  BY DEF Init, Retention
<1>2. TypeOK /\ ClockInv /\ Retention /\ [Next]_vars => Retention'
  BY RetentionStep
<1> QED
  BY <1>1, <1>2, TypeCorrect, ClockCorrect, PTL DEF Spec

-----------------------------------------------------------------------------
(* What is declared lost, and what leaves flight.                          *)

\* For a packet in a queue the saturating age is the age.
LEMMA OverdueAge ==
  ASSUME TypeOK, ClockInv, NEW d \in Dest, NEW p \in Queues(d), NEW wait \in Nat
  PROVE  /\ p.sent \in Nat
         /\ SentBefore(p, now, wait) <=> now - p.sent < wait
<1>1. p.sent \in Nat /\ now \in Nat /\ p.sent <= now
  BY QueueType DEF TypeOK, ClockInv
<1>2. Saturating(now - p.sent) = now - p.sent
  BY <1>1 DEF Saturating
<1> QED
  BY <1>1, <1>2 DEF SentBefore

\* A ping is declared lost at forget_inflight or later, if forget_recv, which
\* cleanup reads in its place, is not the smaller of the two.
THEOREM LostInTime ==
  ASSUME ForgetInflight <= ForgetRecv
  PROVE  Spec => []LostOnlyAfterTimeout
<1>1. Init => LostOnlyAfterTimeout
  BY DEF Init, LostOnlyAfterTimeout
<1>2. TypeOK /\ ClockInv /\ LostOnlyAfterTimeout /\ [Next]_vars => LostOnlyAfterTimeout'
  <2> SUFFICES ASSUME TypeOK, ClockInv, LostOnlyAfterTimeout, [Next]_vars,
                      NEW d \in Dest, NEW p \in lost'[d]
               PROVE  p.declared - p.sent >= ForgetInflight
    BY DEF LostOnlyAfterTimeout
  <2>1. CASE p \in lost[d]
    BY <2>1 DEF LostOnlyAfterTimeout
  <2>2. CASE Cleanup /\ p \notin lost[d]
    <3>1. PICK q \in Overdue(d) : p = Declared(q)
      BY <2>2 DEF Cleanup, KeptLost
    <3>2. q \in Queues(d) /\ ~SentBefore(q, now, ForgetRecv)
      BY DEF Overdue, SentAfter, Queues
    <3>3. now \in Nat /\ ForgetRecv \in Nat /\ ForgetInflight \in Nat
      BY TimingAssumption DEF TypeOK, TimingAssumption
    <3>4. q.sent \in Nat /\ now - q.sent >= ForgetRecv
      <4>1. /\ q.sent \in Nat
            /\ SentBefore(q, now, ForgetRecv) <=> now - q.sent < ForgetRecv
        BY <3>2, <3>3, OverdueAge
      <4> QED
        BY <3>2, <3>3, <4>1
    <3>5. p.declared = now /\ p.sent = q.sent
      BY <3>1 DEF Declared
    <3>6. now - q.sent >= ForgetInflight
      BY <3>4, <3>3
    <3> QED
      BY <3>5, <3>6
  <2>3. CASE Match \/ Stamp \/ UNCHANGED queueVars
    BY <2>1, <2>3 DEF Match, Stamp, queueVars
  <2> QED
    BY <2>1, <2>2, <2>3, QueueSteps
<1> QED
  BY <1>1, <1>2, TypeCorrect, ClockCorrect, PTL DEF Spec

\* A ping leaves flight only as received or lost, if forget_recv is not the
\* larger of the two limits.
THEOREM NothingDropped ==
  ASSUME ForgetRecv <= ForgetInflight
  PROVE  Spec => NoSilentDrop
<1>1. TypeOK /\ ClockInv /\ [Next]_vars => LeavesForAQueue
  <2> SUFFICES ASSUME TypeOK, ClockInv, [Next]_vars, NEW d \in Dest, NEW p \in inflight[d],
                      p.n \notin Ordinals(inflight'[d]),
                      ~(now - p.sent >= ForgetInflight + ForgetLost)
               PROVE  p.n \in Ordinals(recv'[d]) \cup Ordinals(lost'[d])
    BY DEF LeavesForAQueue
  <2>0. p \notin inflight'[d] /\ p \in Queues(d)
    BY DEF Ordinals, Queues
  <2>1. CASE Match
    <3>1. PICK r \in batch :
            /\ inflight' = [e \in Dest |-> Unanswered(e, r)]
            /\ recv' = [e \in Dest |-> recv[e] \cup {Completion(q, r) : q \in Completed(e, r)}]
      BY <2>1 DEF Match
    <3>2. Completion(p, r) \in recv'[d] /\ Completion(p, r).n = p.n
      BY <2>0, <3>1 DEF Unanswered, Completion
    <3> QED
      BY <3>2 DEF Ordinals
  <2>2. CASE Cleanup
    <3>1. ~SentBefore(p, now, ForgetInflight)
      BY <2>0, <2>2 DEF Cleanup, KeptInflight
    <3>2. p.sent \in Nat /\ now \in Nat /\ now - p.sent >= ForgetInflight
      <4>1. p.sent \in Nat /\ ~(now - p.sent < ForgetInflight)
        BY <2>0, <3>1, OverdueAge
      <4>2. now \in Nat
        BY DEF TypeOK
      <4> QED
        BY <4>1, <4>2
    <3>3. SentAfter(p, now, ForgetRecv) /\ SentBefore(p, now, ForgetInflight + ForgetLost)
      <4>1. ~SentBefore(p, now, ForgetRecv)
        BY <2>0, <3>2, OverdueAge
      <4>2. ForgetInflight + ForgetLost \in Nat
        OBVIOUS
      <4>3. SentBefore(p, now, ForgetInflight + ForgetLost)
        BY <2>0, <3>2, <4>2, OverdueAge
      <4> QED
        BY <4>1, <4>3 DEF SentAfter
    <3>4. /\ p \in Overdue(d)
          /\ Declared(p).n = p.n
          /\ Declared(p).sent = p.sent
      BY <3>3 DEF Overdue, Declared
    <3>5. SentBefore(Declared(p), now, ForgetInflight + ForgetLost)
      BY <3>3, <3>4 DEF SentBefore
    <3>6. Declared(p) \in lost'[d]
      BY <2>2, <3>4, <3>5 DEF Cleanup, KeptLost
    <3> QED
      BY <3>4, <3>6 DEF Ordinals
  <2>3. CASE Stamp \/ UNCHANGED queueVars
    <3>1. inflight[d] \subseteq inflight'[d]
      <4>1. ASSUME NEW q, inflight' = [inflight EXCEPT ![turn] = @ \cup {q}]
            PROVE  inflight[d] \subseteq inflight'[d]
        BY <4>1 DEF TypeOK
      <4> QED
        BY <2>3, <4>1 DEF Stamp, queueVars
    <3> QED
      BY <2>0, <3>1
  <2> QED
    BY <2>1, <2>2, <2>3, QueueSteps
<1>2. TypeOK /\ ClockInv /\ [Next]_vars => [LeavesForAQueue]_vars
  BY <1>1
<1> QED
  BY <1>2, TypeCorrect, ClockCorrect, PTL DEF Spec, NoSilentDrop

-----------------------------------------------------------------------------
(* The counters agree with the queues.                                     *)

\* What is counted lost was in flight before.
LEMMA SumsOrdered ==
  ASSUME NEW k \in Nat, NEW o \in Nat, NEW m \in Nat, NEW i \in Nat, NEW l \in Nat,
         k + o <= i, m <= l + o
  PROVE  k + m <= i + l
OBVIOUS

LEMMA ConservationStep ==
  ASSUME ForgetInflight <= ForgetRecv
  PROVE  TypeOK /\ FiniteQueues /\ Conservation /\ [Next]_vars => Conservation'
<1> SUFFICES ASSUME TypeOK, FiniteQueues, Conservation, [Next]_vars, NEW d \in Dest
             PROVE  recv_count'[d] + Cardinality(inflight'[d]) + Cardinality(lost'[d])
                      <= sent_count'[d]
  BY DEF Conservation
<1> DEFINE i == Cardinality(inflight[d])
           l == Cardinality(lost[d])
           r == recv_count[d]
           s == sent_count[d]
<1>1. /\ IsFiniteSet(inflight[d]) /\ IsFiniteSet(lost[d])
      /\ i \in Nat /\ l \in Nat /\ r \in Nat /\ s \in Nat /\ r + i + l <= s
  BY FS_CardinalityType DEF FiniteQueues, TypeOK, Conservation
<1>2. CASE Match
  <2>1. PICK g \in batch :
          /\ inflight' = [e \in Dest |-> Unanswered(e, g)]
          /\ recv_count' = [e \in Dest |-> recv_count[e] + Cardinality(Completed(e, g))]
    BY <1>2 DEF Match
  <2> DEFINE C == Completed(d, g)
  <2>2. /\ inflight'[d] = inflight[d] \ C
        /\ recv_count'[d] = r + Cardinality(C)
        /\ lost'[d] = lost[d] /\ sent_count'[d] = s
    BY <1>2, <2>1 DEF Match, Unanswered
  <2>3. inflight[d] \cap C = C /\ C \in SUBSET inflight[d]
    BY DEF Completed
  <2> HIDE DEF C
  <2>4. IsFiniteSet(C) /\ Cardinality(C) \in Nat
    BY <1>1, <2>3, FS_Subset, FS_CardinalityType
  <2>5. Cardinality(inflight[d] \ C) = i - Cardinality(C)
    BY <1>1, <2>3, FS_Difference
  <2> HIDE DEF i, l, r, s
  <2> QED
    BY <1>1, <2>2, <2>4, <2>5 DEF l
<1>3. CASE Cleanup
  <2> DEFINE K == inflight'[d]
             O == Overdue(d)
             D == {Declared(p) : p \in O}
  <2>1. /\ K \in SUBSET inflight[d] /\ O \in SUBSET inflight[d] /\ K \cap O = {}
        /\ lost'[d] \in SUBSET (lost[d] \cup D)
        /\ recv_count'[d] = r /\ sent_count'[d] = s
    BY <1>3, LostLeavesFlight DEF Cleanup, KeptInflight, KeptLost, Overdue
  <2>2. IsFiniteSet(O) /\ IsFiniteSet(D) /\ Cardinality(D) <= Cardinality(O)
    BY DeclaredFinite
  <2> HIDE DEF K, O, D
  <2>3. IsFiniteSet(K) /\ Cardinality(K) \in Nat /\ Cardinality(O) \in Nat /\ Cardinality(D) \in Nat
    BY <1>1, <2>1, <2>2, FS_Subset, FS_CardinalityType
  <2>4. Cardinality(K) + Cardinality(O) <= i
    <3>1. Cardinality(K \cup O) = Cardinality(K) + Cardinality(O)
      <4>1. Cardinality(K \cap O) = 0
        BY <2>1, FS_EmptySet
      <4>2. Cardinality(K \cup O) = Cardinality(K) + Cardinality(O) - Cardinality(K \cap O)
        BY <2>2, <2>3, FS_Union
      <4> QED
        BY <2>3, <4>1, <4>2
    <3>2. K \cup O \in SUBSET inflight[d]
      BY <2>1
    <3>3. Cardinality(K \cup O) <= i
      BY <1>1, <3>2, FS_Subset
    <3> QED
      BY <3>1, <3>3
  <2>5. IsFiniteSet(lost[d] \cup D) /\ Cardinality(lost[d] \cup D) <= l + Cardinality(D)
    <3>1. /\ IsFiniteSet(lost[d] \cup D)
          /\ Cardinality(lost[d] \cup D) = l + Cardinality(D) - Cardinality(lost[d] \cap D)
      BY <1>1, <2>2, FS_Union
    <3>2. Cardinality(lost[d] \cap D) \in Nat
      BY <1>1, FS_Intersection, FS_CardinalityType
    <3> QED
      BY <1>1, <2>3, <3>1, <3>2
  <2>6. Cardinality(lost'[d]) <= Cardinality(lost[d] \cup D) /\ Cardinality(lost'[d]) \in Nat
    BY <2>1, <2>5, FS_Subset, FS_CardinalityType
  <2>7. Cardinality(lost[d] \cup D) \in Nat
    BY <2>5, FS_CardinalityType
  <2> HIDE DEF i, l, r, s
  <2>8. Cardinality(lost'[d]) <= l + Cardinality(O)
    <3>1. Cardinality(lost'[d]) <= l + Cardinality(D)
      BY <1>1, <2>3, <2>5, <2>6, <2>7
    <3> QED
      BY <1>1, <2>2, <2>3, <2>6, <3>1
  <2>9. Cardinality(K) + Cardinality(lost'[d]) <= i + l
    BY <1>1, <2>3, <2>4, <2>6, <2>8, SumsOrdered
  <2> QED
    BY <1>1, <2>1, <2>3, <2>6, <2>9 DEF K
<1>4. CASE Stamp
  <2>1. PICK p : inflight' = [inflight EXCEPT ![turn] = @ \cup {p}]
    BY <1>4 DEF Stamp
  <2>2. /\ lost'[d] = lost[d] /\ recv_count'[d] = r
        /\ IF d = turn THEN inflight'[d] = inflight[d] \cup {p} /\ sent_count'[d] = s + 1
                       ELSE inflight'[d] = inflight[d] /\ sent_count'[d] = s
    BY <1>4, <2>1 DEF Stamp, TypeOK
  <2>3. Cardinality(inflight[d] \cup {p}) = IF p \in inflight[d] THEN i ELSE i + 1
    BY <1>1, FS_AddElement
  <2> HIDE DEF r, s
  <2>4. CASE d = turn
    <3>1. Cardinality(inflight'[d]) = i \/ Cardinality(inflight'[d]) = i + 1
      BY <2>2, <2>3, <2>4
    <3>2. Cardinality(lost'[d]) = l /\ recv_count'[d] = r /\ sent_count'[d] = s + 1
      BY <2>2, <2>4
    <3> HIDE DEF i, l
    <3> QED
      BY <1>1, <3>1, <3>2
  <2>5. CASE d # turn
    BY <1>1, <2>2, <2>5
  <2> QED
    BY <2>4, <2>5
<1>5. CASE UNCHANGED queueVars
  BY <1>1, <1>5 DEF queueVars
<1> QED
  BY <1>2, <1>3, <1>4, <1>5, QueueSteps

\* No ping is counted twice among received, in flight and lost, if a ping is
\* not declared lost before it may leave flight.
THEOREM CountersConserved ==
  ASSUME ForgetInflight <= ForgetRecv
  PROVE  Spec => []Conservation
<1>1. Init => Conservation
  BY FS_EmptySet DEF Init, Conservation
<1>2. TypeOK /\ FiniteQueues /\ Conservation /\ [Next]_vars => Conservation'
  BY ConservationStep
<1> QED
  BY <1>1, <1>2, TypeCorrect, PTL DEF Spec

-----------------------------------------------------------------------------
(* The pinger implements the ledger.                                       *)

LEMMA PingsProperties ==
  /\ \A S : \A p \in S : [n |-> p.n, sent |-> p.sent] \in Pings(S)
  /\ \A S, T : S \subseteq T => Pings(S) \subseteq Pings(T)
  /\ \A S, T : Pings(S \cup T) = Pings(S) \cup Pings(T)
BY DEF Pings

\* Taking packets out of a queue takes their pings out, since ordinals differ.
LEMMA PingsDifference ==
  ASSUME NEW S, NEW T, T \subseteq S, Unique(S)
  PROVE  Pings(S \ T) = Pings(S) \ Pings(T)
<1>1. ASSUME NEW p \in S \ T, NEW q \in T PROVE [n |-> p.n, sent |-> p.sent] # [n |-> q.n, sent |-> q.sent]
  <2>1. p.n # q.n
    BY DEF Unique
  <2> QED
    BY <2>1
<1>2. Pings(S \ T) \subseteq Pings(S) \ Pings(T)
  BY <1>1 DEF Pings
<1>3. Pings(S) \ Pings(T) \subseteq Pings(S \ T)
  BY DEF Pings
<1> QED
  BY <1>2, <1>3

LEMMA MatchAnswers ==
  ASSUME TypeOK, OnceInv, Match
  PROVE  L!Answer
<1>1. PICK r \in batch :
        /\ inflight' = [e \in Dest |-> Unanswered(e, r)]
        /\ recv' = [e \in Dest |-> recv[e] \cup {Completion(q, r) : q \in Completed(e, r)}]
  BY DEF Match
<1>2. ASSUME NEW d \in Dest
      PROVE  /\ Pings(inflight'[d]) \subseteq Pings(inflight[d])
             /\ Pings(recv'[d]) = Pings(recv[d]) \cup (Pings(inflight[d]) \ Pings(inflight'[d]))
  <2> DEFINE C == Completed(d, r)
             R == {Completion(q, r) : q \in C}
  <2>1. C \subseteq inflight[d] /\ Unique(inflight[d])
    BY DEF Completed, OnceInv
  <2>2. inflight'[d] = inflight[d] \ C /\ recv'[d] = recv[d] \cup R
    BY <1>1 DEF Unanswered
  <2>3. Pings(R) = Pings(C)
    <3>1. \A q : Completion(q, r).n = q.n /\ Completion(q, r).sent = q.sent
      BY DEF Completion
    <3> QED
      BY <3>1 DEF Pings
  <2> HIDE DEF C, R
  <2>4. Pings(inflight[d] \ C) = Pings(inflight[d]) \ Pings(C)
    BY <2>1, PingsDifference
  <2>5. Pings(C) \subseteq Pings(inflight[d])
    BY <2>1, PingsProperties
  <2>6. Pings(recv'[d]) = Pings(recv[d]) \cup Pings(C)
    BY <2>2, <2>3, PingsProperties
  <2>7. Pings(inflight'[d]) = Pings(inflight[d]) \ Pings(C)
    BY <2>2, <2>4
  <2> QED
    BY <2>5, <2>6, <2>7
<1> DEFINE waiting == [d \in Dest |-> Pings(inflight[d])]
           after == [d \in Dest |-> Pings(inflight'[d])]
<1>3. after \in [Dest -> SUBSET UNION {waiting[d] : d \in Dest}]
  BY <1>2
<1>4. now' = now /\ sent_count' = sent_count /\ lost' = lost
  BY DEF Match
<1> QED
  BY <1>2, <1>3, <1>4 DEF L!Answer

LEMMA StampIssues ==
  ASSUME TypeOK, ClockInv, Stamp
  PROVE  L!Issue(turn)
<1>1. PICK sent \in send_start .. now :
        inflight' = [inflight EXCEPT ![turn] = @ \cup
          {[n |-> sent_count[turn] + 1, seqn |-> seq[turn], sent |-> sent]}]
  BY DEF Stamp
<1>2. sent \in 0 .. now
  BY DEF TypeOK
<1>3. turn \in Dest
  BY DEF TypeOK
<1> DEFINE waiting == [d \in Dest |-> Pings(inflight[d])]
           ping == [n |-> sent_count[turn] + 1, sent |-> sent]
<1>4. ASSUME NEW d \in Dest
      PROVE  Pings(inflight'[d]) =
               IF d = turn THEN Pings(inflight[d]) \cup {ping} ELSE Pings(inflight[d])
  <2> DEFINE packet == [n |-> sent_count[turn] + 1, seqn |-> seq[turn], sent |-> sent]
  <2>1. inflight'[d] = IF d = turn THEN inflight[d] \cup {packet} ELSE inflight[d]
    BY <1>1 DEF TypeOK
  <2>2. Pings({packet}) = {ping}
    BY DEF Pings
  <2> HIDE DEF packet, ping
  <2> QED
    BY <2>1, <2>2, PingsProperties
<1>5. [d \in Dest |-> Pings(inflight'[d])] = [waiting EXCEPT ![turn] = @ \cup {ping}]
  BY <1>3, <1>4
<1>6. /\ now' = now /\ recv' = recv /\ lost' = lost
      /\ sent_count' = [sent_count EXCEPT ![turn] = @ + 1]
  BY DEF Stamp
<1> QED
  BY <1>2, <1>5, <1>6 DEF L!Issue

\* What a retention limit takes out of a queue has reached that limit.
LEMMA AgedOut ==
  ASSUME now \in Nat, NEW S, NEW wait \in Nat, \A p \in S : p.sent \in Nat /\ p.sent <= now,
         NEW x \in Pings(S) \ Pings({p \in S : SentBefore(p, now, wait)})
  PROVE  now - x.sent >= wait
<1>1. PICK p \in S : x = [n |-> p.n, sent |-> p.sent]
  BY DEF Pings
<1>2. ~SentBefore(p, now, wait)
  BY <1>1 DEF Pings
<1>3. Saturating(now - p.sent) = now - p.sent
  BY DEF Saturating
<1>4. x.sent = p.sent
  BY <1>1
<1> QED
  BY <1>2, <1>3, <1>4 DEF SentBefore

LEMMA CleanupExpires ==
  ASSUME ForgetInflight = ForgetRecv, TypeOK, ClockInv, OnceInv, Cleanup
  PROVE  L!Expire
<1>1. ASSUME NEW d \in Dest
      PROVE  LET overdue == Pings(inflight[d]) \ Pings(inflight'[d]) IN
             /\ Pings(inflight'[d]) \subseteq Pings(inflight[d])
             /\ overdue \subseteq L!Aged(Pings(inflight[d]), ForgetInflight)
             /\ Pings(recv'[d]) \subseteq Pings(recv[d])
             /\ Pings(recv[d]) \ Pings(recv'[d])
                  \subseteq L!Aged(Pings(recv[d]), ForgetInflight + ForgetRecv)
             /\ Pings(lost'[d]) \subseteq Pings(lost[d]) \cup overdue
             /\ (Pings(lost[d]) \cup overdue) \ Pings(lost'[d])
                  \subseteq L!Aged(Pings(lost[d]) \cup overdue, ForgetInflight + ForgetLost)
  <2> DEFINE overdue == Pings(inflight[d]) \ Pings(inflight'[d])
             D == {Declared(p) : p \in Overdue(d)}
  <2>0. /\ now \in Nat
        /\ ForgetInflight + ForgetRecv \in Nat
        /\ ForgetInflight + ForgetLost \in Nat
    BY DEF TypeOK
  <2>1. /\ inflight'[d] = {p \in inflight[d] : SentBefore(p, now, ForgetInflight)}
        /\ recv'[d] = {p \in recv[d] : SentBefore(p, now, ForgetInflight + ForgetRecv)}
        /\ lost'[d] = {p \in lost[d] \cup D : SentBefore(p, now, ForgetInflight + ForgetLost)}
    BY DEF Cleanup, KeptInflight, KeptRecv, KeptLost
  <2>2. \A p \in Queues(d) : p.sent \in Nat /\ p.sent <= now
    BY QueueType DEF ClockInv
  <2>3. /\ \A p \in inflight[d] : p.sent \in Nat /\ p.sent <= now
        /\ \A p \in recv[d] : p.sent \in Nat /\ p.sent <= now
        /\ \A p \in lost[d] \cup D : p.sent \in Nat /\ p.sent <= now
    <3>1. \A p \in D : \E q \in inflight[d] : p.sent = q.sent
      BY DEF Declared, Overdue
    <3> QED
      BY <2>2, <3>1 DEF Queues
  <2>4. Pings(D) = overdue
    <3>1. Overdue(d) = inflight[d] \ inflight'[d]
      BY <2>1 DEF Overdue, SentAfter
    <3>2. Unique(inflight[d]) /\ inflight'[d] \subseteq inflight[d]
      BY <2>1 DEF OnceInv
    <3>3. Pings(inflight[d] \ inflight'[d]) = overdue
      BY <3>2, PingsDifference
    <3>4. Pings(D) = Pings(Overdue(d))
      <4>1. \A q : Declared(q).n = q.n /\ Declared(q).sent = q.sent
        BY DEF Declared
      <4> QED
        BY <4>1 DEF Pings
    <3> QED
      BY <3>1, <3>3, <3>4
  <2> HIDE DEF D
  <2>5. Pings(lost[d] \cup D) = Pings(lost[d]) \cup overdue
    BY <2>4, PingsProperties
  <2>6. /\ Pings(inflight'[d]) \subseteq Pings(inflight[d])
        /\ Pings(recv'[d]) \subseteq Pings(recv[d])
        /\ Pings(lost'[d]) \subseteq Pings(lost[d] \cup D)
    BY <2>1, PingsProperties
  <2>7. \A x \in overdue : now - x.sent >= ForgetInflight
    BY <2>0, <2>1, <2>3, AgedOut
  <2>8. \A x \in Pings(recv[d]) \ Pings(recv'[d]) : now - x.sent >= ForgetInflight + ForgetRecv
    BY <2>0, <2>1, <2>3, AgedOut
  <2>9. \A x \in Pings(lost[d] \cup D) \ Pings(lost'[d]) :
          now - x.sent >= ForgetInflight + ForgetLost
    BY <2>0, <2>1, <2>3, AgedOut
  <2> QED
    BY <2>5, <2>6, <2>7, <2>8, <2>9 DEF L!Aged
<1>2. now' = now /\ sent_count' = sent_count
  BY DEF Cleanup
<1> QED
  BY <1>1, <1>2 DEF L!Expire

LEMMA StepKeepsLedger ==
  ASSUME ForgetInflight = ForgetRecv
  PROVE  TypeOK /\ ClockInv /\ OnceInv /\ [Next]_vars => [L!Next]_L!vars
<1> SUFFICES ASSUME TypeOK, ClockInv, OnceInv, [Next]_vars PROVE [L!Next]_L!vars
  OBVIOUS
<1>1. CASE Match
  BY <1>1, MatchAnswers DEF L!Next
<1>2. CASE Stamp
  BY <1>2, StampIssues DEF L!Next, TypeOK
<1>3. CASE Cleanup
  BY <1>3, CleanupExpires DEF L!Next
<1>4. CASE UNCHANGED queueVars
  <2>1. now' \in Nat /\ now' >= now
    BY TimeAdvances
  <2>2. L!Pass
    BY <1>4, <2>1 DEF L!Pass, queueVars
  <2> QED
    BY <2>2 DEF L!Next
<1> QED
  BY <1>1, <1>2, <1>3, <1>4, QueueSteps

\* With forget_recv = forget_inflight, as in the configuration shipped, the
\* pinger does for every ping what the ledger promises.
THEOREM LedgerKept ==
  ASSUME ForgetInflight = ForgetRecv
  PROVE  Spec => KeepsLedger
<1>1. Init => L!Init
  BY DEF Init, L!Init, Pings
<1>2. TypeOK /\ ClockInv /\ OnceInv /\ [Next]_vars => [L!Next]_L!vars
  BY StepKeepsLedger
<1>3. ForgetInflight <= ForgetRecv
  OBVIOUS
<1>4. Spec => []OnceInv
  BY <1>3, OnceCorrect
<1> QED
  BY <1>1, <1>2, <1>4, TypeCorrect, ClockCorrect, PTL DEF Spec, KeepsLedger, L!Spec

-----------------------------------------------------------------------------
(* Replies are credited to the ping that they name.                        *)

\* What the reader holds was on the wire, and a completed ping names its reply.
CreditInv ==
  /\ \A r \in buffer \cup readbuf \cup batch : r.pkt \in wire \cup Foreign
  /\ \A d \in Dest : \A p \in recv[d] :
       p.by \in wire \cup Foreign /\ p.by.ident = ident[d] /\ p.by.seqn = p.seqn

LEMMA MatchCredits ==
  ASSUME TypeOK, CreditInv, Match
  PROVE  CreditInv'
<1>1. PICK r \in batch :
        /\ recv' = [d \in Dest |-> recv[d] \cup {Completion(p, r) : p \in Completed(d, r)}]
        /\ batch' = batch \ {r}
  BY DEF Match
<1>2. wire' = wire /\ ident' = ident /\ buffer' = buffer /\ readbuf' = readbuf
  BY DEF Match, readerVars
<1>3. r.pkt \in wire \cup Foreign
  BY <1>1 DEF CreditInv
<1>4. ASSUME NEW d \in Dest, NEW p \in recv'[d]
      PROVE  p.by \in wire \cup Foreign /\ p.by.ident = ident[d] /\ p.by.seqn = p.seqn
  <2>1. CASE p \in recv[d]
    BY <2>1 DEF CreditInv
  <2>2. CASE \E q \in Completed(d, r) : p = Completion(q, r)
    <3>1. PICK q \in Completed(d, r) : p = Completion(q, r)
      BY <2>2
    <3>2. p.by = r.pkt /\ p.seqn = q.seqn
      BY <3>1 DEF Completion
    <3>3. q.seqn = r.pkt.seqn /\ ident[d] = r.pkt.ident
      BY <3>1 DEF Completed
    <3> QED
      BY <1>3, <3>2, <3>3
  <2> QED
    BY <1>1, <1>4, <2>1, <2>2
<1> QED
  BY <1>1, <1>2, <1>4 DEF CreditInv

LEMMA ReaderCredits ==
  ASSUME TypeOK, CreditInv, ReaderTurn
  PROVE  CreditInv'
<1>1. PICK got \in {{}} \cup {{g} : g \in wire \cup Foreign} :
        \/ /\ readbuf' = readbuf \cup (buffer \cup {[pkt |-> g, received |-> now] : g \in got})
           /\ buffer' = {}
        \/ /\ buffer' = buffer \cup {[pkt |-> g, received |-> now] : g \in got}
           /\ readbuf' = readbuf
  BY DEF ReaderTurn
<1>2. wire' = wire /\ ident' = ident /\ recv' = recv /\ batch' = batch
  BY DEF ReaderTurn, destVars, roundVars
<1>3. got \subseteq wire \cup Foreign
  BY <1>1
<1>4. \A r \in {[pkt |-> g, received |-> now] : g \in got} : r.pkt \in wire \cup Foreign
  BY <1>3
<1>5. ASSUME NEW r \in buffer' \cup readbuf' PROVE r.pkt \in wire \cup Foreign
  BY <1>1, <1>4, <1>5 DEF CreditInv
<1> QED
  BY <1>2, <1>5 DEF CreditInv

LEMMA CreditStep == TypeOK /\ CreditInv /\ [Next]_vars => CreditInv'
<1> SUFFICES ASSUME TypeOK, CreditInv, [Next]_vars PROVE CreditInv'
  OBVIOUS
<1>1. CASE Drain
  BY <1>1 DEF Drain, CreditInv, destVars, readerVars
<1>2. CASE Matched \/ Wake \/ Skip \/ TransmitFails \/ Timer \/ Tick \/ UNCHANGED vars
  BY <1>2 DEF Matched, Wake, Skip, TransmitFails, Timer, Tick, vars, CreditInv,
    destVars, readerVars, roundVars
<1>3. CASE Transmit
  <2>1. /\ wire \subseteq wire' /\ ident' = ident /\ recv' = recv
        /\ buffer' = buffer /\ readbuf' = readbuf /\ batch' = batch
    BY <1>3 DEF Transmit, destVars, readerVars
  <2> QED
    BY <2>1 DEF CreditInv
<1>4. CASE Stamp
  BY <1>4 DEF Stamp, CreditInv, readerVars
<1>5. CASE Cleanup
  <2>1. \A d \in Dest : recv'[d] \subseteq recv[d]
    BY <1>5 DEF Cleanup, KeptRecv
  <2>2. /\ wire' = wire /\ ident' = ident
        /\ buffer' = buffer /\ readbuf' = readbuf /\ batch' = batch
    BY <1>5 DEF Cleanup, readerVars
  <2> QED
    BY <2>1, <2>2 DEF CreditInv
<1> QED
  BY <1>1, <1>2, <1>3, <1>4, <1>5, ReaderCredits, MatchCredits
     DEF Next, RecvAll, SendAll, Refresh

\* A ping is completed by its own reply, unless the random identifiers and
\* sequence numbers collide (Destination::recv), for any schedule of the reader
\* thread and any duplication and delay on the wire.
THEOREM RepliesCredited == Spec => []OwnReply
<1>1. Init => CreditInv
  BY DEF Init, CreditInv
<1>2. CreditInv => OwnReply
  BY DEF CreditInv, OwnReply
<1> QED
  BY <1>1, <1>2, CreditStep, TypeCorrect, PTL DEF Spec
=============================================================================

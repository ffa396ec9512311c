--------------------------- MODULE LiveViewProofs ---------------------------
(***************************************************************************)
(* Proofs about the live view, for every number of hosts and graphs, all   *)
(* queues, every sample_limit and whatever UDP does to the datagrams: what *)
(* is reported is true of the queues, ReportsTrue; the graphs show the     *)
(* newest reports of their hosts, ShowsLatest; and the GUI panics for an   *)
(* unfit sample_limit only, NoPanic.                                       *)
(***************************************************************************)
EXTENDS LiveView, NatProofs, FiniteSetTheorems, SequenceTheorems, TLAPS

LEMMA MaxOfTwo ==
  ASSUME NEW a \in Int, NEW b \in Int
  PROVE  Max({a, b}) = IF a >= b THEN a ELSE b
BY DEF Max

LEMMA MinOfTwo ==
  ASSUME NEW a \in Int, NEW b \in Int
  PROVE  Min({a, b}) = IF a <= b THEN a ELSE b
BY DEF Min

-----------------------------------------------------------------------------
(* The sum of the times of a finite set of packets.                        *)

Total(T) == MapThenSumSet(LAMBDA p : p.received, T)
One(U) == CHOOSE x \in U : TRUE
Small(T, n) == {U \in SUBSET T : Cardinality(U) <= n}

\* iter adds up the times of the sets in D.
Totalling(iter, D) ==
  /\ iter \in [D -> Nat]
  /\ \A U \in D : iter[U] = IF U = {} THEN 0 ELSE One(U).received + iter[U \ {One(U)}]

LEMMA OneIn == ASSUME NEW U, U # {} PROVE One(U) \in U
BY DEF One

LEMMA SmallerIn ==
  ASSUME NEW T, IsFiniteSet(T), NEW n \in Nat, NEW U \in Small(T, n + 1), U # {}
  PROVE  /\ U \ {One(U)} \in Small(T, n)
         /\ IsFiniteSet(U)
         /\ Cardinality(U) \in Nat /\ Cardinality(U \ {One(U)}) = Cardinality(U) - 1
<1>1. U \in SUBSET T /\ Cardinality(U) <= n + 1
  BY DEF Small
<1>2. IsFiniteSet(U)
  BY <1>1, FS_Subset
<1>3. Cardinality(U) \in Nat
  BY <1>2, FS_CardinalityType
<1>4. Cardinality(U \ {One(U)}) = Cardinality(U) - 1
  BY <1>2, OneIn, FS_RemoveElement
<1>5. U \ {One(U)} \in SUBSET T
  BY <1>1
<1>6. Cardinality(U \ {One(U)}) <= n
  BY <1>1, <1>3, <1>4
<1> QED BY <1>2, <1>3, <1>4, <1>5, <1>6 DEF Small

LEMMA TotallingExists ==
  ASSUME NEW T, IsFiniteSet(T), \A p \in T : p.received \in Nat, NEW n \in Nat
  PROVE  \E iter : Totalling(iter, Small(T, n))
<1> DEFINE S == {m \in Nat : \E iter : Totalling(iter, Small(T, m))}
<1>1. 0 \in S
  <2>1. ASSUME NEW U \in Small(T, 0) PROVE U = {}
    <3>1. U \in SUBSET T /\ Cardinality(U) <= 0
      BY DEF Small
    <3>2. IsFiniteSet(U)
      BY <3>1, FS_Subset
    <3>3. Cardinality(U) = 0
      BY <3>1, <3>2, FS_CardinalityType
    <3> QED BY <3>2, <3>3, FS_EmptySet
  <2> DEFINE iter == [U \in Small(T, 0) |-> 0]
  <2>2. Totalling(iter, Small(T, 0))
    BY <2>1 DEF Totalling
  <2> QED BY <2>2
<1>2. ASSUME NEW m \in S PROVE m + 1 \in S
  <2>1. m \in Nat
    OBVIOUS
  <2>2. PICK old : Totalling(old, Small(T, m))
    OBVIOUS
  <2> DEFINE new == [U \in Small(T, m + 1) |->
                       IF U = {} THEN 0 ELSE One(U).received + old[U \ {One(U)}]]
  <2>3. ASSUME NEW U \in Small(T, m) PROVE U \in Small(T, m + 1)
    <3>1. U \in SUBSET T /\ Cardinality(U) <= m
      BY DEF Small
    <3>2. IsFiniteSet(U)
      BY <3>1, FS_Subset
    <3>3. Cardinality(U) \in Nat
      BY <3>2, FS_CardinalityType
    <3>4. Cardinality(U) <= m + 1
      BY <2>1, <3>1, <3>3
    <3> QED BY <3>1, <3>4 DEF Small
  <2>4. ASSUME NEW U \in Small(T, m + 1), U # {}
        PROVE  /\ U \ {One(U)} \in Small(T, m)
               /\ One(U).received \in Nat /\ old[U \ {One(U)}] \in Nat
    <3>1. U \ {One(U)} \in Small(T, m)
      BY <2>1, <2>4, SmallerIn
    <3>2. One(U) \in U /\ U \in SUBSET T
      BY <2>4, OneIn DEF Small
    <3>3. One(U) \in T
      BY <3>2
    <3>4. One(U).received \in Nat
      BY <3>3
    <3>5. old[U \ {One(U)}] \in Nat
      BY <2>2, <3>1 DEF Totalling
    <3> QED BY <3>1, <3>4, <3>5
  <2>5. new \in [Small(T, m + 1) -> Nat]
    <3>1. ASSUME NEW U \in Small(T, m + 1)
          PROVE  (IF U = {} THEN 0 ELSE One(U).received + old[U \ {One(U)}]) \in Nat
      <4> DEFINE x == One(U).received
                 y == old[U \ {One(U)}]
      <4>1. U # {} => x \in Nat /\ y \in Nat
        BY <2>4
      <4> HIDE DEF x, y
      <4>2. U # {} => x + y \in Nat
        BY <4>1
      <4>3. (IF U = {} THEN 0 ELSE x + y) \in Nat
        BY <4>2
      <4> QED BY <4>3 DEF x, y
    <3> QED BY <3>1
  <2>6. ASSUME NEW U \in Small(T, m) PROVE new[U] = old[U]
    <3>1. U \in Small(T, m + 1)
      BY <2>3
    <3>2. old[U] = IF U = {} THEN 0 ELSE One(U).received + old[U \ {One(U)}]
      BY <2>2 DEF Totalling
    <3> QED BY <3>1, <3>2
  <2>7. ASSUME NEW U \in Small(T, m + 1)
        PROVE  new[U] = IF U = {} THEN 0 ELSE One(U).received + new[U \ {One(U)}]
    <3>1. new[U] = IF U = {} THEN 0 ELSE One(U).received + old[U \ {One(U)}]
      OBVIOUS
    <3>2. U # {} => new[U \ {One(U)}] = old[U \ {One(U)}]
      BY <2>4, <2>6
    <3> HIDE DEF new
    <3> QED BY <3>1, <3>2
  <2> HIDE DEF new
  <2>8. Totalling(new, Small(T, m + 1))
    BY <2>5, <2>7 DEF Totalling
  <2> QED BY <2>1, <2>8
<1>3. S = Nat
  <2> HIDE DEF S
  <2>1. S \in SUBSET Nat
    BY DEF S
  <2> QED BY <1>1, <1>2, <2>1, SetInduction
<1>4. n \in S
  BY <1>3
<1> QED BY <1>4

LEMMA TotalIs ==
  ASSUME NEW T, IsFiniteSet(T), \A p \in T : p.received \in Nat
  PROVE  \E iter : Totalling(iter, SUBSET T) /\ Total(T) = iter[T]
<1> DEFINE n == Cardinality(T)
           Fits(iter) == iter = [U \in SUBSET T |->
                                   IF U = {} THEN 0 ELSE One(U).received + iter[U \ {One(U)}]]
           It == CHOOSE iter : Fits(iter)
<1>1. Total(T) = It[T]
  BY DEF Total, MapThenSumSet, MapThenFoldSet, One
<1>2. n \in Nat
  BY FS_CardinalityType
<1>3. \A m \in Nat : m >= n => Small(T, m) = SUBSET T
  <2> SUFFICES ASSUME NEW m \in Nat, m >= n, NEW U \in SUBSET T PROVE Cardinality(U) <= m
    BY DEF Small
  <2>1. Cardinality(U) <= n /\ IsFiniteSet(U)
    BY FS_Subset
  <2>2. Cardinality(U) \in Nat
    BY <2>1, FS_CardinalityType
  <2> QED BY <1>2, <2>1, <2>2
<1>4. Small(T, n) = SUBSET T
  <2>1. n >= n
    BY <1>2
  <2> QED BY <1>2, <1>3, <2>1
<1> HIDE DEF n
<1>5. \E iter : Fits(iter)
  <2>1. PICK iter : Totalling(iter, SUBSET T)
    <3>1. \E iter : Totalling(iter, Small(T, n))
      BY <1>2, TotallingExists
    <3> QED BY <1>4, <3>1
  <2>2. iter = [U \in SUBSET T |-> iter[U]]
    BY <2>1 DEF Totalling
  <2>3. \A U \in SUBSET T :
          iter[U] = IF U = {} THEN 0 ELSE One(U).received + iter[U \ {One(U)}]
    BY <2>1 DEF Totalling
  <2> QED BY <2>2, <2>3
<1>6. Fits(It)
  BY <1>5, Zenon
<1> HIDE DEF It
<1>7. \A U \in SUBSET T : It[U] = IF U = {} THEN 0 ELSE One(U).received + It[U \ {One(U)}]
  BY <1>6
<1> DEFINE S == {m \in Nat : \A U \in Small(T, m) : It[U] \in Nat}
<1>8. 0 \in S
  <2>1. ASSUME NEW U \in Small(T, 0) PROVE It[U] \in Nat
    <3>1. U \in SUBSET T /\ Cardinality(U) <= 0
      BY DEF Small
    <3>2. IsFiniteSet(U)
      BY <3>1, FS_Subset
    <3>3. Cardinality(U) = 0
      BY <3>1, <3>2, FS_CardinalityType
    <3>4. U = {}
      BY <3>2, <3>3, FS_EmptySet
    <3> QED BY <1>7, <3>1, <3>4
  <2> QED BY <2>1
<1>9. ASSUME NEW m \in S PROVE m + 1 \in S
  <2>1. m \in Nat /\ \A U \in Small(T, m) : It[U] \in Nat
    OBVIOUS
  <2>2. ASSUME NEW U \in Small(T, m + 1) PROVE It[U] \in Nat
    <3>1. U \in SUBSET T
      BY DEF Small
    <3> HIDE DEF Fits
    <3>2. CASE U = {}
      <4>1. It[U] = 0
        BY <1>7, <3>1, <3>2
      <4> QED BY <4>1
    <3>3. CASE U # {}
      <4>1. It[U \ {One(U)}] \in Nat
        BY <2>1, <3>3, SmallerIn
      <4>2. One(U) \in T
        BY <3>1, <3>3, OneIn
      <4>3. One(U).received \in Nat
        BY <4>2
      <4> DEFINE x == One(U).received
                 y == It[U \ {One(U)}]
      <4>4. It[U] = x + y
        BY <1>7, <3>1, <3>3
      <4> HIDE DEF x, y
      <4>5. x + y \in Nat
        BY <4>1, <4>3 DEF x, y
      <4> QED BY <4>4, <4>5
    <3> QED BY <3>2, <3>3
  <2> QED BY <2>1, <2>2
<1>10. S = Nat
  <2> HIDE DEF S
  <2>1. S \in SUBSET Nat
    BY DEF S
  <2> QED BY <1>8, <1>9, <2>1, SetInduction
<1>11. \A U \in SUBSET T : It[U] \in Nat
  <2>1. n \in S
    BY <1>2, <1>10
  <2> QED BY <1>4, <2>1
<1>12. It \in [SUBSET T -> Nat]
  <2>1. It = [U \in SUBSET T |-> It[U]]
    BY <1>6, <1>7
  <2> HIDE DEF Fits
  <2> QED BY <1>11, <2>1
<1> HIDE DEF Fits
<1>13. Totalling(It, SUBSET T)
  BY <1>7, <1>12 DEF Totalling
<1> QED BY <1>1, <1>13

\* It is between as many of a lower and of an upper bound.
LEMMA TotalBounds ==
  ASSUME NEW T, IsFiniteSet(T), NEW lo \in Nat, NEW hi \in Nat,
         \A p \in T : p.received \in Nat /\ lo <= p.received /\ p.received <= hi
  PROVE  /\ Total(T) \in Nat /\ Cardinality(T) \in Nat
         /\ Cardinality(T) * lo <= Total(T) /\ Total(T) <= Cardinality(T) * hi
<1>1. PICK it : Totalling(it, SUBSET T) /\ Total(T) = it[T]
  BY TotalIs
<1>2. /\ \A U \in SUBSET T : it[U] \in Nat
      /\ \A U \in SUBSET T : it[U] = IF U = {} THEN 0 ELSE One(U).received + it[U \ {One(U)}]
  BY <1>1 DEF Totalling
<1> DEFINE Bounded(U) == Cardinality(U) * lo <= it[U] /\ it[U] <= Cardinality(U) * hi
           S == {m \in Nat : \A U \in Small(T, m) : Bounded(U)}
<1>3. Bounded({})
  <2>1. {} \in SUBSET T
    OBVIOUS
  <2>2. it[{}] = 0
    BY <1>2, <2>1
  <2>3. Cardinality({}) = 0
    BY FS_EmptySet
  <2>4. 0 * lo = 0 /\ 0 * hi = 0
    OBVIOUS
  <2> QED BY <2>2, <2>3, <2>4
<1>4. 0 \in S
  <2>1. ASSUME NEW U \in Small(T, 0) PROVE Bounded(U)
    <3>1. U \in SUBSET T /\ Cardinality(U) <= 0
      BY DEF Small
    <3>2. IsFiniteSet(U)
      BY <3>1, FS_Subset
    <3>3. Cardinality(U) = 0
      BY <3>1, <3>2, FS_CardinalityType
    <3>4. U = {}
      BY <3>2, <3>3, FS_EmptySet
    <3> HIDE DEF Bounded
    <3> QED BY <1>3, <3>4
  <2> QED BY <2>1
<1>5. ASSUME NEW m \in S PROVE m + 1 \in S
  <2>1. m \in Nat /\ \A U \in Small(T, m) : Bounded(U)
    <3> HIDE DEF Bounded
    <3> QED OBVIOUS
  <2>2. ASSUME NEW U \in Small(T, m + 1) PROVE Bounded(U)
    <3>1. U \in SUBSET T
      BY DEF Small
    <3>2. CASE U = {}
      <4> HIDE DEF Bounded
      <4> QED BY <1>3, <3>2
    <3>3. CASE U # {}
      <4> DEFINE V == U \ {One(U)}
                 c == Cardinality(V)
                 x == One(U).received
                 y == it[V]
      <4>1. V \in Small(T, m) /\ Cardinality(U) \in Nat /\ c = Cardinality(U) - 1
            /\ IsFiniteSet(U)
        BY <2>1, <3>3, SmallerIn
      <4>2. c * lo <= y /\ y <= c * hi
        <5>1. Bounded(V)
          <6> HIDE DEF Bounded, V
          <6> QED BY <2>1, <4>1
        <5> QED BY <5>1
      <4>3. One(U) \in T
        BY <3>1, <3>3, OneIn
      <4>4. x \in Nat /\ lo <= x /\ x <= hi
        BY <4>3
      <4>5. y \in Nat /\ it[U] = x + y
        <5>1. V \in SUBSET T
          BY <3>1
        <5> HIDE DEF x
        <5> QED BY <1>2, <3>1, <3>3, <5>1 DEF x
      <4>6. c \in Nat /\ Cardinality(U) = c + 1
        <5>1. IsFiniteSet(V)
          BY <4>1, FS_RemoveElement
        <5>2. c \in Nat
          BY <5>1, FS_CardinalityType
        <5> HIDE DEF c
        <5> QED BY <4>1, <5>2
      <4> DEFINE cl == c * lo
                 ch == c * hi
      <4>7. (c + 1) * lo = cl + lo /\ (c + 1) * hi = ch + hi /\ cl \in Nat /\ ch \in Nat
        <5> HIDE DEF c
        <5> QED BY <4>6
      <4> HIDE DEF c, x, y, V, cl, ch
      <4>8. cl + lo <= x + y /\ x + y <= ch + hi
        BY <4>2, <4>4, <4>5, <4>7 DEF cl, ch
      <4> QED BY <4>5, <4>6, <4>7, <4>8
    <3> QED BY <3>2, <3>3
  <2> HIDE DEF Bounded
  <2> QED BY <2>1, <2>2
<1>6. S = Nat
  <2> HIDE DEF S
  <2>1. S \in SUBSET Nat
    BY DEF S
  <2> QED BY <1>4, <1>5, <2>1, SetInduction
<1>7. Cardinality(T) \in Nat
  BY FS_CardinalityType
<1>8. T \in Small(T, Cardinality(T))
  <2>1. Cardinality(T) <= Cardinality(T)
    BY <1>7
  <2> QED BY <2>1 DEF Small
<1>9. Bounded(T)
  <2>1. Cardinality(T) \in S
    BY <1>6, <1>7
  <2> HIDE DEF Bounded
  <2> QED BY <1>8, <2>1
<1> QED BY <1>1, <1>2, <1>7, <1>9
-----------------------------------------------------------------------------
(* What is reported of a queue.                                            *)

LEMMA QueueType ==
  ASSUME NEW q \in States
  PROVE  /\ Queues[q].inflight \in SUBSET Nat /\ IsFiniteSet(Queues[q].inflight)
         /\ IsFiniteSet(Queues[q].recv)
         /\ \A p \in Queues[q].recv : p.received \in Nat /\ p.ago \in Nat
         /\ Queues[q].lost \in Nat
<1>1. Queues[q] \in Queue
  <2>1. Queues \in Seq(Queue)
    BY DaemonAssumption
  <2>2. q \in 1 .. Len(Queues)
    BY <2>1, LenProperties DEF States
  <2> QED BY <2>1, <2>2, ElementOfSeq
<1>2. Queues[q].recv \in SUBSET [received : Nat, ago : Nat]
  BY <1>1 DEF Queue
<1>3. ASSUME NEW p \in Queues[q].recv PROVE p.received \in Nat /\ p.ago \in Nat
  <2>1. p \in [received : Nat, ago : Nat]
    BY <1>2
  <2> QED BY <2>1
<1>4. IsFiniteSet(Queues[q].inflight) /\ IsFiniteSet(Queues[q].recv)
  BY DaemonAssumption
<1> QED BY <1>1, <1>3, <1>4 DEF Queue

LEMMA MeanOf ==
  ASSUME NEW q \in States
  PROVE  /\ MeanRecvTime(q) \in Nat
         /\ Averaged(q) = {} => MeanRecvTime(q) = 0
         /\ \A lo, hi \in Nat :
              /\ Averaged(q) # {}
              /\ \A p \in Averaged(q) : lo <= p.received /\ p.received <= hi
              => lo <= MeanRecvTime(q) /\ MeanRecvTime(q) <= hi
<1> DEFINE T == Averaged(q)
           c == Cardinality(T)
           t == Total(T)
           d == Max({c, 1})
<1>1. IsFiniteSet(T) /\ \A p \in T : p.received \in Nat
  <2>1. T \in SUBSET Queues[q].recv
    BY DEF Averaged, ReceivedLast
  <2>2. IsFiniteSet(T)
    BY <2>1, QueueType, FS_Subset
  <2> QED BY <2>1, <2>2, QueueType
<1>2. MeanRecvTime(q) = t \div d
  BY DEF MeanRecvTime, Total
<1> HIDE DEF T
<1>3. t \in Nat
  <2>1. PICK it : Totalling(it, SUBSET T) /\ Total(T) = it[T]
    BY <1>1, TotalIs
  <2> QED BY <2>1 DEF Totalling
<1>4. c \in Nat /\ (T = {} <=> c = 0)
  BY <1>1, FS_CardinalityType, FS_EmptySet
<1> HIDE DEF c, t
<1>5. d = IF c >= 1 THEN c ELSE 1
  BY <1>4, MaxOfTwo
<1> HIDE DEF d
<1>6. d \in Nat \ {0}
  BY <1>4, <1>5
<1>7. t \div d \in Nat /\ \A j \in Int : j <= t \div d <=> j * d <= t
  BY <1>3, <1>6, Quotient
<1>8. ASSUME T = {} PROVE t \div d = 0
  <2>1. \A p \in T : p.received \in Nat /\ 0 <= p.received /\ p.received <= 0
    BY <1>8
  <2>2. Total(T) <= Cardinality(T) * 0
    BY <1>1, <2>1, TotalBounds
  <2>3. t = 0 /\ d = 1
    <3>1. c = 0 /\ c * 0 = 0
      BY <1>4, <1>8
    <3>2. t <= c * 0
      BY <2>2 DEF c, t
    <3> QED BY <1>3, <1>5, <3>1, <3>2
  <2> QED BY <2>3
<1>9. ASSUME NEW lo \in Nat, NEW hi \in Nat, T # {},
             \A p \in T : lo <= p.received /\ p.received <= hi
      PROVE  lo <= t \div d /\ t \div d <= hi
  <2>1. \A p \in T : p.received \in Nat /\ lo <= p.received /\ p.received <= hi
    BY <1>1, <1>9
  <2>2. c * lo <= t /\ t <= c * hi
    BY <1>1, <2>1, TotalBounds DEF c, t
  <2>3. d = c /\ c \in Nat \ {0}
    BY <1>4, <1>5, <1>9
  <2>4. lo * d = c * lo
    BY <2>3
  <2>5. lo <= t \div d
    BY <1>7, <2>2, <2>4
  <2>6. t \div d <= hi
    <3> DEFINE m == t \div d
    <3>1. m \in Nat /\ m * c <= t
      <4>1. m <= m /\ m \in Int
        BY <1>7
      <4> QED BY <1>7, <2>3, <4>1
    <3> HIDE DEF m
    <3>2. m \in Int /\ hi \in Int /\ t \in Int
      BY <1>3, <3>1
    <3>3. m <= hi
      BY <2>2, <2>3, <3>1, <3>2, MeanBounds
    <3> QED BY <3>3 DEF m
  <2> QED BY <2>5, <2>6
<1>10. \A lo, hi \in Nat :
         /\ T # {}
         /\ \A p \in T : lo <= p.received /\ p.received <= hi
         => lo <= t \div d /\ t \div d <= hi
  BY <1>9
<1> QED BY <1>2, <1>7, <1>8, <1>10 DEF T

LEMMA LossOf ==
  ASSUME NEW q \in States
  PROVE  /\ PacketsLost(q) \in Nat /\ PacketsRecv(q) \in Nat
         /\ PacketLoss(q) \in Nat /\ PacketLoss(q) < 100000
         /\ PacketsLost(q) = 0 => PacketLoss(q) = 0
         /\ PacketsLost(q) # 0 /\ PacketsLost(q) + PacketsRecv(q) < 100000 => PacketLoss(q) # 0
         /\ PacketsLost(q) = 0 <=>
              /\ InflightAfter(q, LossInflight) = {}
              /\ Queues[q].lost = 0
<1> DEFINE late == InflightAfter(q, LossInflight)
           recv == ReceivedLast(q, LossRecv)
           l == PacketsLost(q)
           r == PacketsRecv(q)
           x == 1000000 * l
           d == 10 * (l + r) + 1
           v == PacketLoss(q)
<1>1. /\ Cardinality(late) \in Nat /\ (Cardinality(late) = 0 <=> late = {})
      /\ Cardinality(recv) \in Nat
  <2>1. late \in SUBSET Queues[q].inflight /\ recv \in SUBSET Queues[q].recv
    BY DEF InflightAfter, ReceivedLast
  <2>2. IsFiniteSet(late) /\ IsFiniteSet(recv)
    BY <2>1, QueueType, FS_Subset
  <2> QED BY <2>2, FS_CardinalityType, FS_EmptySet
<1>2. l = Cardinality(late) + Queues[q].lost /\ r = Cardinality(recv)
  BY DEF PacketsLost, PacketsRecv
<1>3. v = x \div d
  BY DEF PacketLoss
<1> HIDE DEF late, recv, l, r
<1>4. Queues[q].lost \in Nat
  BY QueueType
<1>5. l \in Nat /\ r \in Nat /\ (l = 0 <=> late = {} /\ Queues[q].lost = 0)
  BY <1>1, <1>2, <1>4
<1>6. x \in Nat /\ d \in Nat \ {0}
  BY <1>5
<1>7. v \in Nat /\ \A j \in Int : j <= v <=> j * d <= x
  <2> HIDE DEF x, d
  <2> QED BY <1>3, <1>6, Quotient
<1> HIDE DEF v
<1>8. v < 100000
  <2>1. ~(100000 * d <= x)
    BY <1>5
  <2>2. ~(100000 <= v)
    BY <1>7, <2>1
  <2> QED BY <1>7, <2>2
<1>9. l = 0 => v = 0
  <2>1. l = 0 => ~(1 * d <= x)
    BY <1>5
  <2>2. l = 0 => ~(1 <= v)
    BY <1>7, <2>1
  <2> QED BY <1>7, <2>2
<1>10. l # 0 /\ l + r < 100000 => v # 0
  <2>1. l # 0 /\ l + r < 100000 => 1 * d <= x
    BY <1>5
  <2>2. l # 0 /\ l + r < 100000 => 1 <= v
    BY <1>7, <2>1
  <2> QED BY <1>7, <2>2
<1> QED BY <1>5, <1>7, <1>8, <1>9, <1>10 DEF l, r, v, late

-----------------------------------------------------------------------------
(* The datagrams.                                                          *)

Reports == {FrameStats(h, n, q) : h \in Hosts, n \in Nat, q \in States}

\* What is on its way, in the socket or taken out of it is a report, or what
\* cannot be parsed.
SentInv ==
  /\ refreshes \in Nat
  /\ net \in SUBSET Reports
  /\ socket \in Seq(Reports \cup {Garbled})
  /\ taken \in Seq(Reports)

LEMMA FirstGarbledIs ==
  ASSUME SentInv
  PROVE  /\ Len(socket) \in Nat
         /\ FirstGarbled \in 0 .. Len(socket)
         /\ \A i \in 1 .. Len(socket) :
              (IF FirstGarbled = 0 THEN TRUE ELSE i < FirstGarbled) => socket[i] \in Reports
<1> DEFINE n == Len(socket)
           G == {i \in 1 .. n : socket[i] = Garbled}
<1>1. n \in Nat /\ \A i \in 1 .. n : socket[i] \in Reports \cup {Garbled}
  BY LenProperties, ElementOfSeq DEF SentInv
<1>2. FirstGarbled = IF G # {} THEN Min(G) ELSE 0
  BY DEF FirstGarbled, SelectInSeq
<1> HIDE DEF n
<1>3. CASE G = {}
  <2>1. \A i \in 1 .. n : socket[i] # Garbled
    BY <1>3
  <2> QED BY <1>1, <1>2, <1>3, <2>1 DEF n
<1>4. CASE G # {}
  <2>1. G \in SUBSET Nat
    OBVIOUS
  <2>2. \E x \in G : \A y \in G : x <= y
    <3> HIDE DEF G
    <3> QED BY <1>4, <2>1, LeastNat
  <2>3. Min(G) \in G /\ \A y \in G : Min(G) <= y
    <3> HIDE DEF G
    <3> QED BY <2>2, Zenon DEF Min
  <2> DEFINE m == Min(G)
  <2>4. m \in 1 .. n /\ FirstGarbled = m
    BY <1>2, <1>4, <2>3
  <2> HIDE DEF m
  <2>5. ASSUME NEW i \in 1 .. n, i < m PROVE socket[i] \in Reports
    <3>1. ~(m <= i)
      BY <2>4, <2>5
    <3>2. i \notin G
      BY <2>3, <3>1 DEF m
    <3>3. socket[i] # Garbled
      BY <3>2
    <3> QED BY <1>1, <3>3
  <2> QED BY <1>1, <2>4, <2>5 DEF n
<1> QED BY <1>3, <1>4

LEMMA ParsedType ==
  ASSUME SentInv
  PROVE  Parsed \in Seq(Reports) /\ Unread \in Seq(Reports \cup {Garbled})
<1> DEFINE n == Len(socket)
           m == FirstGarbled
           X == Reports \cup {Garbled}
<1>1. /\ n \in Nat /\ m \in 0 .. n
      /\ \A i \in 1 .. n : (IF m = 0 THEN TRUE ELSE i < m) => socket[i] \in Reports
      /\ \A i \in 1 .. n : socket[i] \in X
  BY FirstGarbledIs, ElementOfSeq DEF SentInv
<1>2. socket \in Seq(X)
  BY DEF SentInv
<1>3. Parsed = (IF m = 0 THEN socket ELSE SubSeq(socket, 1, m - 1))
      /\ Unread = IF m = 0 THEN <<>> ELSE SubSeq(socket, m + 1, n)
  BY DEF Parsed, Unread
<1> HIDE DEF n, m, X
<1>4. CASE m = 0
  <2>1. \A i \in 1 .. n : socket[i] \in Reports
    BY <1>1, <1>4
  <2>2. socket \in [1 .. n -> Reports]
    <3>1. socket \in [1 .. n -> X]
      BY <1>2, LenProperties DEF n
    <3> QED BY <2>1, <3>1
  <2>3. socket \in Seq(Reports)
    BY <1>1, <2>2
  <2>4. <<>> \in Seq(X)
    BY EmptySeq
  <2> QED BY <1>3, <1>4, <2>3, <2>4 DEF X
<1>5. CASE m # 0
  <2>1. 1 \in Int /\ m - 1 \in Int /\ m + 1 \in Int /\ n \in Int
    BY <1>1
  <2>2. \A i \in 1 .. m - 1 : socket[i] \in Reports
    BY <1>1, <1>5
  <2>3. \A i \in m + 1 .. n : socket[i] \in X
    BY <1>1
  <2>4. SubSeq(socket, 1, m - 1) \in Seq(Reports)
    BY <2>1, <2>2, SubSeqProperties
  <2>5. SubSeq(socket, m + 1, n) \in Seq(X)
    BY <2>1, <2>3, SubSeqProperties
  <2> QED BY <1>3, <1>5, <2>4, <2>5 DEF X
<1> QED BY <1>1, <1>4, <1>5

LEMMA InitSent == Init => SentInv
BY EmptySeq DEF Init, SentInv

LEMMA ReceivedType ==
  ASSUME SentInv, NEW d \in Reports \cup {Garbled}, Received(d)
  PROVE  socket' \in Seq(Reports \cup {Garbled})
<1>1. socket \in Seq(Reports \cup {Garbled})
  BY DEF SentInv
<1>2. socket' = Append(socket, d) \/ socket' = socket
  BY DEF Received
<1> DEFINE X == Reports \cup {Garbled}
<1> HIDE DEF X
<1>3. d \in X /\ socket \in Seq(X)
  BY <1>1 DEF X
<1>4. Append(socket, d) \in Seq(X)
  BY <1>3, AppendProperties
<1> QED BY <1>2, <1>3, <1>4 DEF X

LEMMA NextSent == SentInv /\ [Next]_vars => SentInv'
<1> SUFFICES ASSUME SentInv, [Next]_vars PROVE SentInv'
  OBVIOUS
<1>1. CASE Refresh
  <2>1. /\ refreshes' = refreshes + 1 /\ UNCHANGED <<socket, taken>>
        /\ \E queue \in [Hosts -> States], sent \in 0 .. NumDest :
             net' = net \cup {FrameStats(h, refreshes', queue[h]) : h \in 1 .. sent}
    BY <1>1 DEF Refresh, gui
  <2>2. PICK queue \in [Hosts -> States], sent \in 0 .. NumDest :
          net' = net \cup {FrameStats(h, refreshes', queue[h]) : h \in 1 .. sent}
    BY <2>1
  <2>3. refreshes' \in Nat
    BY <2>1 DEF SentInv
  <2>4. ASSUME NEW h \in 1 .. sent PROVE FrameStats(h, refreshes', queue[h]) \in Reports
    <3>1. h \in Hosts
      BY DaemonAssumption DEF Hosts
    <3>2. queue[h] \in States
      BY <3>1
    <3> QED BY <2>3, <3>1, <3>2 DEF Reports
  <2>5. net' \in SUBSET Reports
    BY <2>2, <2>4 DEF SentInv
  <2> QED BY <2>1, <2>3, <2>5 DEF SentInv
<1>2. CASE Deliver
  <2>1. UNCHANGED <<refreshes, taken>>
    BY <1>2 DEF Deliver, gui
  <2>2. PICK d \in net : net' \in {net, net \ {d}} /\ Received(d)
    BY <1>2 DEF Deliver
  <2>3. d \in Reports /\ net' \in SUBSET Reports
    BY <2>2 DEF SentInv
  <2>4. socket' \in Seq(Reports \cup {Garbled})
    BY <2>2, <2>3, ReceivedType
  <2> QED BY <2>1, <2>3, <2>4 DEF SentInv
<1>3. CASE DeliverGarbled
  <2>1. UNCHANGED <<refreshes, net, taken>> /\ Received(Garbled)
    BY <1>3 DEF DeliverGarbled, gui, daemon
  <2>2. socket' \in Seq(Reports \cup {Garbled})
    BY <2>1, ReceivedType
  <2> QED BY <2>1, <2>2 DEF SentInv
<1>4. CASE Tick
  <2>1. UNCHANGED <<refreshes, net>>
    BY <1>4 DEF Tick, daemon
  <2>2. CASE UNCHANGED <<socket, taken>>
    BY <2>1, <2>2 DEF SentInv
  <2>3. CASE taken' = taken \o Parsed /\ socket' = Unread
    <3>1. Parsed \in Seq(Reports) /\ Unread \in Seq(Reports \cup {Garbled})
      BY ParsedType
    <3>2. taken' \in Seq(Reports)
      BY <2>3, <3>1, ConcatProperties DEF SentInv
    <3> QED BY <2>1, <2>3, <3>1, <3>2 DEF SentInv
  <2> QED BY <1>4, <2>2, <2>3 DEF Tick, plots
<1>5. CASE Relaunch
  BY <1>5, EmptySeq DEF Relaunch, SentInv, daemon
<1>6. CASE Startup \/ DrawPanics \/ UNCHANGED vars
  <2>1. UNCHANGED <<refreshes, net, socket, taken>>
    BY <1>6 DEF Startup, DrawPanics, vars, daemon, gui
  <2> QED BY <2>1 DEF SentInv
<1> QED BY <1>1, <1>2, <1>3, <1>4, <1>5, <1>6 DEF Next, Gui

-----------------------------------------------------------------------------
(* Reports.                                                                *)

\* The times and the loss fit a u32, and one packet of those that the loss is
\* of is more than a thousandth of a percent of them.
Scaled ==
  /\ Width >= 100000
  /\ \A q \in States : /\ \A p \in Queues[q].recv : p.received < Width
                       /\ PacketsLost(q) + PacketsRecv(q) < 100000

LossTrue(d, missing, lost) ==
  /\ d.packet_loss_x100_000 < 100000
  /\ d.packet_loss_x100_000 = 0 <=> (missing = {} /\ lost = 0)

LEMMA TrueWithout ==
  ASSUME NEW d, NEW recent, NEW missing, NEW lost,
         recent = {}, d.avg_time_us = 0, LossTrue(d, missing, lost)
  PROVE  TrueOf(d, recent, missing, lost)
BY SMT DEF TrueOf, LossTrue

LEMMA TrueWith ==
  ASSUME NEW d, NEW recent, NEW missing, NEW lost,
         recent # {}, Min(recent) <= d.avg_time_us, d.avg_time_us <= Max(recent),
         LossTrue(d, missing, lost)
  PROVE  TrueOf(d, recent, missing, lost)
BY SMT DEF TrueOf, LossTrue

LEMMA ReportIsTrue ==
  ASSUME Scaled, NEW d \in Reports
  PROVE  TrueOf(d, {p.received : p \in {r \in Queues[d.queue].recv : r.ago < TimeAvg}},
                {age \in Queues[d.queue].inflight : age >= LossInflight}, Queues[d.queue].lost)
<1>1. PICK h \in Hosts, n \in Nat, q \in States : d = FrameStats(h, n, q)
  BY DEF Reports
<1>2. /\ d.queue = q /\ d.avg_time_us = MeanRecvTime(q) % Width
      /\ d.packet_loss_x100_000 = PacketLoss(q) % Width
  BY <1>1 DEF FrameStats
<1> DEFINE T == Averaged(q)
           recent == {p.received : p \in T}
           missing == {age \in Queues[q].inflight : age >= LossInflight}
           mean == MeanRecvTime(q)
           loss == PacketLoss(q)
<1>3. Width \in Nat \ {0} /\ Width >= 100000 /\ TimeAvg \in Nat /\ LossInflight \in Nat
  BY DaemonAssumption DEF Scaled
<1>4. T = {r \in Queues[q].recv : r.ago < TimeAvg}
  BY DEF Averaged, ReceivedLast
<1>5. \A p \in T : p.received \in Nat /\ p.received < Width
  BY <1>4, QueueType DEF Scaled
<1>6. missing = InflightAfter(q, LossInflight)
  <2>1. ASSUME NEW age \in Queues[q].inflight
        PROVE  age >= LossInflight <=> ~(age < LossInflight)
    <3>1. age \in Nat
      BY QueueType
    <3> QED BY <1>3, <3>1
  <2> QED BY <2>1 DEF InflightAfter
<1>7. \A x \in Nat : x < Width => x % Width = x
  BY <1>3
<1>8. loss \in Nat /\ loss < 100000 /\ (loss = 0 <=> missing = {} /\ Queues[q].lost = 0)
  BY <1>6, LossOf DEF Scaled
<1>9. d.packet_loss_x100_000 = loss
  <2> HIDE DEF loss
  <2>1. loss < Width
    BY <1>3, <1>8
  <2> QED BY <1>2, <1>7, <1>8, <2>1 DEF loss
<1>10. LossTrue(d, missing, Queues[q].lost)
  <2> HIDE DEF loss, missing
  <2> QED BY <1>8, <1>9 DEF LossTrue
<1> HIDE DEF T
<1>11. ASSUME T = {} PROVE TrueOf(d, recent, missing, Queues[q].lost)
  <2>1. recent = {} /\ mean = 0
    BY <1>11, MeanOf DEF T
  <2>2. d.avg_time_us = 0
    <3>1. 0 % Width = 0
      BY <1>3
    <3> QED BY <1>2, <2>1, <3>1
  <2> HIDE DEF recent, missing, loss
  <2>3. TrueOf(d, recent, missing, Queues[q].lost)
    BY <1>10, <2>1, <2>2, TrueWithout, Zenon
  <2> QED BY <2>3
<1>12. ASSUME T # {} PROVE TrueOf(d, recent, missing, Queues[q].lost)
  <2>1. recent # {} /\ recent \in SUBSET Nat /\ \A p \in T : p.received \in recent
    BY <1>5, <1>12
  <2>2. recent \in SUBSET (0 .. Width)
    <3>1. ASSUME NEW p \in T PROVE p.received \in 0 .. Width
      <4>1. p.received \in Nat /\ p.received < Width
        BY <1>5
      <4> QED BY <1>3, <4>1
    <3> QED BY <3>1
  <2> DEFINE lo == Min(recent)
             hi == Max(recent)
  <2>3. lo \in recent /\ \A y \in recent : lo <= y
    <3> HIDE DEF recent
    <3>1. \E x \in recent : \A y \in recent : x <= y
      BY <2>1, LeastNat
    <3> QED BY <3>1, Zenon DEF Min
  <2>4. hi \in recent /\ \A y \in recent : hi >= y
    <3> HIDE DEF recent
    <3>0. Width \in Nat /\ recent # {}
      BY <1>3, <2>1
    <3>1. \E x \in recent : \A y \in recent : x >= y
      BY <2>2, <3>0, LargestNat
    <3> QED BY <3>1, Zenon DEF Max
  <2>5. lo \in Nat /\ hi \in Nat /\ hi < Width
    <3>1. PICK p \in T : hi = p.received
      BY <2>4
    <3>2. p.received < Width
      BY <1>5
    <3> HIDE DEF recent
    <3> QED BY <2>1, <2>3, <2>4, <3>1, <3>2
  <2> HIDE DEF recent, lo, hi
  <2>6. \A p \in T : lo <= p.received /\ p.received <= hi
    <3> SUFFICES ASSUME NEW p \in T PROVE lo <= p.received /\ p.received <= hi
      OBVIOUS
    <3>1. p.received \in recent /\ p.received \in Nat
      BY <1>5, <2>1
    <3>2. lo <= p.received /\ hi >= p.received
      BY <2>3, <2>4, <3>1
    <3> QED BY <2>5, <3>1, <3>2
  <2>7. mean \in Nat /\ lo <= mean /\ mean <= hi
    BY <1>12, <2>5, <2>6, MeanOf DEF T
  <2> HIDE DEF mean, loss, missing
  <2>8. mean < Width
    BY <1>3, <2>5, <2>7
  <2>9. d.avg_time_us = mean
    BY <1>2, <1>7, <2>7, <2>8 DEF mean
  <2>10. TrueOf(d, recent, missing, Queues[q].lost)
    <3>1. lo <= d.avg_time_us /\ d.avg_time_us <= hi
      BY <2>7, <2>9
    <3>2. Min(recent) <= d.avg_time_us /\ d.avg_time_us <= Max(recent)
      BY <3>1 DEF lo, hi
    <3> QED BY <1>10, <2>1, <3>2, TrueWith, Zenon
  <2> QED BY <2>10
<1>13. TrueOf(d, recent, missing, Queues[q].lost)
  BY <1>11, <1>12
<1>14. /\ recent = {p.received : p \in {r \in Queues[d.queue].recv : r.ago < TimeAvg}}
       /\ missing = {age \in Queues[d.queue].inflight : age >= LossInflight}
  BY <1>2, <1>4
<1> HIDE DEF recent, missing
<1> QED BY <1>2, <1>13, <1>14, Zenon

\* What the daemon reports of a host is true of its queues (main, FrameStats):
\* the latency is between those of the last replies, and the loss is below 100%
\* and zero only if nothing is lost or overdue, for all queues of packets that
\* the numbers of a datagram can tell apart.
THEOREM ReportsTrueOfQueues ==
  ASSUME Scaled
  PROVE  Spec => []ReportsTrue
<1>1. SentInv => ReportsTrue
  <2> SUFFICES ASSUME SentInv, NEW d \in net \cup ToSet(taken) PROVE d \in Reports
    BY ReportIsTrue, Zenon DEF ReportsTrue
  <2>1. \A i \in DOMAIN taken : taken[i] \in Reports
    BY LenProperties, ElementOfSeq DEF SentInv
  <2> QED BY <2>1 DEF SentInv, ToSet
<1> QED BY <1>1, InitSent, NextSent, PTL DEF Spec

-----------------------------------------------------------------------------
(* The reports of a graph's own host.                                      *)

Added(x, g, d) == IF d.addr = Displayed[g] THEN Append(x, d) ELSE x

\* p[i] are those of the first i of s.
OwnPrefixes(p, g, s) ==
  /\ p \in [0 .. Len(s) -> Seq(Reports)]
  /\ p[0] = <<>>
  /\ \A i \in 1 .. Len(s) : p[i] = Added(p[i - 1], g, s[i])

LEMMA OwnIs ==
  ASSUME NEW g \in Graphs, NEW s \in Seq(Reports)
  PROVE  \E p : OwnPrefixes(p, g, s) /\ Own(g, s) = p[Len(s)]
<1> DEFINE n == Len(s)
           A == Seq(Reports)
           F == [q \in A \X (1 .. n) |-> Added(q[1], g, s[q[2]])]
           Fits(own) == own = [i \in 0 .. n |->
                                 IF i = 0 THEN <<>>
                                 ELSE IF s[i].addr = Displayed[g] THEN Append(own[i - 1], s[i])
                                 ELSE own[i - 1]]
           It == CHOOSE own : Fits(own)
<1>1. n \in Nat /\ \A i \in 1 .. n : s[i] \in Reports
  BY LenProperties, ElementOfSeq
<1>2. Own(g, s) = It[n]
  BY DEF Own
<1>3. <<>> \in A
  BY EmptySeq
<1>4. ASSUME NEW x \in A, NEW i \in 1 .. n PROVE Added(x, g, s[i]) \in A
  <2>1. Append(x, s[i]) \in Seq(Reports)
    BY <1>1, AppendProperties
  <2> QED BY <2>1 DEF Added
<1>5. F \in [A \X (1 .. n) -> A]
  <2>1. ASSUME NEW q \in A \X (1 .. n) PROVE Added(q[1], g, s[q[2]]) \in A
    BY <1>4
  <2> QED BY <2>1
<1>6. ASSUME NEW x \in A, NEW i \in 1 .. n PROVE F[<<x, i>>] = Added(x, g, s[i])
  OBVIOUS
<1> HIDE DEF n, A, F
<1>7. \E own : Fits(own)
  <2>1. PICK iter : Folding(iter, A, <<>>, F, n)
    <3> HIDE DEF Fits
    <3> QED BY <1>1, <1>3, <1>5, FoldingExists, Zenon
  <2>2. Running(iter, A, <<>>, F, n)
    <3> HIDE DEF Fits
    <3> QED BY <1>1, <1>3, <1>5, <2>1, FoldingValues, Zenon
  <2> DEFINE own == [i \in 0 .. n |-> iter[1 .. i]]
  <2>3. own[0] = <<>>
    BY <1>1, <2>2 DEF Running
  <2>4. ASSUME NEW i \in 1 .. n PROVE own[i] = Added(own[i - 1], g, s[i])
    <3>1. i - 1 \in 0 .. n /\ i \in 0 .. n
      BY <1>1
    <3>2. iter[1 .. i] = F[<<iter[1 .. (i - 1)], i>>] /\ iter[1 .. (i - 1)] \in A
      BY <2>2, <3>1 DEF Running
    <3>3. iter[1 .. i] = Added(iter[1 .. (i - 1)], g, s[i])
      BY <1>6, <3>2
    <3> QED BY <3>1, <3>3
  <2>5. DOMAIN own = 0 .. n /\ own = [i \in 0 .. n |-> own[i]]
    OBVIOUS
  <2> HIDE DEF own
  <2>6. \A i \in 0 .. n : i = 0 \/ i \in 1 .. n
    BY <1>1
  <2>7. ASSUME NEW i \in 0 .. n
        PROVE  own[i] = IF i = 0 THEN <<>>
                        ELSE IF s[i].addr = Displayed[g] THEN Append(own[i - 1], s[i])
                        ELSE own[i - 1]
    BY <2>3, <2>4, <2>6, Zenon DEF Added
  <2> QED BY <2>5, <2>7
<1>8. Fits(It)
  BY <1>7, Zenon
<1> HIDE DEF It
<1>9. It = [i \in 0 .. n |-> It[i]] /\ It[0] = <<>>
  BY <1>1, <1>8
<1>10. ASSUME NEW i \in 1 .. n PROVE It[i] = Added(It[i - 1], g, s[i])
  <2>1. i \in 0 .. n /\ i # 0
    BY <1>1
  <2> QED BY <1>8, <2>1 DEF Added
<1> HIDE DEF Fits
<1> DEFINE S == {i \in Nat : i <= n => It[i] \in A}
<1>11. S = Nat
  <2>1. 0 \in S
    BY <1>3, <1>9
  <2>2. ASSUME NEW i \in S PROVE i + 1 \in S
    <3> SUFFICES ASSUME i + 1 <= n PROVE It[i + 1] \in A
      OBVIOUS
    <3>1. i \in Nat /\ i <= n /\ i + 1 \in 1 .. n /\ (i + 1) - 1 = i
      BY <1>1
    <3>2. It[i] \in A
      BY <3>1
    <3> QED BY <1>4, <1>10, <3>1, <3>2
  <2>3. S \in SUBSET Nat
    OBVIOUS
  <2> HIDE DEF S
  <2> QED BY <2>1, <2>2, <2>3, SetInduction
<1>12. ASSUME NEW i \in 0 .. n PROVE It[i] \in A
  <2>1. i \in S /\ i <= n
    BY <1>1, <1>11
  <2> QED BY <2>1
<1>13. It \in [0 .. n -> A]
  BY <1>9, <1>12
<1> QED BY <1>2, <1>9, <1>10, <1>13 DEF OwnPrefixes, n, A

LEMMA OwnType ==
  ASSUME NEW g \in Graphs, NEW s \in Seq(Reports)
  PROVE  Own(g, s) \in Seq(Reports)
<1>1. PICK p : OwnPrefixes(p, g, s) /\ Own(g, s) = p[Len(s)]
  BY OwnIs
<1>2. Len(s) \in 0 .. Len(s)
  BY LenProperties
<1> QED BY <1>1, <1>2 DEF OwnPrefixes

LEMMA OwnOfNone ==
  ASSUME NEW g \in Graphs
  PROVE  Own(g, <<>>) = <<>>
<1>1. <<>> \in Seq(Reports) /\ Len(<<>>) = 0
  BY EmptySeq
<1>2. PICK p : OwnPrefixes(p, g, <<>>) /\ Own(g, <<>>) = p[0]
  BY <1>1, OwnIs
<1> QED BY <1>2 DEF OwnPrefixes

LEMMA AddedAfter ==
  ASSUME NEW x \in Seq(Reports), NEW y \in Seq(Reports), NEW g, NEW d \in Reports
  PROVE  Added(x \o y, g, d) = x \o Added(y, g, d)
<1>1. <<d>> \in Seq(Reports)
  OBVIOUS
<1>2. x \o y \in Seq(Reports)
  BY ConcatProperties
<1>3. Append(y, d) = y \o <<d>> /\ Append(x \o y, d) = (x \o y) \o <<d>>
  BY <1>2, AppendIsConcat
<1>4. (x \o y) \o <<d>> = x \o (y \o <<d>>)
  BY <1>1, ConcatAssociative
<1> QED BY <1>3, <1>4, Zenon DEF Added

\* Those of two sequences of reports are those of the first, then those of the
\* second: filtering tick by tick is the same as filtering at the end.
LEMMA OwnConcat ==
  ASSUME NEW g \in Graphs, NEW a \in Seq(Reports), NEW b \in Seq(Reports)
  PROVE  Own(g, a \o b) = Own(g, a) \o Own(g, b)
<1> DEFINE c == a \o b
           m == Len(a)
           n == Len(b)
<1>1. /\ c \in Seq(Reports) /\ m \in Nat /\ n \in Nat /\ Len(c) = m + n
      /\ \A i \in 1 .. m : c[i] = a[i]
      /\ \A i \in 1 .. n : c[m + i] = b[i]
      /\ \A i \in 1 .. n : b[i] \in Reports
  <2>1. m \in Nat /\ n \in Nat /\ \A i \in 1 .. n : b[i] \in Reports
    BY LenProperties, ElementOfSeq
  <2>2. /\ c \in Seq(Reports) /\ Len(c) = m + n
        /\ \A i \in 1 .. m + n : c[i] = IF i <= m THEN a[i] ELSE b[i - m]
    BY ConcatProperties
  <2> HIDE DEF c, m, n
  <2>3. \A i \in 1 .. m : i \in 1 .. m + n /\ i <= m
    BY <2>1
  <2>4. \A i \in 1 .. n : m + i \in 1 .. m + n /\ ~(m + i <= m) /\ (m + i) - m = i
    BY <2>1
  <2> QED BY <2>1, <2>2, <2>3, <2>4
<1>2. PICK p : OwnPrefixes(p, g, a) /\ Own(g, a) = p[m]
  BY OwnIs
<1>3. PICK q : OwnPrefixes(q, g, b) /\ Own(g, b) = q[n]
  BY OwnIs
<1>4. PICK r : OwnPrefixes(r, g, c) /\ Own(g, c) = r[m + n]
  <2> HIDE DEF c
  <2> QED BY <1>1, OwnIs
<1> HIDE DEF c
<1>5. /\ p[0] = <<>> /\ \A i \in 0 .. m : p[i] \in Seq(Reports)
      /\ \A i \in 1 .. m : p[i] = Added(p[i - 1], g, a[i])
  BY <1>2 DEF OwnPrefixes
<1>6. /\ q[0] = <<>> /\ \A i \in 0 .. n : q[i] \in Seq(Reports)
      /\ \A i \in 1 .. n : q[i] = Added(q[i - 1], g, b[i])
  BY <1>3 DEF OwnPrefixes
<1>7. r[0] = <<>> /\ \A i \in 1 .. m + n : r[i] = Added(r[i - 1], g, c[i])
  BY <1>1, <1>4 DEF OwnPrefixes
<1> HIDE DEF m, n
<1>8. r[m] = p[m]
  <2> DEFINE S == {i \in Nat : i <= m => r[i] = p[i]}
  <2>1. 0 \in S
    BY <1>5, <1>7
  <2>2. ASSUME NEW i \in S PROVE i + 1 \in S
    <3> SUFFICES ASSUME i + 1 <= m PROVE r[i + 1] = p[i + 1]
      OBVIOUS
    <3>1. i \in Nat /\ i <= m /\ i + 1 \in 1 .. m /\ i + 1 \in 1 .. m + n /\ (i + 1) - 1 = i
      BY <1>1
    <3>2. r[i + 1] = Added(r[i], g, c[i + 1]) /\ p[i + 1] = Added(p[i], g, a[i + 1])
      BY <1>5, <1>7, <3>1
    <3> QED BY <1>1, <3>1, <3>2
  <2>3. S \in SUBSET Nat
    OBVIOUS
  <2> HIDE DEF S
  <2>4. m \in S
    BY <1>1, <2>1, <2>2, <2>3, SetInduction
  <2> QED BY <1>1, <2>4 DEF S
<1>9. \A x \in Seq(Reports), y \in Seq(Reports), d \in Reports :
         Added(x \o y, g, d) = x \o Added(y, g, d)
  BY AddedAfter
<1>10. r[m + n] = p[m] \o q[n]
  <2>0. p[m] \in Seq(Reports)
    BY <1>1, <1>5
  <2> DEFINE S == {i \in Nat : i <= n => r[m + i] = p[m] \o q[i]}
  <2>1. 0 \in S
    <3>1. p[m] \o <<>> = p[m]
      BY <2>0, ConcatEmptySeq
    <3>2. m + 0 = m
      BY <1>1
    <3> QED BY <1>6, <1>8, <3>1, <3>2
  <2>2. ASSUME NEW i \in S PROVE i + 1 \in S
    <3>0. i + 1 \in Nat
      OBVIOUS
    <3> SUFFICES ASSUME i + 1 <= n PROVE r[m + (i + 1)] = p[m] \o q[i + 1]
      BY <3>0, Zenon
    <3>1. i \in Nat /\ i <= n /\ i \in 0 .. n /\ i + 1 \in 1 .. n /\ (i + 1) - 1 = i
      BY <1>1
    <3>2. m + (i + 1) \in 1 .. m + n /\ (m + (i + 1)) - 1 = m + i
      BY <1>1, <3>1
    <3>3. r[m + (i + 1)] = Added(r[m + i], g, c[m + (i + 1)])
      BY <1>7, <3>2
    <3>4. q[i + 1] = Added(q[i], g, b[i + 1]) /\ q[i] \in Seq(Reports)
      BY <1>6, <3>1
    <3>5. c[m + (i + 1)] = b[i + 1] /\ b[i + 1] \in Reports
      BY <1>1, <3>1
    <3>6. r[m + i] = p[m] \o q[i]
      BY <3>1
    <3>7. Added(p[m] \o q[i], g, b[i + 1]) = p[m] \o Added(q[i], g, b[i + 1])
      <4>1. q[i] \in Seq(Reports) /\ b[i + 1] \in Reports
        BY <3>4, <3>5
      <4> QED BY <1>9, <2>0, <4>1
    <3> HIDE DEF S
    <3> QED BY <3>3, <3>4, <3>5, <3>6, <3>7, Zenon
  <2>3. S \in SUBSET Nat
    OBVIOUS
  <2> HIDE DEF S
  <2>4. n \in S
    BY <1>1, <2>1, <2>2, <2>3, SetInduction
  <2>5. n <= n => r[m + n] = p[m] \o q[n]
    BY <2>4, Zenon DEF S
  <2>6. n <= n
    BY <1>1
  <2> QED BY <2>5, <2>6, Zenon
<1> QED BY <1>2, <1>3, <1>4, <1>8, <1>10, Zenon DEF c

-----------------------------------------------------------------------------
(* The newest of a sequence.                                               *)

\* How many of k are left if n are kept.
Kept(k, n) == IF k <= n THEN k ELSE n

IsNewest(w, x, n, A) ==
  /\ w \in Seq(A)
  /\ Len(w) = Kept(Len(x), n)
  /\ \A i \in 1 .. Kept(Len(x), n) : w[i] = x[Len(x) - Kept(Len(x), n) + i]

LEMMA NewestIs ==
  ASSUME NEW A, NEW x \in Seq(A), NEW n \in Nat
  PROVE  IsNewest(Newest(x, n), x, n, A)
<1> DEFINE k == Len(x)
           m == Kept(k, n)
<1>1. k \in Nat /\ \A i \in 1 .. k : x[i] \in A
  BY LenProperties, ElementOfSeq
<1>2. m \in Nat /\ m <= k
  <2> HIDE DEF k
  <2> QED BY <1>1 DEF Kept
<1>3. Max({1, k - n + 1}) = k - m + 1
  <2> HIDE DEF k
  <2>1. Max({1, k - n + 1}) = IF 1 >= k - n + 1 THEN 1 ELSE k - n + 1
    <3>1. k - n + 1 \in Int
      BY <1>1
    <3> QED BY <3>1, MaxOfTwo
  <2> QED BY <1>1, <2>1 DEF Kept
<1>4. Newest(x, n) = SubSeq(x, k - m + 1, k)
  BY <1>3 DEF Newest
<1> HIDE DEF k, m
<1>5. k - m + 1 \in Int /\ k \in Int /\ k - (k - m + 1) + 1 = m
  BY <1>1, <1>2
<1>6. \A i \in k - m + 1 .. k : x[i] \in A
  BY <1>1, <1>2
<1> DEFINE y == SubSeq(x, k - m + 1, k)
<1>7. y \in Seq(A)
  BY <1>5, <1>6, SubSeqProperties
<1>8. Len(y) = IF k - m + 1 <= k THEN k - (k - m + 1) + 1 ELSE 0
  BY <1>5, <1>6, SubSeqProperties
<1>9. \A i \in 1 .. k - (k - m + 1) + 1 : y[i] = x[(k - m + 1) + i - 1]
  BY <1>5, <1>6, SubSeqProperties
<1> HIDE DEF y
<1>10. Len(y) = m
  BY <1>1, <1>2, <1>8
<1>11. ASSUME NEW i \in 1 .. m PROVE y[i] = x[k - m + i]
  <2>1. (k - m + 1) + i - 1 = k - m + i
    BY <1>1, <1>2
  <2> QED BY <1>5, <1>9, <2>1
<1> QED BY <1>4, <1>7, <1>10, <1>11 DEF IsNewest, y, k, m

LEMMA TrimmedIs ==
  ASSUME samples \in Nat, NEW A, NEW x \in Seq(A)
  PROVE  Trimmed(x) = Newest(x, samples - 1)
<1>1. Len(x) - samples + 2 = Len(x) - (samples - 1) + 1
  BY LenProperties
<1> QED BY <1>1 DEF Trimmed, Newest

IsJoined(z, a, b, A) ==
  /\ z \in Seq(A)
  /\ Len(z) = Len(a) + Len(b)
  /\ \A i \in 1 .. Len(a) + Len(b) : z[i] = IF i <= Len(a) THEN a[i] ELSE b[i - Len(a)]

LEMMA JoinedIs ==
  ASSUME NEW A, NEW a \in Seq(A), NEW b \in Seq(A)
  PROVE  IsJoined(a \o b, a, b, A)
BY ConcatProperties DEF IsJoined

\* Keeping the newest of what was kept, and of more, loses nothing.
LEMMA NewestOfKept ==
  ASSUME NEW A, NEW x \in Seq(A), NEW y \in Seq(A), NEW n \in Nat
  PROVE  Newest(Newest(x, n) \o y, n) = Newest(x \o y, n)
<1> DEFINE k == Len(x)
           l == Len(y)
           m == Kept(k, n)
           w == Newest(x, n)
           j == Kept(m + l, n)
           u == Newest(w \o y, n)
           v == Newest(x \o y, n)
<1>1. k \in Nat /\ l \in Nat
  BY LenProperties
<1>2. w \in Seq(A) /\ Len(w) = m /\ \A i \in 1 .. m : w[i] = x[k - m + i]
  BY NewestIs DEF IsNewest
<1>3. m \in Nat /\ m <= k /\ (m = k \/ m = n)
  <2> HIDE DEF k
  <2> QED BY <1>1 DEF Kept
<1> HIDE DEF w, m
<1>4. /\ w \o y \in Seq(A) /\ Len(w \o y) = m + l
      /\ \A i \in 1 .. m + l : (w \o y)[i] = IF i <= m THEN w[i] ELSE y[i - m]
  <2>1. IsJoined(w \o y, w, y, A)
    BY <1>2, JoinedIs, Zenon
  <2> QED BY <1>2, <2>1 DEF IsJoined
<1>5. /\ x \o y \in Seq(A) /\ Len(x \o y) = k + l
      /\ \A i \in 1 .. k + l : (x \o y)[i] = IF i <= k THEN x[i] ELSE y[i - k]
  BY JoinedIs DEF IsJoined
<1>6. /\ u \in Seq(A) /\ Len(u) = j
      /\ \A i \in 1 .. j : u[i] = (w \o y)[(m + l) - j + i]
  <2>1. IsNewest(u, w \o y, n, A)
    BY <1>4, NewestIs, Zenon
  <2> QED BY <1>4, <2>1 DEF IsNewest
<1>7. /\ v \in Seq(A) /\ Len(v) = Kept(k + l, n)
      /\ \A i \in 1 .. Kept(k + l, n) : v[i] = (x \o y)[(k + l) - Kept(k + l, n) + i]
  <2>1. IsNewest(v, x \o y, n, A)
    BY <1>5, NewestIs, Zenon
  <2> QED BY <1>5, <2>1 DEF IsNewest
<1> HIDE DEF u, v, k, l
<1>8. Kept(k + l, n) = j
  BY <1>1, <1>3 DEF Kept
<1>9. j \in Nat /\ j <= m + l
  BY <1>1, <1>3 DEF Kept
<1> HIDE DEF j
<1>10. ASSUME NEW i \in 1 .. j PROVE u[i] = v[i]
  <2> DEFINE a == (m + l) - j + i
             b == (k + l) - j + i
  <2>1. a \in 1 .. m + l /\ b \in 1 .. k + l /\ b = a + (k - m)
    BY <1>1, <1>3, <1>9
  <2>2. u[i] = (w \o y)[a] /\ v[i] = (x \o y)[b]
    BY <1>6, <1>7, <1>8
  <2> HIDE DEF a, b
  <2>3. CASE a <= m
    <3>1. b <= k /\ k - m + a = b /\ a \in 1 .. m
      BY <1>1, <1>3, <2>1, <2>3
    <3>2. (w \o y)[a] = w[a] /\ w[a] = x[k - m + a]
      BY <1>2, <1>4, <2>1, <2>3, <3>1
    <3>3. (x \o y)[b] = x[b]
      BY <1>5, <2>1, <3>1
    <3> QED BY <2>2, <3>1, <3>2, <3>3
  <2>4. CASE ~(a <= m)
    <3>1. ~(b <= k) /\ b - k = a - m
      BY <1>1, <1>3, <2>1, <2>4
    <3>2. (w \o y)[a] = y[a - m] /\ (x \o y)[b] = y[b - k]
      BY <1>4, <1>5, <2>1, <2>4, <3>1
    <3> QED BY <2>2, <3>1, <3>2
  <2> QED BY <2>3, <2>4
<1>11. Len(u) = Len(v) /\ \A i \in 1 .. Len(u) : u[i] = v[i]
  BY <1>6, <1>7, <1>8, <1>10
<1>12. u = v
  BY <1>6, <1>7, <1>11, SeqEqual, Zenon
<1> QED BY <1>12 DEF u, v, w

-----------------------------------------------------------------------------
(* The values of reports.                                                  *)

\* The value of a report in B.
Maps(m, A, B) == m \in [A -> B]
Mapped(m, x) == [i \in DOMAIN x |-> m[x[i]]]

IsMapped(y, m, x, B) ==
  /\ y \in Seq(B)
  /\ Len(y) = Len(x)
  /\ \A i \in 1 .. Len(x) : y[i] = m[x[i]]

LEMMA MappedIs ==
  ASSUME NEW A, NEW B, NEW m \in [A -> B], NEW x \in Seq(A)
  PROVE  IsMapped(Mapped(m, x), m, x, B)
<1> DEFINE n == Len(x)
           y == [i \in 1 .. n |-> m[x[i]]]
<1>1. n \in Nat /\ DOMAIN x = 1 .. n /\ \A i \in 1 .. n : x[i] \in A
  BY LenProperties, ElementOfSeq
<1>2. Mapped(m, x) = y
  BY <1>1 DEF Mapped
<1> HIDE DEF n
<1>3. y \in [1 .. n -> B]
  BY <1>1
<1>4. y \in Seq(B) /\ Len(y) = n
  <2> HIDE DEF y
  <2> QED BY <1>1, <1>3
<1> QED BY <1>2, <1>4 DEF IsMapped, n

LEMMA MappedConcat ==
  ASSUME NEW A, NEW B, NEW m, Maps(m, A, B), NEW x \in Seq(A), NEW y \in Seq(A)
  PROVE  Mapped(m, x \o y) = Mapped(m, x) \o Mapped(m, y)
<1> DEFINE k == Len(x)
           l == Len(y)
           u == Mapped(m, x \o y)
           a == Mapped(m, x)
           b == Mapped(m, y)
           v == a \o b
<1>0. m \in [A -> B]
  BY DEF Maps
<1>1. k \in Nat /\ l \in Nat
  BY LenProperties
<1>2. /\ x \o y \in Seq(A) /\ Len(x \o y) = k + l
      /\ \A i \in 1 .. k + l : (x \o y)[i] = IF i <= k THEN x[i] ELSE y[i - k]
  BY JoinedIs DEF IsJoined
<1>3. u \in Seq(B) /\ Len(u) = k + l /\ \A i \in 1 .. k + l : u[i] = m[(x \o y)[i]]
  <2>1. IsMapped(u, m, x \o y, B)
    BY <1>0, <1>2, MappedIs, Zenon
  <2> QED BY <1>2, <2>1 DEF IsMapped
<1>4. a \in Seq(B) /\ Len(a) = k /\ \A i \in 1 .. k : a[i] = m[x[i]]
  <2>1. IsMapped(a, m, x, B)
    BY <1>0, MappedIs, Zenon
  <2> QED BY <2>1 DEF IsMapped
<1>5. b \in Seq(B) /\ Len(b) = l /\ \A i \in 1 .. l : b[i] = m[y[i]]
  <2>1. IsMapped(b, m, y, B)
    BY <1>0, MappedIs, Zenon
  <2> QED BY <2>1 DEF IsMapped
<1> HIDE DEF a, b, k, l
<1>6. /\ v \in Seq(B) /\ Len(v) = k + l
      /\ \A i \in 1 .. k + l : v[i] = IF i <= k THEN a[i] ELSE b[i - k]
  <2>1. IsJoined(v, a, b, B)
    BY <1>4, <1>5, JoinedIs, Zenon
  <2> QED BY <1>4, <1>5, <2>1 DEF IsJoined
<1> HIDE DEF u, v
<1>7. ASSUME NEW i \in 1 .. k + l PROVE u[i] = v[i]
  <2>1. CASE i <= k
    <3>1. i \in 1 .. k
      BY <1>1, <2>1
    <3>2. u[i] = m[x[i]] /\ v[i] = a[i]
      BY <1>2, <1>3, <1>6, <2>1
    <3> QED BY <1>4, <3>1, <3>2
  <2>2. CASE ~(i <= k)
    <3>1. i - k \in 1 .. l
      BY <1>1, <2>2
    <3>2. u[i] = m[y[i - k]] /\ v[i] = b[i - k]
      BY <1>2, <1>3, <1>6, <2>2
    <3> QED BY <1>5, <3>1, <3>2
  <2> QED BY <2>1, <2>2
<1>8. Len(u) = Len(v) /\ \A i \in 1 .. Len(u) : u[i] = v[i]
  BY <1>3, <1>6, <1>7
<1>9. u = v
  BY <1>3, <1>6, <1>8, SeqEqual, Zenon
<1> QED BY <1>9 DEF u, v, a, b

LEMMA MappedNewest ==
  ASSUME NEW A, NEW B, NEW m, Maps(m, A, B), NEW x \in Seq(A), NEW n \in Nat
  PROVE  Mapped(m, Newest(x, n)) = Newest(Mapped(m, x), n)
<1> DEFINE k == Len(x)
           j == Kept(k, n)
           w == Newest(x, n)
           a == Mapped(m, x)
           u == Mapped(m, w)
           v == Newest(a, n)
<1>0. m \in [A -> B]
  BY DEF Maps
<1>1. k \in Nat /\ j \in Nat /\ j <= k
  <2>1. k \in Nat
    BY LenProperties
  <2> HIDE DEF k
  <2> QED BY <2>1 DEF Kept
<1>2. w \in Seq(A) /\ Len(w) = j /\ \A i \in 1 .. j : w[i] = x[k - j + i]
  <2>1. IsNewest(w, x, n, A)
    BY NewestIs, Zenon
  <2> QED BY <2>1 DEF IsNewest
<1>3. a \in Seq(B) /\ Len(a) = k /\ \A i \in 1 .. k : a[i] = m[x[i]]
  <2>1. IsMapped(a, m, x, B)
    BY <1>0, MappedIs, Zenon
  <2> QED BY <2>1 DEF IsMapped
<1> HIDE DEF w, a
<1>4. u \in Seq(B) /\ Len(u) = j /\ \A i \in 1 .. j : u[i] = m[w[i]]
  <2>1. IsMapped(u, m, w, B)
    BY <1>0, <1>2, MappedIs, Zenon
  <2> QED BY <1>2, <2>1 DEF IsMapped
<1>5. v \in Seq(B) /\ Len(v) = j /\ \A i \in 1 .. j : v[i] = a[k - j + i]
  <2>1. IsNewest(v, a, n, B)
    BY <1>3, NewestIs, Zenon
  <2> QED BY <1>3, <2>1 DEF IsNewest
<1> HIDE DEF u, v, k, j
<1>6. ASSUME NEW i \in 1 .. j PROVE u[i] = v[i]
  <2>1. k - j + i \in 1 .. k
    BY <1>1
  <2> QED BY <1>2, <1>3, <1>4, <1>5, <2>1
<1>7. Len(u) = Len(v) /\ \A i \in 1 .. Len(u) : u[i] = v[i]
  BY <1>4, <1>5, <1>6
<1>8. u = v
  BY <1>4, <1>5, <1>7, SeqEqual, Zenon
<1> QED BY <1>8 DEF u, v, w, a

\* A vector that holds the values of the newest of x, is added the values of y
\* and trimmed, holds those of the newest of both.
LEMMA UpdateKeeps ==
  ASSUME NEW A, NEW B, NEW m, Maps(m, A, B), NEW x \in Seq(A), NEW y \in Seq(A), NEW n \in Nat
  PROVE  Newest(Mapped(m, Newest(x, n)) \o Mapped(m, y), n) = Mapped(m, Newest(x \o y, n))
<1> DEFINE w == Newest(x, n)
<1>1. w \in Seq(A)
  BY NewestIs DEF IsNewest
<1>2. Newest(w \o y, n) = Newest(x \o y, n)
  BY NewestOfKept
<1> HIDE DEF w
<1>3. w \o y \in Seq(A)
  BY <1>1, ConcatProperties
<1>4. Mapped(m, w \o y) = Mapped(m, w) \o Mapped(m, y)
  BY <1>1, MappedConcat
<1>5. Mapped(m, Newest(w \o y, n)) = Newest(Mapped(m, w \o y), n)
  <2> DEFINE z == w \o y
  <2>1. z \in Seq(A)
    BY <1>3
  <2> HIDE DEF z
  <2>2. Mapped(m, Newest(z, n)) = Newest(Mapped(m, z), n)
    BY <2>1, MappedNewest
  <2> QED BY <2>2 DEF z
<1> QED BY <1>2, <1>4, <1>5 DEF w

\* What the two vectors of a graph hold of a report.
Lat == [d \in Reports |-> Min({d.avg_time_us, LatencyCap})]
Loss == [d \in Reports |-> d.packet_loss_x100_000]

LEMMA ValuesType == Lat \in [Reports -> 0 .. LatencyCap] /\ Loss \in [Reports -> Nat]
<1>1. LatencyCap \in Nat /\ Width \in Nat \ {0}
  BY DaemonAssumption, GuiAssumption
<1>2. ASSUME NEW d \in Reports
      PROVE  Min({d.avg_time_us, LatencyCap}) \in 0 .. LatencyCap /\ d.packet_loss_x100_000 \in Nat
  <2>1. PICK h \in Hosts, n \in Nat, q \in States : d = FrameStats(h, n, q)
    BY DEF Reports
  <2> DEFINE mean == MeanRecvTime(q)
             loss == PacketLoss(q)
             time == d.avg_time_us
  <2>2. time = mean % Width /\ d.packet_loss_x100_000 = loss % Width
    BY <2>1 DEF FrameStats
  <2>3. mean \in Nat /\ loss \in Nat
    BY MeanOf, LossOf
  <2> HIDE DEF mean, loss
  <2>4. time \in Nat /\ d.packet_loss_x100_000 \in Nat
    BY <1>1, <2>2, <2>3
  <2> HIDE DEF time
  <2>5. Min({time, LatencyCap}) = IF time <= LatencyCap THEN time ELSE LatencyCap
    BY <1>1, <2>4, MinOfTwo
  <2>6. Min({time, LatencyCap}) \in 0 .. LatencyCap
    BY <1>1, <2>4, <2>5
  <2> QED BY <2>4, <2>6 DEF time
<1> QED BY <1>2 DEF Lat, Loss

LEMMA ValuesAre ==
  ASSUME NEW x \in Seq(Reports)
  PROVE  Latencies(x) = Mapped(Lat, x) /\ Losses(x) = Mapped(Loss, x)
<1>1. \A i \in DOMAIN x : x[i] \in Reports
  BY LenProperties, ElementOfSeq
<1> QED BY <1>1 DEF Latencies, Losses, Mapped, Lat, Loss

\* A tick keeps the values of the newest reports in a vector.
LEMMA TickKeeps ==
  ASSUME samples \in Nat, samples > 0, NEW m, NEW B, Maps(m, Reports, B),
         NEW g \in Graphs, NEW x \in Seq(Reports), NEW y \in Seq(Reports)
  PROVE  Trimmed(Mapped(m, Newest(Own(g, x), samples - 1)) \o Mapped(m, Own(g, y)))
           = Mapped(m, Newest(Own(g, x \o y), samples - 1))
<1> DEFINE n == samples - 1
           a == Own(g, x)
           b == Own(g, y)
           w == Newest(a, n)
           z == Mapped(m, w) \o Mapped(m, b)
<1>1. n \in Nat
  OBVIOUS
<1>2. a \in Seq(Reports) /\ b \in Seq(Reports)
  BY OwnType
<1>3. Own(g, x \o y) = a \o b
  BY OwnConcat
<1> HIDE DEF n, a, b
<1>4. w \in Seq(Reports)
  BY <1>1, <1>2, NewestIs DEF IsNewest
<1> HIDE DEF w
<1>5. m \in [Reports -> B]
  BY DEF Maps
<1>6. IsMapped(Mapped(m, w), m, w, B) /\ IsMapped(Mapped(m, b), m, b, B)
  BY <1>2, <1>4, <1>5, MappedIs, Zenon
<1>7. z \in Seq(B)
  BY <1>6, ConcatProperties DEF IsMapped
<1>8. Trimmed(z) = Newest(z, n)
  <2> HIDE DEF z
  <2> QED BY <1>7, TrimmedIs DEF n
<1>9. Newest(z, n) = Mapped(m, Newest(a \o b, n))
  BY <1>1, <1>2, UpdateKeeps DEF w
<1>10. Trimmed(z) = Mapped(m, Newest(Own(g, x \o y), n))
  BY <1>3, <1>8, <1>9, Zenon
<1> QED BY <1>10 DEF z, w, a, b, n

-----------------------------------------------------------------------------
(* The graphs. A panic leaves the vectors as they are, so that they show   *)
(* the newest reports then, too.                                           *)

Shown(g) == Newest(Own(g, taken), samples - 1)

ShownInv ==
  /\ samples \in Nat
  /\ \A g \in Graphs : /\ latency_us[g] = Latencies(Shown(g))
                       /\ packet_loss_x100_000[g] = Losses(Shown(g))

LEMMA NothingShown ==
  ASSUME samples \in Nat, NEW g \in Graphs
  PROVE  Latencies(Newest(Own(g, <<>>), samples - 1)) = <<>>
         /\ Losses(Newest(Own(g, <<>>), samples - 1)) = <<>>
<1>1. Own(g, <<>>) = <<>> /\ Len(<<>>) = 0
  BY OwnOfNone, EmptySeq
<1> DEFINE m == Max({1, 0 - (samples - 1) + 1})
<1>2. m \in Int /\ 0 < m
  <2>1. 0 - (samples - 1) + 1 \in Int
    OBVIOUS
  <2>2. m = IF 1 >= 0 - (samples - 1) + 1 THEN 1 ELSE 0 - (samples - 1) + 1
    BY <2>1, MaxOfTwo
  <2> QED BY <2>1, <2>2
<1> HIDE DEF m
<1>3. SubSeq(<<>>, m, 0) = <<>>
  BY <1>2, SubSeqEmpty
<1>4. Newest(<<>>, samples - 1) = <<>>
  BY <1>1, <1>3 DEF Newest, m
<1>5. Latencies(<<>>) = <<>> /\ Losses(<<>>) = <<>>
  BY DEF Latencies, Losses
<1> QED BY <1>1, <1>4, <1>5

LEMMA FreshShown ==
  ASSUME samples \in Nat, taken = <<>>, latency_us = Fresh, packet_loss_x100_000 = Fresh
  PROVE  ShownInv
<1>1. ASSUME NEW g \in Graphs
      PROVE  latency_us[g] = Latencies(Shown(g)) /\ packet_loss_x100_000[g] = Losses(Shown(g))
  <2>1. latency_us[g] = <<>> /\ packet_loss_x100_000[g] = <<>>
    BY DEF Fresh
  <2> QED BY <2>1, NothingShown, Zenon DEF Shown
<1> QED BY <1>1 DEF ShownInv

LEMMA InitShown == Init => ShownInv
BY FreshShown, GuiAssumption DEF Init

LEMMA NextShown == SentInv /\ ShownInv /\ [Next]_vars => ShownInv'
<1> SUFFICES ASSUME SentInv, ShownInv, [Next]_vars PROVE ShownInv'
  OBVIOUS
<1>1. CASE UNCHANGED <<samples, taken, plots>>
  BY <1>1 DEF ShownInv, Shown, plots
<1>2. CASE Refresh \/ Deliver \/ DeliverGarbled \/ Startup \/ DrawPanics \/ UNCHANGED vars
  <2>1. UNCHANGED <<samples, taken, plots>>
    BY <1>2 DEF Refresh, Deliver, DeliverGarbled, Startup, DrawPanics, vars, gui
  <2> QED BY <1>1, <2>1
<1>3. CASE Tick
  <2>1. UNCHANGED samples
    BY <1>3 DEF Tick
  <2>2. CASE UNCHANGED <<taken, plots>>
    BY <1>1, <2>1, <2>2
  <2>3. CASE /\ bound /\ (samples > 0 \/ Graphs = {})
             /\ latency_us' = [g \in Graphs |->
                  Trimmed(latency_us[g] \o Latencies(Own(g, Parsed)))]
             /\ packet_loss_x100_000' = [g \in Graphs |->
                  Trimmed(packet_loss_x100_000[g] \o Losses(Own(g, Parsed)))]
             /\ taken' = taken \o Parsed
    <3>1. taken \in Seq(Reports) /\ Parsed \in Seq(Reports)
      BY ParsedType DEF SentInv
    <3>2. ASSUME NEW g \in Graphs
          PROVE  /\ latency_us'[g] = Latencies(Newest(Own(g, taken \o Parsed), samples - 1))
                 /\ packet_loss_x100_000'[g] = Losses(Newest(Own(g, taken \o Parsed), samples - 1))
      <4>1. samples \in Nat /\ samples > 0 /\ samples - 1 \in Nat
        BY <2>3 DEF ShownInv
      <4> DEFINE old == Newest(Own(g, taken), samples - 1)
                 new == Newest(Own(g, taken \o Parsed), samples - 1)
                 own == Own(g, Parsed)
      <4>2. old \in Seq(Reports) /\ own \in Seq(Reports)
        <5>1. Own(g, taken) \in Seq(Reports)
          BY <3>1, OwnType
        <5> QED BY <3>1, <4>1, <5>1, OwnType, NewestIs DEF IsNewest
      <4>3. new \in Seq(Reports)
        <5>1. taken \o Parsed \in Seq(Reports)
          BY <3>1, ConcatProperties
        <5>2. Own(g, taken \o Parsed) \in Seq(Reports)
          BY <5>1, OwnType
        <5> QED BY <4>1, <5>2, NewestIs DEF IsNewest
      <4>4. /\ latency_us[g] = Latencies(old) /\ packet_loss_x100_000[g] = Losses(old)
            /\ latency_us'[g] = Trimmed(latency_us[g] \o Latencies(own))
            /\ packet_loss_x100_000'[g] = Trimmed(packet_loss_x100_000[g] \o Losses(own))
        BY <2>3 DEF ShownInv, Shown
      <4>5. Maps(Lat, Reports, 0 .. LatencyCap) /\ Maps(Loss, Reports, Nat)
        BY ValuesType DEF Maps
      <4>6. Trimmed(Mapped(Lat, old) \o Mapped(Lat, own)) = Mapped(Lat, new)
        BY <3>1, <4>1, <4>5, TickKeeps
      <4>7. Trimmed(Mapped(Loss, old) \o Mapped(Loss, own)) = Mapped(Loss, new)
        BY <3>1, <4>1, <4>5, TickKeeps
      <4> HIDE DEF old, new, own
      <4>8. /\ Latencies(old) = Mapped(Lat, old) /\ Losses(old) = Mapped(Loss, old)
            /\ Latencies(new) = Mapped(Lat, new) /\ Losses(new) = Mapped(Loss, new)
            /\ Latencies(own) = Mapped(Lat, own) /\ Losses(own) = Mapped(Loss, own)
        BY <4>2, <4>3, ValuesAre
      <4>9. latency_us'[g] = Latencies(new) /\ packet_loss_x100_000'[g] = Losses(new)
        BY <4>4, <4>6, <4>7, <4>8, Zenon
      <4> QED BY <4>9 DEF new
    <3>3. samples' \in Nat
      BY <2>1 DEF ShownInv
    <3>4. \A g \in Graphs : Shown(g)' = Newest(Own(g, taken \o Parsed), samples - 1)
      BY <2>1, <2>3, Zenon DEF Shown
    <3> QED BY <3>2, <3>3, <3>4, Zenon DEF ShownInv
  <2> QED BY <1>3, <2>2, <2>3 DEF Tick
<1>4. CASE Relaunch
  <2>1. samples' \in Nat /\ taken' = <<>> /\ latency_us' = Fresh /\ packet_loss_x100_000' = Fresh
    BY <1>4 DEF Relaunch, ShownInv
  <2>2. ASSUME NEW g \in Graphs
        PROVE  latency_us'[g] = Latencies(Shown(g)') /\ packet_loss_x100_000'[g] = Losses(Shown(g)')
    <3>1. latency_us'[g] = <<>> /\ packet_loss_x100_000'[g] = <<>>
      BY <2>1 DEF Fresh
    <3>2. UNCHANGED samples /\ samples \in Nat
      BY <1>4 DEF Relaunch, ShownInv
    <3>3. Shown(g)' = Newest(Own(g, <<>>), samples - 1)
      BY <2>1, <3>2, Zenon DEF Shown
    <3> QED BY <3>1, <3>2, <3>3, NothingShown, Zenon
  <2> QED BY <2>1, <2>2, Zenon DEF ShownInv
<1> QED BY <1>2, <1>3, <1>4 DEF Next, Gui

\* A graph shows the newest sample_limit - 1 reports of its own host in the
\* order they were received (LatencyGraph::update), for any numbers of hosts
\* and graphs, any loss, repetition and reordering of datagrams.
THEOREM GraphsShowLatest == Spec => []ShowsLatest
<1>1. ShownInv => ShowsLatest
  BY DEF ShownInv, ShowsLatest, Shown
<1> QED BY <1>1, InitSent, NextSent, InitShown, NextShown, PTL DEF Spec

-----------------------------------------------------------------------------
(* Panics.                                                                 *)

LEMMA SumOfShown ==
  ASSUME SentInv, ShownInv, NEW g \in Graphs, samples # 0
  PROVE  FoldLeft(+, 0, latency_us[g]) \in Int
         /\ FoldLeft(+, 0, latency_us[g]) <= (samples - 1) * LatencyCap
<1> DEFINE n == samples - 1
           own == Own(g, taken)
           w == Newest(own, n)
           s == latency_us[g]
           k == Len(w)
<1>1. n \in Nat /\ LatencyCap \in Nat
  BY GuiAssumption DEF ShownInv
<1>2. own \in Seq(Reports)
  BY OwnType DEF SentInv
<1> HIDE DEF n, own
<1>3. w \in Seq(Reports) /\ k = Kept(Len(own), n)
  BY <1>1, <1>2, NewestIs DEF IsNewest
<1>4. k \in Nat /\ k <= n
  <2>1. Len(own) \in Nat
    BY <1>2, LenProperties
  <2> QED BY <1>1, <1>3, <2>1 DEF Kept
<1>5. s = Latencies(w)
  BY DEF ShownInv, Shown, n, own
<1> HIDE DEF w, s
<1>6. s = Mapped(Lat, w) /\ Lat \in [Reports -> 0 .. LatencyCap]
  BY <1>3, <1>5, ValuesAre, ValuesType
<1>7. IsMapped(s, Lat, w, 0 .. LatencyCap)
  BY <1>3, <1>6, MappedIs, Zenon
<1> HIDE DEF k
<1>8. s \in Seq(0 .. LatencyCap) /\ Len(s) = k
  BY <1>7 DEF IsMapped, k
<1>9. \A i \in 1 .. k : s[i] \in 0 .. LatencyCap
  BY <1>8, ElementOfSeq
<1>10. s \in Seq(Int)
  <2>1. s \in [1 .. k -> Int]
    BY <1>1, <1>8, <1>9, LenProperties
  <2> QED BY <1>4, <2>1
<1>11. PICK p : PartialSums(p, s) /\ Sum(s) = p[k]
  BY <1>8, <1>10, SumPrefixes
<1>12. p[0] = 0 /\ p[k] \in Int
  BY <1>4, <1>8, <1>11 DEF PartialSums
<1>13. p[k] - p[0] <= k * LatencyCap
  <2>1. /\ 1 \in Nat \ {0} /\ 1 <= k + 1 /\ k <= Len(s) /\ 0 \in Int /\ LatencyCap \in Int
        /\ \A i \in 1 .. k : 0 <= s[i] /\ s[i] <= LatencyCap
    BY <1>1, <1>4, <1>8, <1>9
  <2>2. p[k] - p[1 - 1] <= (k - 1 + 1) * LatencyCap
    BY <1>4, <1>10, <1>11, <2>1, SumBounds
  <2>3. 1 - 1 = 0 /\ k - 1 + 1 = k
    BY <1>4
  <2> QED BY <2>2, <2>3, Zenon
<1>14. k * LatencyCap <= n * LatencyCap
  BY <1>1, <1>4, MultiplesOrdered
<1>15. Sum(s) \in Int /\ Sum(s) <= n * LatencyCap
  <2> DEFINE a == k * LatencyCap
             b == n * LatencyCap
             c == Sum(s)
             e == p[k]
  <2>1. a \in Int /\ b \in Int /\ a <= b /\ e \in Int /\ c = e /\ e - p[0] <= a /\ p[0] = 0
    BY <1>1, <1>4, <1>11, <1>12, <1>13, <1>14
  <2> HIDE DEF a, b, c, e
  <2>2. c \in Int /\ c <= b
    BY <2>1
  <2> QED BY <2>2 DEF b, c
<1> QED BY <1>15 DEF Sum, s, n

LEMMA InitNoPanic == Init => NoPanic
BY DEF Init, NoPanic

\* Why the GUI may panic.
Unfit == samples = 0 \/ (OverflowChecks /\ (samples - 1) * LatencyCap >= Width)

LEMMA NextNoPanic == SentInv /\ ShownInv /\ NoPanic /\ [Next]_vars => NoPanic'
<1> SUFFICES ASSUME SentInv, ShownInv, NoPanic, [Next]_vars, panic', bound' PROVE Unfit'
  BY Zenon DEF NoPanic, Unfit
<1>1. ASSUME UNCHANGED samples, Unfit PROVE Unfit'
  BY <1>1 DEF Unfit
<1>2. CASE UNCHANGED <<samples, panic, bound>>
  <2>1. Unfit
    BY <1>2, Zenon DEF NoPanic, Unfit
  <2> QED BY <1>1, <1>2, <2>1
<1>3. CASE Refresh \/ Deliver \/ DeliverGarbled \/ UNCHANGED vars
  <2>1. UNCHANGED <<samples, panic, bound>>
    BY <1>3 DEF Refresh, Deliver, DeliverGarbled, vars, gui
  <2> QED BY <1>2, <2>1
<1>4. CASE Startup
  <2>1. ~bound /\ ~panic /\ (UNCHANGED panic \/ UNCHANGED bound)
    BY <1>4 DEF Startup
  <2> QED BY <2>1
<1>5. CASE Tick
  <2>1. /\ UNCHANGED <<samples, bound>> /\ ~panic
        /\ UNCHANGED panic \/ ~(bound /\ (samples > 0 \/ Graphs = {}))
    BY <1>5 DEF Tick
  <2>2. ~(samples > 0) /\ samples \in Nat
    BY <2>1 DEF ShownInv
  <2>3. Unfit
    BY <2>2 DEF Unfit
  <2> QED BY <1>1, <2>1, <2>3
<1>6. CASE DrawPanics
  <2>1. UNCHANGED samples /\ \E g \in Graphs : Overflows(g)
    BY <1>6 DEF DrawPanics
  <2>2. PICK g \in Graphs : Overflows(g)
    BY <2>1
  <2>3. CASE samples # 0
    <3> DEFINE a == FoldLeft(+, 0, latency_us[g])
               b == (samples - 1) * LatencyCap
    <3>1. a \in Int /\ a <= b
      BY <2>3, SumOfShown
    <3>2. OverflowChecks /\ a >= Width
      BY <2>2 DEF Overflows
    <3>3. b \in Int /\ Width \in Int
      BY DaemonAssumption, GuiAssumption DEF ShownInv
    <3> HIDE DEF a, b
    <3>4. b >= Width
      BY <3>1, <3>2, <3>3
    <3>5. Unfit
      BY <3>2, <3>4 DEF Unfit, b
    <3> QED BY <1>1, <2>1, <3>5
  <2>4. CASE samples = 0
    BY <1>1, <2>1, <2>4 DEF Unfit
  <2> QED BY <2>3, <2>4
<1>7. CASE Relaunch
  BY <1>7 DEF Relaunch
<1> QED BY <1>3, <1>4, <1>5, <1>6, <1>7 DEF Next, Gui

\* With its socket the GUI panics for a sample_limit of zero, or one whose
\* capped samples do not add up within a u32, and for no other (tick and draw),
\* whatever it receives.
THEOREM GuiPanicsWhenUnfit == Spec => []NoPanic
BY InitSent, NextSent, InitShown, NextShown, InitNoPanic, NextNoPanic, PTL DEF Spec
=============================================================================

--------------------------- MODULE FdqViewProofs ----------------------------
(***************************************************************************)
(* Proofs about the file view, for every file and every size of the caches *)
(* and of the view: loading fills the gaps, GapsFilled; what a frame of    *)
(* the GUI folds is bounded however long the recording, WorkBounded;       *)
(* drawing never panics, NoPanic; and whatever cache is drawn from, what   *)
(* is seen is what was selected, SameView.                                 *)
(***************************************************************************)
EXTENDS FdqView, NatProofs, SequenceTheorems, TLAPS

USE ScaleAssumption DEF ScaleAssumption

-----------------------------------------------------------------------------
(* Numbers.                                                                *)

LEMMA MaxOfTwo ==
  ASSUME NEW a \in Int, NEW b \in Int
  PROVE  Max({a, b}) = IF a >= b THEN a ELSE b
BY DEF Max

LEMMA MinOfTwo ==
  ASSUME NEW a \in Int, NEW b \in Int
  PROVE  Min({a, b}) = IF a <= b THEN a ELSE b
BY DEF Min

\* A time is less than a second after its timestamp.
LEMMA TimestampOf ==
  ASSUME NEW t \in Nat
  PROVE  /\ Timestamp(t) \in Nat
         /\ Timestamp(t) * PerSec <= t
         /\ t < (Timestamp(t) + 1) * PerSec
<1>1. Timestamp(t) \in Nat /\ \A q \in Int : q <= Timestamp(t) <=> q * PerSec <= t
  BY Quotient DEF Timestamp
<1> DEFINE s == Timestamp(t)
<1>2. s * PerSec <= t
  BY <1>1
<1>3. (s + 1) * PerSec \in Int /\ ~((s + 1) * PerSec <= t)
  <2>1. s + 1 \in Int /\ ~(s + 1 <= s)
    BY <1>1
  <2> QED BY <1>1, <2>1
<1> QED BY <1>1, <1>2, <1>3

\* A filler is at a full second.
LEMMA TimestampOfFiller ==
  ASSUME NEW s \in Nat
  PROVE  s * PerSec \in Nat /\ Timestamp(s * PerSec) = s
<1> DEFINE t == s * PerSec
<1>1. t \in Nat
  OBVIOUS
<1>2. Timestamp(t) \in Nat /\ \A q \in Int : q <= Timestamp(t) <=> q * PerSec <= t
  BY <1>1, Quotient DEF Timestamp
<1>3. s <= Timestamp(t)
  BY <1>1, <1>2
<1>4. ~(s + 1 <= Timestamp(t))
  <2>1. (s + 1) * PerSec = t + PerSec /\ s + 1 \in Int
    OBVIOUS
  <2> HIDE DEF t
  <2>2. ~((s + 1) * PerSec <= t)
    BY <1>1, <2>1
  <2> QED BY <1>2, <2>1, <2>2
<1> HIDE DEF t
<1>5. Timestamp(t) = s
  BY <1>2, <1>3, <1>4
<1> QED BY <1>1, <1>5 DEF t

\* Timestamps keep the order of the times.
LEMMA TimestampOrdered ==
  ASSUME NEW t \in Nat, NEW u \in Nat, t <= u
  PROVE  Timestamp(t) <= Timestamp(u)
<1>1. Timestamp(t) \in Nat /\ Timestamp(t) * PerSec <= t
  BY TimestampOf
<1>2. \A q \in Int : q <= Timestamp(u) <=> q * PerSec <= u
  BY Quotient DEF Timestamp
<1>3. Timestamp(t) * PerSec \in Int /\ Timestamp(t) * PerSec <= u
  BY <1>1
<1> QED BY <1>1, <1>2, <1>3

-----------------------------------------------------------------------------
(* Loading.                                                                *)

LargestGap == Max({2, GapSecs})

LEMMA GapType == LargestGap \in Nat /\ LargestGap >= 2 /\ LargestGap >= GapSecs
BY MaxOfTwo DEF LargestGap

\* What load_file adds to frames of which the last is of time u when it reads
\* one of time x.
Added(u, x) == Append(Fillers(Timestamp(u), Timestamp(x)), x)

LEMMA AddedTimes ==
  ASSUME NEW u \in Nat, NEW x \in Nat, u >= PerSec
  PROVE  LET m == Len(Added(u, x)) - 1
             s == Added(u, x) IN
         /\ m \in Nat
         /\ s \in Seq(Nat)
         /\ \A i \in 1 .. m : s[i] = (Timestamp(u) + i) * PerSec
         /\ s[m + 1] = x
         /\ m = 0 \/ m = Timestamp(x) - Timestamp(u) - 2
         /\ m = 0 => Timestamp(x) - Timestamp(u) <= LargestGap
<1> DEFINE ts == Timestamp(x)
           last == Timestamp(u)
           fillers == Fillers(last, ts)
<1>1. ts \in Nat /\ last \in Nat
  BY TimestampOf
<1>2. last > 0
  <2>1. 1 \in Int /\ 1 * PerSec = PerSec
    OBVIOUS
  <2>2. 1 <= last <=> 1 * PerSec <= u
    BY <2>1, Quotient DEF Timestamp
  <2>3. 1 <= last
    BY <2>1, <2>2
  <2> QED BY <1>1, <2>3
<1> HIDE DEF ts, last
<1>3. \E m \in Nat : /\ fillers \in Seq(Nat) /\ Len(fillers) = m
                     /\ \A i \in 1 .. m : fillers[i] = (last + i) * PerSec
                     /\ m = 0 \/ m = ts - last - 2
                     /\ m = 0 => ts - last <= LargestGap
  <2>1. CASE ts - last > GapSecs /\ ts - last - 2 > 0
    <3> DEFINE m == ts - last - 2
    <3>1. fillers = [i \in 1 .. m |-> (last + i) * PerSec]
      BY <1>2, <2>1 DEF Fillers
    <3>2. m \in Nat /\ m # 0
      BY <1>1, <2>1
    <3> HIDE DEF m, fillers
    <3>3. \A i \in 1 .. m : (last + i) * PerSec \in Nat
      BY <1>1
    <3>4. fillers \in [1 .. m -> Nat]
      BY <3>1, <3>3
    <3>5. fillers \in Seq(Nat) /\ Len(fillers) = m
      BY <3>2, <3>4
    <3> QED BY <3>1, <3>2, <3>5 DEF m
  <2>2. CASE ~(ts - last > GapSecs /\ ts - last - 2 > 0)
    <3>1. ts - last <= LargestGap
      BY <1>1, <2>2, GapType
    <3>2. fillers = <<>>
      <4>1. CASE ts - last > GapSecs
        <5>1. fillers = [i \in 1 .. ts - last - 2 |-> (last + i) * PerSec]
          BY <1>2, <4>1 DEF Fillers
        <5>2. 1 .. ts - last - 2 = {}
          BY <1>1, <2>2, <4>1
        <5> HIDE DEF fillers
        <5>3. fillers \in [1 .. 0 -> Nat]
          BY <5>1, <5>2
        <5>4. fillers \in Seq(Nat) /\ Len(fillers) = 0
          BY <5>3
        <5> QED BY <5>4, EmptySeq
      <4>2. CASE ~(ts - last > GapSecs)
        BY <4>2 DEF Fillers
      <4> QED BY <4>1, <4>2
    <3>3. fillers \in Seq(Nat) /\ Len(fillers) = 0
      BY <3>2, EmptySeq
    <3> QED BY <3>1, <3>3
  <2> QED BY <2>1, <2>2
<1>4. PICK m \in Nat : /\ fillers \in Seq(Nat) /\ Len(fillers) = m
                       /\ \A i \in 1 .. m : fillers[i] = (last + i) * PerSec
                       /\ m = 0 \/ m = ts - last - 2
                       /\ m = 0 => ts - last <= LargestGap
  BY <1>3
<1> HIDE DEF fillers
<1>5. Added(u, x) = Append(fillers, x)
  BY DEF Added, fillers, last, ts
<1>6. /\ Added(u, x) \in Seq(Nat) /\ Len(Added(u, x)) = m + 1
      /\ \A i \in 1 .. m : Added(u, x)[i] = fillers[i]
      /\ Added(u, x)[m + 1] = x
  BY <1>4, <1>5
<1>7. Len(Added(u, x)) - 1 = m
  BY <1>4, <1>6
<1> QED BY <1>4, <1>6, <1>7 DEF last, ts

\* Two times in a row that leave no gap, and that do not go back.
Near == {p \in Nat \X Nat : Timestamp(p[2]) - Timestamp(p[1]) <= LargestGap}
Upward == {p \in Nat \X Nat : p[1] <= p[2]}

\* The frames of a sequence are pairwise in a relation of their times.
Chained(s, R) == \A i \in 2 .. Len(s) : <<s[i - 1].t, s[i].t>> \in R

LEMMA NearUpward ==
  ASSUME NEW u \in Nat, NEW x \in Nat
  PROVE  /\ <<u, x>> \in Near <=> Timestamp(x) - Timestamp(u) <= LargestGap
         /\ <<u, x>> \in Upward <=> u <= x
<1>1. <<u, x>> \in Nat \X Nat /\ <<u, x>>[1] = u /\ <<u, x>>[2] = x
  OBVIOUS
<1> QED BY <1>1, Zenon DEF Near, Upward

LEMMA AddedNear ==
  ASSUME NEW u \in Nat, NEW x \in Nat, u >= PerSec
  PROVE  LET s == Added(u, x) IN
         /\ Len(s) \in Nat \ {0} /\ s \in Seq(Nat)
         /\ s[Len(s)] = x
         /\ <<u, s[1]>> \in Near
         /\ \A i \in 2 .. Len(s) : <<s[i - 1], s[i]>> \in Near
         /\ u <= x => /\ <<u, s[1]>> \in Upward
                      /\ \A i \in 2 .. Len(s) : <<s[i - 1], s[i]>> \in Upward
<1> DEFINE s == Added(u, x)
           m == Len(s) - 1
           ts == Timestamp(x)
           last == Timestamp(u)
<1>1. /\ m \in Nat /\ s \in Seq(Nat)
      /\ \A i \in 1 .. m : s[i] = (last + i) * PerSec
      /\ s[m + 1] = x
      /\ m = 0 \/ m = ts - last - 2
      /\ m = 0 => ts - last <= LargestGap
  BY AddedTimes
<1>2. Len(s) = m + 1 /\ Len(s) \in Nat \ {0}
  <2>1. Len(s) \in Nat
    BY <1>1, LenProperties
  <2> HIDE DEF s
  <2> QED BY <1>1, <2>1
<1> HIDE DEF m, s
<1>3. ts \in Nat /\ last \in Nat /\ u < (last + 1) * PerSec /\ ts * PerSec <= x
  BY TimestampOf
<1> HIDE DEF ts, last
<1>4. ASSUME NEW i \in 1 .. m
      PROVE  s[i] \in Nat /\ Timestamp(s[i]) = last + i /\ s[i] = (last + i) * PerSec
  <2>1. last + i \in Nat
    BY <1>3
  <2> QED BY <1>1, <2>1, TimestampOfFiller
<1>5. <<u, s[1]>> \in Near /\ (u <= x => <<u, s[1]>> \in Upward)
  <2>1. CASE m = 0
    BY <1>1, <2>1, NearUpward DEF ts, last
  <2>2. CASE m # 0
    <3>1. 1 \in 1 .. m
      BY <1>1, <2>2
    <3>2. s[1] \in Nat /\ Timestamp(s[1]) = last + 1 /\ s[1] = (last + 1) * PerSec
      BY <1>4, <3>1
    <3>3. Timestamp(s[1]) - last <= LargestGap
      BY <1>3, <3>2, GapType
    <3>4. u <= s[1]
      <4> DEFINE f == (last + 1) * PerSec
      <4>1. u < f /\ s[1] = f /\ f \in Nat
        BY <1>3, <3>2
      <4> HIDE DEF f
      <4> QED BY <4>1
    <3> QED BY <3>2, <3>3, <3>4, NearUpward DEF last
  <2> QED BY <2>1, <2>2
<1>6. ASSUME NEW i \in 2 .. m + 1
      PROVE  /\ <<s[i - 1], s[i]>> \in Near
             /\ u <= x => <<s[i - 1], s[i]>> \in Upward
  <2>1. i - 1 \in 1 .. m /\ i - 1 \in Nat /\ i \in Nat
    BY <1>1
  <2>2. /\ s[i - 1] \in Nat /\ Timestamp(s[i - 1]) = last + (i - 1)
        /\ s[i - 1] = (last + (i - 1)) * PerSec
    BY <1>4, <2>1
  <2>3. CASE i \in 1 .. m
    <3>1. s[i] \in Nat /\ Timestamp(s[i]) = last + i /\ s[i] = (last + i) * PerSec
      BY <1>4, <2>3
    <3>2. Timestamp(s[i]) - Timestamp(s[i - 1]) <= LargestGap
      BY <1>3, <2>1, <2>2, <3>1, GapType
    <3>3. s[i - 1] <= s[i]
      <4>1. last + (i - 1) \in Int /\ last + i \in Int /\ last + (i - 1) <= last + i
        BY <1>3, <2>1
      <4> QED BY <2>2, <3>1, <4>1, MultiplesOrdered
    <3> QED BY <2>2, <3>1, <3>2, <3>3, NearUpward
  <2>4. CASE i = m + 1
    <3>1. s[i] = x /\ i - 1 = m /\ m = ts - last - 2
      BY <1>1, <2>1, <2>4
    <3>2. last + (i - 1) = ts - 2
      BY <1>3, <3>1
    <3>3. ts - Timestamp(s[i - 1]) <= LargestGap
      BY <1>3, <2>2, <3>2, GapType
    <3>4. s[i - 1] <= x
      <4>1. ts - 2 \in Int /\ ts - 2 <= ts /\ ts \in Int
        BY <1>3
      <4>2. (ts - 2) * PerSec <= ts * PerSec
        BY <4>1, MultiplesOrdered
      <4> DEFINE f == ts * PerSec
      <4>3. s[i - 1] <= f /\ f <= x /\ f \in Int
        BY <1>3, <2>2, <3>2, <4>2
      <4> HIDE DEF f
      <4> QED BY <2>2, <4>3
    <3> QED BY <2>2, <3>1, <3>3, <3>4, NearUpward DEF ts
  <2> QED BY <1>1, <2>3, <2>4
<1>7. \A i \in 2 .. m + 1 : <<s[i - 1], s[i]>> \in Near
  BY <1>6
<1>8. u <= x => \A i \in 2 .. m + 1 : <<s[i - 1], s[i]>> \in Upward
  BY <1>6
<1> HIDE DEF m
<1>9. s[Len(s)] = x
  BY <1>1, <1>2
<1> QED BY <1>1, <1>2, <1>5, <1>7, <1>8, <1>9 DEF s

\* Frames after frames.
LEMMA ChainedOn ==
  ASSUME NEW R, NEW a \in Seq(Frame), NEW b \in Seq(Frame), Chained(a, R), Chained(b, R),
         b # <<>>, a # <<>> => <<a[Len(a)].t, b[1].t>> \in R
  PROVE  Chained(a \o b, R)
<1> DEFINE c == a \o b
           l == Len(a)
<1>1. l \in Nat /\ Len(b) \in Nat \ {0}
  BY LenProperties, EmptySeq
<1>2. Len(c) = l + Len(b) /\ \A i \in 1 .. l + Len(b) : c[i] = IF i <= l THEN a[i] ELSE b[i - l]
  BY ConcatProperties
<1> HIDE DEF c
<1> SUFFICES ASSUME NEW i \in 2 .. l + Len(b) PROVE <<c[i - 1].t, c[i].t>> \in R
  BY <1>2 DEF Chained, c
<1>3. i - 1 \in 1 .. l + Len(b) /\ i \in 1 .. l + Len(b)
  BY <1>1
<1>4. CASE i <= l
  <2>1. c[i - 1] = a[i - 1] /\ c[i] = a[i] /\ i \in 2 .. l
    BY <1>1, <1>2, <1>3, <1>4
  <2> QED BY <2>1 DEF Chained
<1>5. CASE i = l + 1
  <2>1. c[i - 1] = a[l] /\ c[i] = b[1]
    BY <1>1, <1>2, <1>3, <1>5
  <2>2. a # <<>>
    BY <1>1, <1>5, EmptySeq
  <2> QED BY <2>1, <2>2
<1>6. CASE i > l + 1
  <2>1. c[i - 1] = b[(i - 1) - l] /\ c[i] = b[i - l]
    <3>1. ~(i - 1 <= l) /\ ~(i <= l)
      BY <1>1, <1>6
    <3>2. c[i - 1] = IF i - 1 <= l THEN a[i - 1] ELSE b[(i - 1) - l]
      BY <1>2, <1>3
    <3>3. c[i] = IF i <= l THEN a[i] ELSE b[i - l]
      BY <1>2, <1>3
    <3> QED BY <3>1, <3>2, <3>3
  <2>2. i - l \in 2 .. Len(b) /\ (i - l) - 1 = (i - 1) - l
    BY <1>1, <1>6
  <2>3. <<b[(i - l) - 1].t, b[i - l].t>> \in R
    BY <2>2 DEF Chained
  <2> QED BY <2>1, <2>2, <2>3
<1> QED BY <1>1, <1>4, <1>5, <1>6

LEMMA UnfoldedType ==
  ASSUME NEW s \in Seq(Nat), NEW n \in Nat
  PROVE  /\ Unfolded(s, n) \in Seq(Frame)
         /\ Len(Unfolded(s, n)) = Len(s)
         /\ \A i \in 1 .. Len(s) : Unfolded(s, n)[i].t = s[i]
<1> DEFINE m == Len(s)
           u == Unfolded(s, n)
<1>1. m \in Nat /\ DOMAIN s = 1 .. m /\ \A i \in 1 .. m : s[i] \in Nat
  BY LenProperties, ElementOfSeq
<1>2. u = [i \in 1 .. m |-> [t |-> s[i], from |-> n + i, to |-> n + i]]
  BY <1>1 DEF Unfolded
<1> HIDE DEF m, u
<1>3. \A i \in 1 .. m : [t |-> s[i], from |-> n + i, to |-> n + i] \in Frame
  BY <1>1 DEF Frame
<1>4. u \in [1 .. m -> Frame]
  BY <1>2, <1>3
<1>5. u \in Seq(Frame) /\ Len(u) = m
  BY <1>1, <1>4
<1>6. \A i \in 1 .. m : u[i].t = s[i]
  BY <1>2
<1> QED BY <1>5, <1>6 DEF m, u

\* What has been read is there, in a chain without gaps that ends with it.
LoadInv ==
  /\ file \in Files
  /\ place \in 0 .. Len(file)
  /\ fd \in Seq(Frame)
  /\ IF place = 0 THEN fd = <<>> ELSE fd # <<>> /\ fd[Len(fd)].t = file[place]
  /\ \A i \in 1 .. place : \E j \in 1 .. Len(fd) : fd[j].t = file[i]
  /\ Chained(fd, Near)
  /\ FileInOrder => Chained(fd, Upward)

LEMMA FileType ==
  ASSUME file \in Files
  PROVE  /\ file \in Seq(Nat) /\ Len(file) \in Nat
         /\ \A i \in 1 .. Len(file) : file[i] \in Nat /\ file[i] >= PerSec
<1>1. file \in Seq(Nat) /\ \A i \in DOMAIN file : file[i] >= PerSec
  BY InputAssumption
<1> QED BY <1>1, LenProperties, ElementOfSeq

LEMMA EmptyChained == ASSUME NEW R PROVE Chained(<<>>, R)
<1>1. Len(<<>>) = 0
  BY EmptySeq
<1> QED BY <1>1 DEF Chained

LEMMA InitLoad == Init => LoadInv
<1> SUFFICES ASSUME Init PROVE LoadInv
  OBVIOUS
<1>1. file \in Files /\ place = 0 /\ fd = <<>>
  BY DEF Init
<1>2. Len(file) \in Nat
  BY <1>1, FileType
<1> QED BY <1>1, <1>2, EmptySeq, EmptyChained DEF LoadInv

\* The frames that are added when one is read.
LEMMA ReadAdds ==
  ASSUME LoadInv, ReadFrame
  PROVE  \E new \in Seq(Frame) :
           /\ fd' = fd \o new
           /\ new # <<>> /\ new[Len(new)].t = file[place + 1]
           /\ Chained(new, Near)
           /\ fd # <<>> => <<fd[Len(fd)].t, new[1].t>> \in Near
           /\ FileInOrder => /\ Chained(new, Upward)
                             /\ fd # <<>> => <<fd[Len(fd)].t, new[1].t>> \in Upward
<1> DEFINE x == file[place + 1]
           l == Len(fd)
<1>1. /\ \A i \in 1 .. Len(file) : file[i] \in Nat /\ file[i] >= PerSec
      /\ Len(file) \in Nat /\ place \in Nat /\ place < Len(file)
  BY FileType DEF LoadInv, ReadFrame
<1>2. place + 1 \in 1 .. Len(file) /\ x \in Nat
  BY <1>1
<1>3. fd \in Seq(Frame) /\ l \in Nat
  BY LenProperties DEF LoadInv
<1>4. CASE place = 0
  <2> DEFINE times == Append(Fillers(0, Timestamp(x)), x)
             new == Unfolded(times, l)
  <2>1. fd' = fd \o new
    BY <1>4 DEF ReadFrame
  <2>2. Fillers(0, Timestamp(x)) = <<>>
    BY DEF Fillers
  <2>3. times \in Seq(Nat) /\ Len(times) = 1 /\ times[1] = x
    <3>1. times = Append(<<>>, x)
      BY <2>2
    <3>2. <<>> \in Seq(Nat) /\ Len(<<>>) = 0
      BY EmptySeq
    <3>3. /\ Append(<<>>, x) \in Seq(Nat) /\ Len(Append(<<>>, x)) = Len(<<>>) + 1
          /\ Append(<<>>, x)[Len(<<>>) + 1] = x
      BY <1>2, <3>2, AppendProperties
    <3> HIDE DEF times, x
    <3> QED BY <3>1, <3>2, <3>3
  <2> HIDE DEF times
  <2>4. new \in Seq(Frame) /\ Len(new) = 1 /\ new[1].t = x
    BY <1>3, <2>3, UnfoldedType
  <2> HIDE DEF new
  <2>5. new # <<>>
    <3>1. Len(new) # 0
      BY <2>4
    <3> QED BY <2>4, <3>1, EmptySeq
  <2>6. Chained(new, Near) /\ Chained(new, Upward)
    BY <2>4 DEF Chained
  <2>7. fd = <<>>
    BY <1>4 DEF LoadInv
  <2> QED BY <2>1, <2>4, <2>5, <2>6, <2>7
<1>5. CASE place # 0
  <2> DEFINE u == file[place]
             times == Added(u, x)
             new == Unfolded(times, l)
  <2>1. u \in Nat /\ u >= PerSec
    <3>1. place \in 1 .. Len(file)
      BY <1>1, <1>5
    <3> QED BY <1>1, <3>1
  <2>2. fd' = fd \o new
    BY <1>5 DEF ReadFrame, Added
  <2>3. /\ Len(times) \in Nat \ {0} /\ times \in Seq(Nat)
        /\ times[Len(times)] = x
        /\ <<u, times[1]>> \in Near
        /\ \A i \in 2 .. Len(times) : <<times[i - 1], times[i]>> \in Near
        /\ u <= x => /\ <<u, times[1]>> \in Upward
                     /\ \A i \in 2 .. Len(times) : <<times[i - 1], times[i]>> \in Upward
    BY <1>2, <2>1, AddedNear
  <2> HIDE DEF times
  <2>4. /\ new \in Seq(Frame) /\ Len(new) = Len(times)
        /\ \A i \in 1 .. Len(times) : new[i].t = times[i]
    BY <1>3, <2>3, UnfoldedType
  <2> HIDE DEF new
  <2>5. new # <<>>
    BY <2>3, <2>4, EmptySeq
  <2>6. new[1].t = times[1] /\ new[Len(new)].t = x
    BY <2>3, <2>4
  <2>7. \A i \in 2 .. Len(new) : new[i - 1].t = times[i - 1] /\ new[i].t = times[i]
    BY <2>3, <2>4
  <2>8. Chained(new, Near)
    BY <2>3, <2>4, <2>7 DEF Chained
  <2>9. fd[Len(fd)].t = u
    BY <1>5 DEF LoadInv
  <2>10. FileInOrder => u <= x
    <3> SUFFICES ASSUME FileInOrder PROVE u <= x
      OBVIOUS
    <3>1. place + 1 \in 2 .. Len(file) /\ (place + 1) - 1 = place
      BY <1>1, <1>5
    <3> QED BY <3>1 DEF FileInOrder
  <2>11. u <= x => Chained(new, Upward)
    BY <2>3, <2>4, <2>7 DEF Chained
  <2> QED BY <2>2, <2>3, <2>4, <2>5, <2>6, <2>8, <2>9, <2>10, <2>11
<1> QED BY <1>4, <1>5

LEMMA ReadLoad == LoadInv /\ ReadFrame => LoadInv'
<1> SUFFICES ASSUME LoadInv, ReadFrame PROVE LoadInv'
  OBVIOUS
<1>1. PICK new \in Seq(Frame) :
        /\ fd' = fd \o new
        /\ new # <<>> /\ new[Len(new)].t = file[place + 1]
        /\ Chained(new, Near)
        /\ fd # <<>> => <<fd[Len(fd)].t, new[1].t>> \in Near
        /\ FileInOrder => /\ Chained(new, Upward)
                          /\ fd # <<>> => <<fd[Len(fd)].t, new[1].t>> \in Upward
  BY ReadAdds
<1>2. /\ fd \in Seq(Frame) /\ Chained(fd, Near) /\ (FileInOrder => Chained(fd, Upward))
      /\ file \in Files /\ place \in 0 .. Len(file)
      /\ \A i \in 1 .. place : \E j \in 1 .. Len(fd) : fd[j].t = file[i]
  BY DEF LoadInv
<1>3. place' = place + 1 /\ place < Len(file) /\ file' = file
  BY DEF ReadFrame
<1>4. Len(file) \in Nat /\ Len(fd) \in Nat /\ Len(new) \in Nat \ {0}
  BY <1>1, <1>2, FileType, LenProperties, EmptySeq
<1>5. /\ fd' \in Seq(Frame) /\ Len(fd') = Len(fd) + Len(new)
      /\ \A i \in 1 .. Len(fd) + Len(new) :
           fd'[i] = IF i <= Len(fd) THEN fd[i] ELSE new[i - Len(fd)]
  BY <1>1, <1>2, ConcatProperties
<1>6. fd' # <<>> /\ fd'[Len(fd')].t = file[place + 1]
  <2>1. Len(fd') \in 1 .. Len(fd) + Len(new) /\ ~(Len(fd') <= Len(fd))
        /\ Len(fd') - Len(fd) = Len(new)
    BY <1>4, <1>5
  <2> QED BY <1>1, <1>4, <1>5, <2>1, EmptySeq
<1>7. \A i \in 1 .. place + 1 : \E j \in 1 .. Len(fd') : fd'[j].t = file[i]
  <2> SUFFICES ASSUME NEW i \in 1 .. place + 1
               PROVE  \E j \in 1 .. Len(fd') : fd'[j].t = file[i]
    OBVIOUS
  <2>1. CASE i = place + 1
    <3>1. Len(fd') \in 1 .. Len(fd')
      BY <1>4, <1>5
    <3> QED BY <1>6, <2>1, <3>1
  <2>2. CASE i \in 1 .. place
    <3>1. PICK j \in 1 .. Len(fd) : fd[j].t = file[i]
      BY <1>2, <2>2
    <3>2. j \in 1 .. Len(fd) + Len(new) /\ j <= Len(fd)
      BY <1>4
    <3> QED BY <1>5, <3>1, <3>2
  <2> QED BY <1>2, <2>1, <2>2
<1>8. Chained(fd', Near)
  BY <1>1, <1>2, ChainedOn
<1>9. FileInOrder => Chained(fd', Upward)
  BY <1>1, <1>2, ChainedOn
<1>10. FileInOrder' <=> FileInOrder
  BY <1>3 DEF FileInOrder
<1>11. place' \in 0 .. Len(file') /\ place' # 0
  BY <1>2, <1>3, <1>4
<1> QED BY <1>2, <1>3, <1>5, <1>6, <1>7, <1>8, <1>9, <1>10, <1>11 DEF LoadInv

LEMMA NextLoad == LoadInv /\ [Next]_vars => LoadInv'
<1> SUFFICES ASSUME LoadInv, [Next]_vars PROVE LoadInv'
  OBVIOUS
<1>1. CASE ReadFrame
  BY <1>1, ReadLoad
<1>2. CASE UNCHANGED <<file, place, fd>>
  BY <1>2 DEF LoadInv, Chained, FileInOrder
<1>3. ~ReadFrame => UNCHANGED <<file, place, fd>>
  BY DEF Next, Load, Loaded, AddCache, ZoomXSliderChanged, PosDXSliderChanged, Tick, vars
<1> QED BY <1>1, <1>2, <1>3

\* Loading leaves no gap and loses no frame, and the times go back only where
\* those of the file do (load_file), for every file and every filled gap.
THEOREM LoadFillsGaps == Spec => []GapsFilled
<1>1. LoadInv => GapsFilled
  <2> SUFFICES ASSUME LoadInv PROVE GapsFilled
    OBVIOUS
  <2>1. /\ fd \in Seq(Frame) /\ Chained(fd, Near) /\ (FileInOrder => Chained(fd, Upward))
        /\ \A i \in 1 .. place : \E j \in 1 .. Len(fd) : fd[j].t = file[i]
    BY DEF LoadInv
  <2>2. Len(fd) \in Nat /\ DOMAIN fd = 1 .. Len(fd)
    BY <2>1, LenProperties
  <2>3. \A i \in 1 .. place : \E f \in ToSet(fd) : f.t = file[i]
    BY <2>1, <2>2 DEF ToSet
  <2>4. ASSUME NEW i \in 2 .. Len(fd)
        PROVE  /\ Timestamp(fd[i].t) - Timestamp(fd[i - 1].t) <= LargestGap
               /\ FileInOrder => fd[i - 1].t <= fd[i].t
    <3>1. i \in 1 .. Len(fd) /\ i - 1 \in 1 .. Len(fd)
      BY <2>2
    <3>2. fd[i] \in Frame /\ fd[i - 1] \in Frame
      BY <2>1, <3>1, ElementOfSeq
    <3>3. fd[i].t \in Nat /\ fd[i - 1].t \in Nat
      BY <3>2 DEF Frame
    <3>4. /\ <<fd[i - 1].t, fd[i].t>> \in Near
          /\ FileInOrder => <<fd[i - 1].t, fd[i].t>> \in Upward
      BY <2>1 DEF Chained
    <3> QED BY <3>3, <3>4, NearUpward
  <2> QED BY <2>3, <2>4 DEF GapsFilled, InOrder, LargestGap
<1> QED BY <1>1, InitLoad, NextLoad, PTL DEF Spec

-----------------------------------------------------------------------------
(* The caches.                                                             *)

LEMMA IterFoldLen ==
  ASSUME NEW s, Len(s) \in Nat
  PROVE  /\ \E S : IterFold(s) \in Seq(S)
         /\ Len(IterFold(s)) = Count(Window, Step, Len(s))
         /\ Len(IterFold(s)) \in Nat
         /\ Len(s) <= Len(IterFold(s)) * Step
<1> DEFINE n == Len(s)
           c == Count(Window, Step, n)
           S == {IterFold(s)[k] : k \in 1 .. c}
<1>1. c \in Nat /\ n <= c * Step
  BY CountCovers
<1> HIDE DEF c
<1>2. IterFold(s) \in [1 .. c -> S]
  BY DEF IterFold, c
<1> HIDE DEF S
<1>3. IterFold(s) \in Seq(S) /\ Len(IterFold(s)) = c
  BY <1>1, <1>2
<1> QED BY <1>1, <1>3 DEF c

\* Each cache is folded from the one before, and after the last one there are
\* either as many as there can be or it is short.
CacheInv ==
  /\ \E S : fdcache \in Seq(S)
  /\ Len(fdcache) <= MaxCaches
  /\ phase \in {"load", "cache", "view"}
  /\ phase = "load" => fdcache = <<>>
  /\ phase = "cache" => Len(fdcache) < MaxCaches
  /\ phase = "view" => /\ fdcache # <<>>
                       /\ \/ Len(fdcache) = MaxCaches
                          \/ Len(fdcache[Len(fdcache)]) < CacheMin
  /\ \A l \in 1 .. Len(fdcache) :
       /\ \E S : fdcache[l] \in Seq(S)
       /\ Len(fdcache[l]) \in Nat
       /\ Len(LevelFrames(l - 1)) <= Len(fdcache[l]) * Step
  /\ zoomx \in Zooms
  /\ posx \in Positions

LEMMA InitCache == Init => CacheInv
<1> SUFFICES ASSUME Init PROVE CacheInv
  OBVIOUS
<1>1. posx \in Positions
  <2>1. PosUnits \div 2 \in 0 .. PosUnits
    BY InputAssumption
  <2> QED BY <2>1 DEF Init, Positions
<1>2. zoomx \in Zooms
  BY InputAssumption DEF Init
<1>3. (\E S : fdcache \in Seq(S)) /\ Len(fdcache) = 0
  BY EmptySeq DEF Init
<1> QED BY <1>1, <1>2, <1>3 DEF Init, CacheInv

LEMMA AddCacheStep == LoadInv /\ CacheInv /\ AddCache => CacheInv'
<1> SUFFICES ASSUME LoadInv, CacheInv, AddCache PROVE CacheInv'
  OBVIOUS
<1> DEFINE l == Len(fdcache)
           from == LevelFrames(l)
           cache == IterFold(from)
<1>1. PICK S : fdcache \in Seq(S)
  BY DEF CacheInv
<1>2. l \in Nat /\ l < MaxCaches /\ (fdcache = <<>> <=> l = 0)
  BY <1>1, LenProperties, EmptySeq DEF CacheInv, AddCache
<1>3. from = IF fdcache = <<>> THEN fd ELSE Last(fdcache)
  BY <1>2 DEF LevelFrames, Last
<1>4. Len(from) \in Nat
  <2>1. CASE l = 0
    BY <2>1, LenProperties DEF LevelFrames, LoadInv
  <2>2. CASE l # 0
    <3>1. l \in 1 .. l
      BY <1>2, <2>2
    <3> QED BY <2>2, <3>1 DEF LevelFrames, CacheInv
  <2> QED BY <2>1, <2>2
<1>5. /\ fdcache' = Append(fdcache, cache)
      /\ phase' = IF Len(fdcache') = MaxCaches \/ Len(cache) < CacheMin THEN "view" ELSE phase
      /\ phase = "cache"
      /\ UNCHANGED <<file, place, fd, sliders>>
  BY <1>3 DEF AddCache
<1>6. /\ \E T : cache \in Seq(T)
      /\ Len(cache) \in Nat
      /\ Len(from) <= Len(cache) * Step
  BY <1>4, IterFoldLen
<1> HIDE DEF cache
<1>7. /\ \E T : fdcache' \in Seq(T)
      /\ Len(fdcache') = l + 1
      /\ fdcache'[l + 1] = cache
      /\ \A k \in 1 .. l : fdcache'[k] = fdcache[k]
  <2> DEFINE T == S \cup {cache}
  <2>1. fdcache \in Seq(T) /\ cache \in T
    BY <1>1, SeqMonotonic
  <2> HIDE DEF T
  <2> QED BY <1>5, <2>1, AppendProperties
<1>8. fdcache' # <<>>
  BY <1>2, <1>7, EmptySeq
<1>9. ASSUME NEW k \in 1 .. l + 1
      PROVE  /\ \E T : fdcache'[k] \in Seq(T)
             /\ Len(fdcache'[k]) \in Nat
             /\ Len(LevelFrames(k - 1)') <= Len(fdcache'[k]) * Step
  <2>1. LevelFrames(k - 1)' = LevelFrames(k - 1)
    <3>1. k - 1 = 0 \/ k - 1 \in 1 .. l
      BY <1>2
    <3> QED BY <1>5, <1>7, <3>1 DEF LevelFrames
  <2>2. CASE k = l + 1
    <3>1. k - 1 = l
      BY <1>2, <2>2
    <3> QED BY <1>6, <1>7, <2>1, <2>2, <3>1
  <2>3. CASE k \in 1 .. l
    BY <1>7, <2>1, <2>3 DEF CacheInv
  <2> QED BY <1>2, <2>2, <2>3
<1>10. phase' \in {"cache", "view"}
  BY <1>5
<1>11. phase' = "cache" => Len(fdcache') < MaxCaches
  <2>1. phase' = "cache" => Len(fdcache') # MaxCaches
    BY <1>5
  <2> QED BY <1>2, <1>7, <2>1
<1>12. phase' = "view" => Len(fdcache') = MaxCaches \/ Len(fdcache'[Len(fdcache')]) < CacheMin
  BY <1>5, <1>7
<1>13. Len(fdcache') <= MaxCaches
  BY <1>2, <1>7
<1>14. zoomx' \in Zooms /\ posx' \in Positions
  BY <1>5 DEF CacheInv, sliders
<1> QED BY <1>7, <1>8, <1>9, <1>10, <1>11, <1>12, <1>13, <1>14 DEF CacheInv

LEMMA ClampedType == ASSUME NEW x \in Int PROVE Clamped(x) \in Positions
<1> DEFINE m == Min({PosUnits, x})
<1>1. m = IF PosUnits <= x THEN PosUnits ELSE x
  BY InputAssumption, MinOfTwo
<1>2. Clamped(x) = Max({0, m})
  BY DEF Clamped
<1> HIDE DEF m
<1>3. m \in Int /\ m <= PosUnits
  BY <1>1, InputAssumption
<1>4. Max({0, m}) = IF 0 >= m THEN 0 ELSE m
  BY <1>3, MaxOfTwo
<1> QED BY <1>2, <1>3, <1>4, InputAssumption DEF Positions

LEMMA NextCache == LoadInv /\ CacheInv /\ [Next]_vars => CacheInv'
<1> SUFFICES ASSUME LoadInv, CacheInv, [Next]_vars PROVE CacheInv'
  OBVIOUS
<1>1. CASE ReadFrame
  <2>1. Len(fdcache) = 0 /\ UNCHANGED <<fdcache, phase, zoomx, posx>>
    BY <1>1, EmptySeq DEF ReadFrame, CacheInv, sliders
  <2> QED BY <2>1 DEF CacheInv
<1>2. CASE Loaded
  <2>1. /\ Len(fdcache) = 0 /\ UNCHANGED <<fd, fdcache, zoomx, posx>>
        /\ phase' = "cache"
    BY <1>2, EmptySeq DEF Loaded, CacheInv, sliders
  <2> QED BY <2>1 DEF CacheInv
<1>3. CASE AddCache
  BY <1>3, AddCacheStep
<1>4. CASE ZoomXSliderChanged
  <2>1. UNCHANGED <<fd, fdcache, phase, posx>> /\ zoomx' \in Zooms
    BY <1>4 DEF ZoomXSliderChanged
  <2> QED BY <2>1 DEF CacheInv, LevelFrames
<1>5. CASE PosDXSliderChanged \/ UNCHANGED vars
  <2>1. UNCHANGED <<fd, fdcache, phase, posx, zoomx>>
    BY <1>5 DEF PosDXSliderChanged, vars
  <2> QED BY <2>1 DEF CacheInv, LevelFrames
<1>6. CASE Tick
  <2>1. UNCHANGED <<fd, fdcache, phase, zoomx>>
        /\ \E dx \in 0 .. 2 : posx' = Clamped(posx + Signum(posdx) * dx)
    BY <1>6 DEF Tick
  <2>2. PICK dx \in 0 .. 2 : posx' = Clamped(posx + Signum(posdx) * dx)
    BY <2>1
  <2>3. posx + Signum(posdx) * dx \in Int
    <3>1. posx \in Int
      BY DEF CacheInv, Positions
    <3>2. Signum(posdx) \in Int
      BY DEF Signum
    <3> QED BY <3>1, <3>2
  <2>4. posx' \in Positions
    BY <2>2, <2>3, ClampedType
  <2> QED BY <2>1, <2>4 DEF CacheInv, LevelFrames
<1> QED BY <1>1, <1>2, <1>3, <1>4, <1>5, <1>6 DEF Next, Load

-----------------------------------------------------------------------------
(* The slice.                                                              *)

LEMMA LevelIs ==
  ASSUME LoadInv, CacheInv
  PROVE  /\ Level \in 0 .. Len(fdcache)
         /\ Level # 0 => Len(fdcache[Level]) > TotalCache * zoomx
         /\ \A l \in 1 .. Len(fdcache) : l > Level => ~(Len(fdcache[l]) > TotalCache * zoomx)
<1> DEFINE n == Len(fdcache)
           detailed == {l \in DOMAIN fdcache : Len(fdcache[l]) > TotalCache * zoomx}
<1>1. n \in Nat /\ DOMAIN fdcache = 1 .. n
  BY LenProperties DEF CacheInv
<1>2. Level = IF detailed = {} THEN 0 ELSE Max(detailed)
  BY DEF Level
<1>3. CASE detailed = {}
  BY <1>1, <1>2, <1>3
<1>4. CASE detailed # {}
  <2>1. detailed \in SUBSET (0 .. n)
    BY <1>1
  <2> HIDE DEF detailed
  <2>2. \E x \in detailed : \A y \in detailed : x >= y
    BY <1>1, <1>4, <2>1, LargestNat
  <2>3. Level \in detailed /\ \A y \in detailed : Level >= y
    BY <1>2, <1>4, <2>2, Zenon DEF Max
  <2>4. Level \in 0 .. n
    BY <2>1, <2>3
  <2>5. Len(fdcache[Level]) > TotalCache * zoomx
    BY <2>3 DEF detailed
  <2>6. ASSUME NEW l \in 1 .. n, l > Level PROVE ~(Len(fdcache[l]) > TotalCache * zoomx)
    <3>1. ~(Level >= l)
      BY <1>1, <2>4, <2>6
    <3>2. l \notin detailed
      BY <2>3, <3>1
    <3> QED BY <1>1, <3>2 DEF detailed
  <2> QED BY <2>4, <2>5, <2>6
<1> QED BY <1>3, <1>4

LEMMA TotalCacheType == TotalCache \in Nat /\ TotalCache >= 3
<1>1. Limit * 3 \in Nat /\ Limit * 3 >= 6
  OBVIOUS
<1> QED BY <1>1 DEF TotalCache

\* The share 1/zoomx of up to k * zoomx frames is up to k of them.
LEMMA SliceLenBound ==
  ASSUME NEW n \in Nat, n >= 2, zoomx \in Nat \ {0}
  PROVE  /\ SliceLen(n) \in 2 .. n
         /\ \A k \in Nat \ {0, 1} : n <= k * zoomx => SliceLen(n) <= k
<1> DEFINE z == zoomx
           x == 2 * n + z
           q == x \div (2 * z)
<1>1. z \in Nat \ {0} /\ 2 * z \in Nat \ {0} /\ x \in Nat
  OBVIOUS
<1>2. q \in Nat /\ \A j \in Int : j <= q <=> j * (2 * z) <= x
  BY <1>1, Quotient
<1>3. SliceLen(n) = IF 2 * z > n THEN 2 ELSE q
  BY DEF SliceLen
<1> HIDE DEF q
<1>4. CASE 2 * z > n
  BY <1>3, <1>4
<1>5. CASE ~(2 * z > n)
  <2>1. 2 <= q
    <3>1. 2 * (2 * z) <= x
      BY <1>1, <1>5
    <3> QED BY <1>2, <3>1
  <2>2. ASSUME NEW k \in Nat, n <= k * z PROVE q <= k
    <3> DEFINE kz == k * z
    <3>1. kz \in Nat /\ (k + 1) * (2 * z) = 2 * kz + 2 * z
      BY <1>1
    <3> HIDE DEF kz
    <3>2. ~(2 * kz + 2 * z <= x)
      BY <1>1, <2>2, <3>1 DEF kz
    <3>3. k + 1 \in Int /\ ~(k + 1 <= q)
      BY <1>2, <3>1, <3>2
    <3> QED BY <1>2, <3>3
  <2>3. q <= n
    <3>1. n <= n * z
      <4>1. n \in Int /\ 1 <= z /\ z \in Int /\ 1 \in Int
        BY <1>1
      <4>2. 1 * n <= z * n
        BY <4>1, MultiplesOrdered
      <4> QED BY <1>1, <4>2
    <3> QED BY <2>2, <3>1
  <2> QED BY <1>2, <1>3, <1>5, <2>1, <2>2, <2>3
<1> QED BY <1>4, <1>5

\* The slice is inside the frames.
LEMMA SliceInside ==
  ASSUME NEW n \in Nat, n >= 2, zoomx \in Nat \ {0}, posx \in Positions
  PROVE  Zero(n) \in Nat /\ Zero(n) + SliceLen(n) <= n
<1> DEFINE d == n - SliceLen(n)
           x == d * posx
           q == x \div PosUnits
<1>1. SliceLen(n) \in 2 .. n
  BY SliceLenBound
<1>2. d \in Nat /\ posx \in Nat /\ posx <= PosUnits /\ PosUnits \in Nat \ {0}
  BY <1>1, InputAssumption DEF Positions
<1> HIDE DEF d
<1>3. x \in Nat
  BY <1>2
<1> HIDE DEF x
<1>4. q \in Nat /\ \A j \in Int : j <= q <=> j * PosUnits <= x
  BY <1>2, <1>3, Quotient
<1>5. Zero(n) = q
  BY DEF Zero, d, x
<1> HIDE DEF q
<1>6. ~(d + 1 <= q)
  <2>1. x <= d * PosUnits
    <3>1. posx * d <= PosUnits * d
      BY <1>2, MultiplesOrdered
    <3>2. posx * d = d * posx /\ PosUnits * d = d * PosUnits
      BY <1>2
    <3> QED BY <3>1, <3>2 DEF x
  <2> DEFINE dp == d * PosUnits
  <2>2. (d + 1) * PosUnits = dp + PosUnits /\ dp \in Nat
    BY <1>2
  <2> HIDE DEF dp
  <2>3. ~((d + 1) * PosUnits <= x)
    BY <1>2, <1>3, <2>1, <2>2 DEF dp
  <2>4. d + 1 \in Int
    BY <1>2
  <2> QED BY <1>4, <2>3, <2>4
<1>7. q <= d
  BY <1>2, <1>4, <1>6
<1> QED BY <1>1, <1>4, <1>5, <1>7 DEF d

\* What is shown is as long as the zoom says.
LEMMA ShownLen ==
  ASSUME LoadInv, CacheInv, phase = "view", Len(fd) >= 2
  PROVE  /\ Len(LevelFrames(Level)) \in Nat
         /\ Len(LevelFrames(Level)) >= 2
         /\ Len(Shown) = SliceLen(Len(LevelFrames(Level)))
<1> DEFINE s == LevelFrames(Level)
           n == Len(s)
<1>1. Level \in 0 .. Len(fdcache) /\ Len(fdcache) \in Nat
  BY LevelIs, LenProperties DEF CacheInv
<1>2. zoomx \in Nat \ {0} /\ posx \in Positions
  BY InputAssumption DEF CacheInv
<1>3. (\E S : s \in Seq(S)) /\ n \in Nat /\ n >= 2
  <2>1. CASE Level = 0
    BY <2>1, LenProperties DEF LevelFrames, LoadInv
  <2>2. CASE Level # 0
    <3>1. Level \in 1 .. Len(fdcache) /\ s = fdcache[Level]
      BY <1>1, <2>2 DEF LevelFrames
    <3>2. (\E S : s \in Seq(S)) /\ n \in Nat
      BY <3>1 DEF CacheInv
    <3>3. n > TotalCache * zoomx
      BY <2>2, <3>1, LevelIs
    <3>4. 3 * zoomx <= TotalCache * zoomx /\ TotalCache * zoomx \in Int
      BY <1>2, TotalCacheType, MultiplesOrdered
    <3> DEFINE m == TotalCache * zoomx
    <3> HIDE DEF m, n
    <3>5. n \in Nat /\ m \in Int /\ n > m /\ 3 * zoomx <= m
      BY <3>2, <3>3, <3>4 DEF m
    <3>6. n >= 2
      BY <1>2, <3>5
    <3> QED BY <3>2, <3>6 DEF n
  <2> QED BY <2>1, <2>2
<1> HIDE DEF s
<1>4. PICK S : s \in Seq(S)
  BY <1>3
<1> DEFINE a == Zero(n) + 1
           b == Zero(n) + SliceLen(n)
<1>5. Zero(n) \in Nat /\ Zero(n) + SliceLen(n) <= n /\ SliceLen(n) \in 2 .. n
  BY <1>2, <1>3, SliceInside, SliceLenBound
<1>6. a \in 1 .. n /\ b \in 1 .. n /\ a <= b /\ b - a + 1 = SliceLen(n)
  BY <1>3, <1>5
<1>7. Shown = SubSeq(s, a, b)
  BY DEF Shown, Slice, s
<1> HIDE DEF a, b
<1>8. Len(SubSeq(s, a, b)) = b - a + 1
  <2>1. \A i \in a .. b : s[i] \in S
    <3> SUFFICES ASSUME NEW i \in a .. b PROVE s[i] \in S
      OBVIOUS
    <3>1. i \in 1 .. Len(s)
      BY <1>3, <1>6
    <3> QED BY <1>4, <3>1, ElementOfSeq
  <2> QED BY <1>6, <2>1, SubSeqProperties
<1> QED BY <1>3, <1>6, <1>7, <1>8 DEF s

\* However long the recording and whatever the zoom, what a frame of the GUI
\* folds is bounded by the limits of its caches, as long as there is a coarser
\* one to take (draw).
THEOREM DrawingBounded == Spec => []WorkBounded
<1>1. ASSUME LoadInv, CacheInv, phase = "view", Len(fd) >= 2,
             ~(Len(fdcache) = MaxCaches /\ Level = MaxCaches)
      PROVE  Len(Shown) <= Max({Step * TotalCache, CacheMin}) + 1
  <2> DEFINE n == Len(LevelFrames(Level))
             k == Step * TotalCache
             l == Len(fdcache)
  <2>1. n \in Nat /\ n >= 2 /\ Len(Shown) = SliceLen(n)
    BY <1>1, ShownLen
  <2>2. Level \in 0 .. l /\ l \in Nat
    BY <1>1, LevelIs, LenProperties DEF CacheInv
  <2>3. zoomx \in Nat \ {0}
    BY <1>1, InputAssumption DEF CacheInv
  <2>4. k \in Nat /\ k >= 3
    <3>1. 1 * TotalCache <= Step * TotalCache
      BY TotalCacheType, MultiplesOrdered
    <3> QED BY <3>1, TotalCacheType
  <2>5. SliceLen(n) \in 2 .. n /\ (n <= k * zoomx => SliceLen(n) <= k)
    <3> HIDE DEF n, k
    <3>1. k \in Nat \ {0, 1}
      BY <2>4
    <3> QED BY <2>1, <2>3, <3>1, SliceLenBound
  <2>6. CASE Level < l
    <3>1. Level + 1 \in 1 .. l /\ Level + 1 > Level /\ (Level + 1) - 1 = Level
      BY <2>2, <2>6
    <3> DEFINE c == Len(fdcache[Level + 1])
               tz == TotalCache * zoomx
    <3>2. c \in Nat /\ n <= c * Step
      BY <1>1, <3>1 DEF CacheInv
    <3>3. ~(c > tz) /\ tz \in Int
      BY <1>1, <2>3, <3>1, LevelIs, TotalCacheType
    <3>4. c <= tz
      <4> HIDE DEF c, tz
      <4> QED BY <3>2, <3>3
    <3>5. c * Step <= tz * Step
      <4> HIDE DEF c, tz
      <4> QED BY <3>2, <3>3, <3>4, MultiplesOrdered
    <3>6. tz * Step = k * zoomx
      BY <2>3, TotalCacheType
    <3>7. c * Step \in Int /\ k * zoomx \in Int
      BY <2>3, <2>4, <3>2
    <3> DEFINE cs == c * Step
               kz == k * zoomx
    <3> HIDE DEF c, tz, n, k, cs, kz
    <3>8. n <= cs /\ cs <= kz /\ cs \in Int /\ kz \in Int
      BY <3>2, <3>5, <3>6, <3>7 DEF cs, kz
    <3>9. n <= kz
      BY <2>1, <3>8
    <3>10. SliceLen(n) <= k
      BY <2>5, <3>9 DEF kz
    <3>11. Max({k, CacheMin}) = IF k >= CacheMin THEN k ELSE CacheMin
      BY <2>4, MaxOfTwo
    <3> QED BY <2>1, <2>4, <2>5, <3>10, <3>11 DEF k
  <2>7. CASE Level = l
    <3>1. l # MaxCaches /\ fdcache # <<>>
      BY <1>1, <2>7 DEF CacheInv
    <3>2. l # 0 /\ Len(fdcache[l]) < CacheMin
      BY <1>1, <3>1, EmptySeq DEF CacheInv
    <3>3. n < CacheMin
      BY <2>7, <3>2 DEF LevelFrames
    <3> HIDE DEF n, k
    <3>4. Max({k, CacheMin}) = IF k >= CacheMin THEN k ELSE CacheMin
      BY <2>4, MaxOfTwo
    <3> QED BY <2>1, <2>4, <2>5, <3>3, <3>4 DEF k
  <2> QED BY <2>2, <2>6, <2>7
<1>2. LoadInv /\ CacheInv => WorkBounded
  BY <1>1, Zenon DEF WorkBounded
<1> QED BY <1>2, InitLoad, NextLoad, InitCache, NextCache, PTL DEF Spec
-----------------------------------------------------------------------------
(* Folds keep the order of the times.                                      *)

Ordered(s) ==
  /\ \E S : s \in Seq(S)
  /\ \A i \in 1 .. Len(s) : s[i].t \in Nat
  /\ InOrder(s)

Times(s) == [i \in DOMAIN s |-> s[i].t]

LEMMA TimesClimb ==
  ASSUME NEW s, Ordered(s)
  PROVE  /\ Len(s) \in Nat /\ DOMAIN s = 1 .. Len(s)
         /\ Times(s) \in Seq(Nat) /\ Len(Times(s)) = Len(s)
         /\ \A i \in 1 .. Len(s) : Times(s)[i] = s[i].t
         /\ Climbs(Times(s))
<1> DEFINE n == Len(s)
           t == Times(s)
<1>1. n \in Nat /\ DOMAIN s = 1 .. n
  BY LenProperties DEF Ordered
<1>2. t = [i \in 1 .. n |-> s[i].t] /\ \A i \in 1 .. n : s[i].t \in Nat
  BY <1>1 DEF Times, Ordered
<1> HIDE DEF n, t
<1>3. t \in [1 .. n -> Nat]
  BY <1>2
<1>4. t \in Seq(Nat) /\ Len(t) = n
  BY <1>1, <1>3
<1>5. \A i \in 1 .. n : t[i] = s[i].t
  BY <1>2
<1>6. Climbs(t)
  <2> SUFFICES ASSUME NEW i \in 2 .. n PROVE t[i - 1] <= t[i]
    BY <1>4 DEF Climbs
  <2>1. i \in 1 .. n /\ i - 1 \in 1 .. n
    BY <1>1
  <2>2. s[i - 1].t <= s[i].t
    BY DEF Ordered, InOrder, n
  <2> QED BY <1>5, <2>1, <2>2
<1> QED BY <1>1, <1>4, <1>5, <1>6 DEF n, t

\* The frames a .. b of s.
Part(r, s, a, b) ==
  /\ \E S : r \in Seq(S)
  /\ Len(r) = b - a + 1
  /\ \A i \in 1 .. b - a + 1 : r[i] = s[a + i - 1]

LEMMA PartIs ==
  ASSUME NEW s, Ordered(s), NEW a \in Nat \ {0}, NEW b \in Nat, a <= b, b <= Len(s)
  PROVE  Part(SubSeq(s, a, b), s, a, b)
<1>1. PICK S : s \in Seq(S)
  BY DEF Ordered
<1>2. Len(s) \in Nat /\ a \in 1 .. Len(s) + 1 /\ b \in a - 1 .. Len(s) /\ a <= b + 1
  BY <1>1, LenProperties
<1>3. ASSUME NEW i \in a .. b PROVE s[i] \in S
  <2>1. i \in 1 .. Len(s)
    BY <1>2
  <2> QED BY <1>1, <2>1, ElementOfSeq
<1>4. a \in Int /\ b \in Int
  OBVIOUS
<1>5. \A i \in a .. b : s[i] \in S
  BY <1>3
<1>6. SubSeq(s, a, b) \in Seq(S)
  BY <1>4, <1>5, SubSeqProperties
<1>7. Len(SubSeq(s, a, b)) = b - a + 1
  BY <1>4, <1>5, SubSeqProperties
<1>8. \A i \in 1 .. b - a + 1 : SubSeq(s, a, b)[i] = s[a + i - 1]
  BY <1>4, <1>5, SubSeqProperties
<1> QED BY <1>6, <1>7, <1>8, Zenon DEF Part

LEMMA PartOrdered ==
  ASSUME NEW s, Ordered(s), NEW a \in Nat \ {0}, NEW b \in Nat, a <= b, b <= Len(s)
  PROVE  Ordered(SubSeq(s, a, b))
<1> DEFINE r == SubSeq(s, a, b)
           m == b - a + 1
<1>1. (\E S : r \in Seq(S)) /\ Len(r) = m /\ \A i \in 1 .. m : r[i] = s[a + i - 1]
  <2>1. Part(r, s, a, b)
    BY PartIs
  <2> HIDE DEF r
  <2> QED BY <2>1, Zenon DEF Part
<1>2. Len(s) \in Nat /\ m \in Nat
  BY TimesClimb
<1> HIDE DEF r
<1>3. ASSUME NEW i \in 1 .. m PROVE r[i].t \in Nat
  <2>1. a + i - 1 \in 1 .. Len(s)
    BY <1>2
  <2> QED BY <1>1, <2>1 DEF Ordered
<1>4. ASSUME NEW i \in 2 .. m PROVE r[i - 1].t <= r[i].t
  <2>1. /\ i \in 1 .. m /\ i - 1 \in 1 .. m /\ a + i - 1 \in 2 .. Len(s)
        /\ a + (i - 1) - 1 = (a + i - 1) - 1
    BY <1>2
  <2>2. r[i] = s[a + i - 1] /\ r[i - 1] = s[(a + i - 1) - 1]
    BY <1>1, <2>1
  <2>3. s[(a + i - 1) - 1].t <= s[a + i - 1].t
    BY <2>1 DEF Ordered, InOrder
  <2> QED BY <2>2, <2>3
<1> HIDE DEF m
<1>5. InOrder(r)
  BY <1>1, <1>4 DEF InOrder
<1>6. \A i \in 1 .. Len(r) : r[i].t \in Nat
  BY <1>1, <1>3
<1>7. Ordered(r)
  BY <1>1, <1>5, <1>6 DEF Ordered
<1> QED BY <1>7 DEF r

\* The time of a fold, by the prefixes of the times.
LEMMA FoldTime ==
  ASSUME NEW s, Ordered(s), NEW a \in Nat \ {0}, NEW b \in Nat, a <= b, b <= Len(s),
         NEW p, PartialSums(p, Times(s))
  PROVE  FoldVec(SubSeq(s, a, b)).t = (p[b] - p[a - 1]) \div (b - a + 1)
<1> DEFINE r == SubSeq(s, a, b)
           m == b - a + 1
           t == Times(s)
           u == Times(r)
<1>1. Len(r) = m /\ \A i \in 1 .. m : r[i] = s[a + i - 1]
  BY PartIs DEF Part
<1>2. /\ Len(s) \in Nat /\ t \in Seq(Nat) /\ Len(t) = Len(s)
      /\ \A i \in 1 .. Len(s) : t[i] = s[i].t
  BY TimesClimb
<1>3. Ordered(r)
  BY PartOrdered
<1> HIDE DEF r
<1>4. /\ u \in Seq(Nat) /\ Len(u) = Len(r)
      /\ \A i \in 1 .. Len(r) : u[i] = r[i].t
  BY <1>3, TimesClimb
<1> HIDE DEF t, u
<1>5. \A i \in 1 .. m : u[i] = t[a + i - 1]
  <2> SUFFICES ASSUME NEW i \in 1 .. m PROVE u[i] = t[a + i - 1]
    OBVIOUS
  <2>1. a + i - 1 \in 1 .. Len(s)
    BY <1>2
  <2>2. u[i] = r[i].t /\ r[i] = s[a + i - 1] /\ t[a + i - 1] = s[a + i - 1].t
    BY <1>1, <1>2, <1>4, <2>1
  <2> QED BY <2>2
<1>6. t \in Seq(Int) /\ u \in Seq(Int)
  <2>1. Nat \subseteq Int
    OBVIOUS
  <2> QED BY <1>2, <1>4, <2>1, SeqMonotonic
<1>7. Sum(u) = p[b] - p[a - 1]
  <2>1. /\ a <= b + 1 /\ b <= Len(t) /\ Len(u) = b - a + 1 /\ PartialSums(p, t)
        /\ \A i \in 1 .. b - a + 1 : u[i] = t[a + i - 1]
    BY <1>1, <1>2, <1>4, <1>5 DEF t
  <2> HIDE DEF m
  <2> QED BY <1>6, <2>1, SumOfPart
<1>8. FoldVec(r).t = Sum(u) \div Len(r)
  BY DEF FoldVec, Sum, u, Times
<1> QED BY <1>1, <1>7, <1>8 DEF r

\* Windows lo[k] .. hi[k] of n frames of which neither end goes back.
Forward(lo, hi, m, n) ==
  /\ \A k \in 1 .. m : /\ lo[k] \in Nat \ {0} /\ hi[k] \in Nat
                       /\ lo[k] <= hi[k] /\ hi[k] <= n
  /\ \A k \in 2 .. m : lo[k - 1] <= lo[k] /\ hi[k - 1] <= hi[k]

\* Their folds are in order.
LEMMA FoldsOrdered ==
  ASSUME NEW s, Ordered(s), NEW m \in Nat, NEW lo, NEW hi, NEW f,
         f = [k \in 1 .. m |-> FoldVec(SubSeq(s, lo[k], hi[k]))], Forward(lo, hi, m, Len(s))
  PROVE  Ordered(f) /\ Len(f) = m
<1> DEFINE t == Times(s)
           S == {f[k] : k \in 1 .. m}
<1>1. t \in Seq(Nat) /\ Climbs(t) /\ Len(t) = Len(s)
  BY TimesClimb
<1>2. PICK p : PartialSums(p, t)
  <2>1. Nat \subseteq Int
    OBVIOUS
  <2>2. t \in Seq(Int)
    BY <1>1, <2>1, SeqMonotonic
  <2> HIDE DEF t
  <2> QED BY <2>2, SumPrefixes
<1>3. ASSUME NEW k \in 1 .. m
      PROVE  f[k].t = (p[hi[k]] - p[lo[k] - 1]) \div (hi[k] - lo[k] + 1)
  <2> DEFINE a == lo[k]
             b == hi[k]
  <2>1. f[k] = FoldVec(SubSeq(s, a, b))
    OBVIOUS
  <2>2. a \in Nat \ {0} /\ b \in Nat /\ a <= b /\ b <= Len(s)
    BY DEF Forward
  <2> HIDE DEF a, b
  <2>3. FoldVec(SubSeq(s, a, b)).t = (p[b] - p[a - 1]) \div (b - a + 1)
    BY <1>2, <2>2, FoldTime
  <2> QED BY <2>1, <2>3 DEF a, b
<1>4. f \in [1 .. m -> S]
  OBVIOUS
<1>5. f \in Seq(S) /\ Len(f) = m
  <2> HIDE DEF S
  <2> QED BY <1>4
<1> HIDE DEF S, t
<1>6. ASSUME NEW k \in 1 .. m PROVE f[k].t \in Nat
  <2> DEFINE a == lo[k]
             b == hi[k]
             x == p[b] - p[a - 1]
             d == b - a + 1
  <2>1. a \in Nat \ {0} /\ b \in Nat /\ a <= b /\ b <= Len(t) /\ a <= a /\ b <= b
    BY <1>1 DEF Forward
  <2>2. x \in Nat
    <3> HIDE DEF a, b
    <3> QED BY <1>1, <1>2, <2>1, MeansOrdered
  <2>3. d \in Nat \ {0} /\ f[k].t = x \div d
    BY <1>3, <2>1
  <2> HIDE DEF x, d
  <2> QED BY <2>2, <2>3, Quotient
<1>7. ASSUME NEW k \in 2 .. m PROVE f[k - 1].t <= f[k].t
  <2>1. k \in 1 .. m /\ k - 1 \in 1 .. m
    OBVIOUS
  <2> DEFINE a == lo[k - 1]
             b == hi[k - 1]
             c == lo[k]
             d == hi[k]
  <2>2. /\ a \in Nat \ {0} /\ b \in Nat /\ c \in Nat \ {0} /\ d \in Nat
        /\ a <= b /\ c <= d /\ a <= c /\ b <= d /\ d <= Len(t)
    BY <1>1, <2>1 DEF Forward
  <2>3. /\ f[k - 1].t = (p[b] - p[a - 1]) \div (b - a + 1)
        /\ f[k].t = (p[d] - p[c - 1]) \div (d - c + 1)
    BY <1>3, <2>1
  <2> HIDE DEF a, b, c, d
  <2>4. (p[b] - p[a - 1]) \div (b - a + 1) <= (p[d] - p[c - 1]) \div (d - c + 1)
    BY <1>1, <1>2, <2>2, MeansOrdered
  <2> QED BY <2>3, <2>4
<1>8. InOrder(f)
  BY <1>5, <1>7 DEF InOrder
<1>9. \A i \in 1 .. Len(f) : f[i].t \in Nat
  BY <1>5, <1>6
<1> QED BY <1>5, <1>8, <1>9 DEF Ordered
LEMMA IterFoldOrdered ==
  ASSUME NEW s, Ordered(s)
  PROVE  Ordered(IterFold(s))
<1> DEFINE n == Len(s)
           m == Count(Window, Step, n)
           lo == [k \in 1 .. m |-> Low(Window, Step, n, k)]
           hi == [k \in 1 .. m |-> High(Step, n, k)]
           f == IterFold(s)
<1>1. n \in Nat /\ m \in Nat
  BY TimesClimb, CountCovers
<1>2. f = [k \in 1 .. m |-> FoldVec(SubSeq(s, lo[k], hi[k]))]
  BY DEF IterFold
<1>3. ASSUME NEW k \in 1 .. m
      PROVE  /\ lo[k] \in Nat \ {0} /\ hi[k] \in Nat
             /\ lo[k] <= hi[k] /\ hi[k] <= n
  <2> DEFINE j == k - 1
  <2>1. j \in Nat /\ j + 1 = k /\ j + 1 <= m
    BY <1>1
  <2> HIDE DEF j, n
  <2>2. /\ Low(Window, Step, n, j + 1) \in Nat \ {0} /\ High(Step, n, j + 1) \in Nat
        /\ Low(Window, Step, n, j + 1) <= High(Step, n, j + 1) /\ High(Step, n, j + 1) <= n
    BY <1>1, <2>1, WindowInside
  <2> QED BY <2>1, <2>2
<1>4. ASSUME NEW k \in 2 .. m PROVE lo[k - 1] <= lo[k] /\ hi[k - 1] <= hi[k]
  <2> DEFINE j == k - 2
  <2>1. j \in Nat /\ j + 1 = k - 1 /\ j + 2 = k /\ k \in 1 .. m /\ k - 1 \in 1 .. m
    BY <1>1
  <2> HIDE DEF j, n
  <2>2. /\ Low(Window, Step, n, j + 1) <= Low(Window, Step, n, j + 2)
        /\ High(Step, n, j + 1) <= High(Step, n, j + 2)
    BY <1>1, <2>1, WindowForward
  <2> QED BY <2>1, <2>2
<1> HIDE DEF lo, hi, m, f
<1>5. Forward(lo, hi, m, n)
  BY <1>3, <1>4 DEF Forward
<1>6. Ordered(f)
  BY <1>1, <1>2, <1>5, FoldsOrdered
<1> QED BY <1>6 DEF f

LEMMA ChunksOrdered ==
  ASSUME NEW s, Ordered(s), NEW step \in Nat \ {0}
  PROVE  /\ Ordered(Chunks(s, step))
         /\ Len(Chunks(s, step)) = (Len(s) + step - 1) \div step
<1> DEFINE n == Len(s)
           m == (n + step - 1) \div step
           lo == [k \in 1 .. m |-> (k - 1) * step + 1]
           hi == [k \in 1 .. m |-> Min({k * step, n})]
           f == Chunks(s, step)
<1>1. n \in Nat
  BY TimesClimb
<1>2. m \in Nat /\ \A k \in Nat : k + 1 <= m <=> k * step < n
  <2>1. m = Pulls(step, n)
    BY DEF Pulls
  <2> HIDE DEF m, n
  <2> QED BY <1>1, <2>1, PullsFind
<1>3. f = [k \in 1 .. m |-> FoldVec(SubSeq(s, lo[k], hi[k]))]
  BY DEF Chunks
<1> HIDE DEF m, n
<1>4. ASSUME NEW k \in 1 .. m
      PROVE  /\ (k - 1) * step \in Nat /\ (k - 1) * step < n
             /\ k * step = (k - 1) * step + step
             /\ lo[k] = (k - 1) * step + 1
             /\ hi[k] = IF (k - 1) * step + step <= n THEN (k - 1) * step + step ELSE n
  <2> DEFINE j == k - 1
  <2>1. j \in Nat /\ j + 1 = k /\ j + 1 <= m
    BY <1>2
  <2>2. j * step < n
    BY <1>2, <2>1
  <2>3. k * step = j * step + step /\ j * step \in Nat
    <3> HIDE DEF j
    <3>1. (j + 1) * step = j * step + step /\ j * step \in Nat
      BY <2>1
    <3> QED BY <2>1, <3>1
  <2>4. hi[k] = IF k * step <= n THEN k * step ELSE n
    <3>1. k * step \in Int
      BY <2>3
    <3> QED BY <1>1, <3>1, MinOfTwo
  <2> QED BY <2>2, <2>3, <2>4
<1>5. ASSUME NEW k \in 1 .. m
      PROVE  /\ lo[k] \in Nat \ {0} /\ hi[k] \in Nat
             /\ lo[k] <= hi[k] /\ hi[k] <= n
  <2> DEFINE js == (k - 1) * step
  <2>1. js \in Nat /\ js < n /\ lo[k] = js + 1
        /\ hi[k] = IF js + step <= n THEN js + step ELSE n
    BY <1>4
  <2> HIDE DEF js, lo, hi
  <2> QED BY <1>1, <2>1
<1>6. ASSUME NEW k \in 2 .. m PROVE lo[k - 1] <= lo[k] /\ hi[k - 1] <= hi[k]
  <2> DEFINE j == k - 1
             is == (j - 1) * step
             js == (k - 1) * step
  <2>1. k \in 1 .. m /\ j \in 1 .. m
    BY <1>2
  <2>2. /\ is \in Nat /\ j * step = is + step /\ lo[j] = is + 1
        /\ hi[j] = IF is + step <= n THEN is + step ELSE n
    BY <1>4, <2>1
  <2>3. /\ js \in Nat /\ lo[k] = js + 1
        /\ hi[k] = IF js + step <= n THEN js + step ELSE n
    BY <1>4, <2>1
  <2>4. js = j * step
    OBVIOUS
  <2> HIDE DEF is, js, lo, hi
  <2>5. lo[j] <= lo[k] /\ hi[j] <= hi[k]
    BY <1>1, <2>2, <2>3, <2>4
  <2> QED BY <2>5
<1> HIDE DEF lo, hi, f
<1>7. Forward(lo, hi, m, n)
  BY <1>5, <1>6 DEF Forward
<1>8. Ordered(f) /\ Len(f) = m
  BY <1>2, <1>3, <1>7, FoldsOrdered DEF n
<1> QED BY <1>8 DEF f, m, n

LEMMA WindowsOrdered ==
  ASSUME NEW s, Ordered(s), NEW size \in Nat \ {0}, size <= Len(s)
  PROVE  /\ Ordered(WindowsOf(s, size))
         /\ Len(WindowsOf(s, size)) = Len(s) - size + 1
<1> DEFINE n == Len(s)
           m == n - size + 1
           lo == [k \in 1 .. m |-> k]
           hi == [k \in 1 .. m |-> k + size - 1]
           f == WindowsOf(s, size)
<1>1. n \in Nat /\ m \in Nat
  BY TimesClimb
<1>2. f = [k \in 1 .. m |-> FoldVec(SubSeq(s, lo[k], hi[k]))]
  BY DEF WindowsOf
<1>3. ASSUME NEW k \in 1 .. m
      PROVE  /\ lo[k] \in Nat \ {0} /\ hi[k] \in Nat
             /\ lo[k] <= hi[k] /\ hi[k] <= n
  BY <1>1
<1>4. ASSUME NEW k \in 2 .. m PROVE lo[k - 1] <= lo[k] /\ hi[k - 1] <= hi[k]
  <2>1. k \in 1 .. m /\ k - 1 \in 1 .. m
    BY <1>1
  <2> QED BY <2>1
<1> HIDE DEF lo, hi, m, f
<1>5. Forward(lo, hi, m, n)
  BY <1>3, <1>4 DEF Forward
<1>6. Ordered(f) /\ Len(f) = m
  BY <1>1, <1>2, <1>5, FoldsOrdered DEF n
<1> QED BY <1>6 DEF f, m, n

\* From two frames on some points are left of a slice, in order.
LEMMA DrawnOrdered ==
  ASSUME NEW s, Ordered(s), Len(s) >= 2
  PROVE  Ordered(Drawn(s)) /\ Len(Drawn(s)) >= 1
<1> DEFINE n == Len(s)
           q == n \div Limit
           step == ChunkStep(n)
           size == SubStep(n)
           m == (n + step - 1) \div step
           r == (n * SubLimit) \div Limit
<1>1. n \in Nat /\ n >= 2 /\ Limit \in Nat \ {0} /\ SubLimit <= Limit
  BY TimesClimb
<1>2. q \in Nat /\ \A k \in Int : k <= q <=> k * Limit <= n
  <2> HIDE DEF n
  <2> QED BY <1>1, Quotient
<1>3. n * SubLimit \in Nat
  <2> HIDE DEF n
  <2> QED BY <1>1
<1>4. r \in Nat /\ \A k \in Int : k <= r <=> k * Limit <= n * SubLimit
  <2> HIDE DEF n
  <2> QED BY <1>1, <1>3, Quotient
<1> HIDE DEF n, q, r
<1>5. step = (IF q >= 1 THEN q ELSE 1) /\ step \in Nat \ {0}
  <2>1. step = Max({q, 1})
    BY DEF ChunkStep, q
  <2> QED BY <1>2, <2>1, MaxOfTwo
<1>6. /\ size \in Nat \ {0}
      /\ size <= SubLimit
      /\ size <= r \/ size = 1
  <2> DEFINE i == Min({r, SubLimit})
  <2>1. i = IF r <= SubLimit THEN r ELSE SubLimit
    BY <1>4, MinOfTwo
  <2>2. size = Max({i, 1})
    BY DEF SubStep, r
  <2> HIDE DEF i, size
  <2>3. i \in Nat
    BY <1>4, <2>1
  <2>4. size = IF i >= 1 THEN i ELSE 1
    BY <2>2, <2>3, MaxOfTwo
  <2> QED BY <2>1, <2>3, <2>4
<1> HIDE DEF step, size
<1>7. m \in Nat /\ \A k \in Int : k <= m <=> k * step <= n + step - 1
  <2>1. n + step - 1 \in Nat
    BY <1>1, <1>5
  <2> QED BY <1>5, <2>1, Quotient
<1> HIDE DEF m
<1>8. size <= m
  <2>1. CASE q >= 1
    <3>1. q * Limit <= n
      <4>1. q <= q /\ q \in Int
        BY <1>2
      <4> QED BY <1>2, <4>1
    <3> DEFINE lq == Limit * q
    <3>2. lq = q * Limit /\ lq \in Nat
      BY <1>1, <1>2
    <3> HIDE DEF lq
    <3>3. lq <= n + step - 1
      BY <1>1, <1>5, <3>1, <3>2
    <3>4. Limit * step <= n + step - 1
      BY <1>5, <2>1, <3>3 DEF lq
    <3>5. Limit <= m
      BY <1>1, <1>7, <3>4
    <3> QED BY <1>1, <1>6, <1>7, <3>5
  <2>2. CASE ~(q >= 1)
    <3>1. step = 1
      BY <1>5, <2>2
    <3>2. n * step <= n + step - 1 /\ n \in Int
      BY <1>1, <3>1
    <3>3. n <= m
      BY <1>7, <3>2
    <3>4. ~(n + 1 <= r)
      <4>1. SubLimit * n <= Limit * n
        BY <1>1, MultiplesOrdered
      <4> DEFINE nl == n * Limit
                 ns == n * SubLimit
      <4>2. (n + 1) * Limit = nl + Limit /\ nl \in Nat /\ ns \in Nat
            /\ SubLimit * n = ns /\ Limit * n = nl
        BY <1>1
      <4> HIDE DEF nl, ns
      <4>3. ~((n + 1) * Limit <= ns)
        BY <1>1, <4>1, <4>2
      <4>4. n + 1 \in Int
        BY <1>1
      <4> QED BY <1>4, <4>3, <4>4 DEF ns
    <3>5. size <= n
      BY <1>1, <1>4, <1>6, <3>4
    <3> QED BY <1>1, <1>6, <1>7, <3>3, <3>5
  <2> QED BY <2>1, <2>2
<1> DEFINE c == Chunks(s, step)
<1>9. Ordered(c) /\ Len(c) = m
  BY <1>5, ChunksOrdered DEF m, n
<1> HIDE DEF c
<1>10. Ordered(WindowsOf(c, size)) /\ Len(WindowsOf(c, size)) = m - size + 1
  BY <1>6, <1>8, <1>9, WindowsOrdered
<1>11. Drawn(s) = WindowsOf(c, size)
  BY DEF Drawn, c, step, size, n
<1> QED BY <1>6, <1>7, <1>8, <1>10, <1>11

-----------------------------------------------------------------------------
(* Drawing.                                                                *)

LoadedInOrder == FileInOrder => Ordered(fd)

\* The caches keep the order of the file.
OrderInv == FileInOrder => \A l \in 1 .. Len(fdcache) : Ordered(fdcache[l])

LEMMA FdOrdered == LoadInv => LoadedInOrder
<1> SUFFICES ASSUME LoadInv, FileInOrder PROVE Ordered(fd)
  BY DEF LoadedInOrder
<1>1. fd \in Seq(Frame) /\ Chained(fd, Upward) /\ Len(fd) \in Nat
  BY LenProperties DEF LoadInv
<1>2. ASSUME NEW i \in 1 .. Len(fd) PROVE fd[i].t \in Nat
  <2>1. fd[i] \in Frame
    BY <1>1, ElementOfSeq
  <2> QED BY <2>1 DEF Frame
<1>3. ASSUME NEW i \in 2 .. Len(fd) PROVE fd[i - 1].t <= fd[i].t
  <2>1. i \in 1 .. Len(fd) /\ i - 1 \in 1 .. Len(fd)
    BY <1>1
  <2>2. <<fd[i - 1].t, fd[i].t>> \in Upward
    BY <1>1 DEF Chained
  <2> QED BY <1>2, <2>1, <2>2, NearUpward
<1> QED BY <1>1, <1>2, <1>3 DEF Ordered, InOrder

LEMMA InitOrder == Init => OrderInv
<1> SUFFICES ASSUME Init PROVE OrderInv
  OBVIOUS
<1>1. Len(fdcache) = 0
  BY EmptySeq DEF Init
<1> QED BY <1>1 DEF OrderInv

LEMMA NextOrder == LoadInv /\ CacheInv /\ OrderInv /\ [Next]_vars => OrderInv'
<1> SUFFICES ASSUME LoadInv, CacheInv, OrderInv, [Next]_vars, FileInOrder'
             PROVE  \A l \in 1 .. Len(fdcache') : Ordered(fdcache'[l])
  BY DEF OrderInv
<1>1. file' = file
  BY DEF Next, Load, ReadFrame, Loaded, AddCache, ZoomXSliderChanged, PosDXSliderChanged,
         Tick, vars
<1>2. FileInOrder
  BY <1>1 DEF FileInOrder
<1>3. CASE AddCache
  <2> DEFINE n == Len(fdcache)
             from == IF fdcache = <<>> THEN fd ELSE Last(fdcache)
             cache == IterFold(from)
  <2>1. PICK S : fdcache \in Seq(S)
    BY DEF CacheInv
  <2>2. n \in Nat /\ (fdcache = <<>> <=> n = 0)
    BY <2>1, LenProperties, EmptySeq
  <2>3. fdcache' = Append(fdcache, cache)
    BY <1>3 DEF AddCache
  <2>4. Ordered(from)
    <3>1. CASE n = 0
      BY <1>2, <2>2, <3>1, FdOrdered DEF LoadedInOrder
    <3>2. CASE n # 0
      <4>1. n \in 1 .. n /\ from = fdcache[n]
        BY <2>2, <3>2 DEF Last
      <4> QED BY <1>2, <4>1 DEF OrderInv
    <3> QED BY <3>1, <3>2
  <2> HIDE DEF from
  <2>5. Ordered(cache)
    BY <2>4, IterFoldOrdered
  <2> HIDE DEF cache
  <2>6. /\ Len(fdcache') = n + 1 /\ fdcache'[n + 1] = cache
        /\ \A k \in 1 .. n : fdcache'[k] = fdcache[k]
    <3> DEFINE T == S \cup {cache}
    <3>1. fdcache \in Seq(T) /\ cache \in T
      BY <2>1, SeqMonotonic
    <3> HIDE DEF T
    <3> QED BY <2>3, <3>1, AppendProperties
  <2>7. ASSUME NEW l \in 1 .. n + 1 PROVE Ordered(fdcache'[l])
    <3>1. l = n + 1 \/ l \in 1 .. n
      BY <2>2
    <3> QED BY <1>2, <2>5, <2>6, <3>1 DEF OrderInv
  <2> QED BY <2>6, <2>7
<1>4. CASE ~AddCache
  <2>1. fdcache' = fdcache
    BY <1>4 DEF Next, Load, ReadFrame, Loaded, ZoomXSliderChanged, PosDXSliderChanged,
                Tick, vars
  <2> QED BY <1>2, <2>1 DEF OrderInv
<1> QED BY <1>3, <1>4

\* Drawing does not panic (draw): the slice is inside the frames of its level,
\* for every zoom and position, some points are left of it, and the first of
\* them is not later than the last, because means of windows that slide forward
\* over times in order are in order, cache upon cache.
THEOREM DrawingNeverPanics == Spec => []NoPanic
<1>1. ASSUME LoadInv, CacheInv, OrderInv, phase = "view", Len(fd) >= 2, FileInOrder
      PROVE  LET n == Len(LevelFrames(Level)) IN
             /\ SliceLen(n) <= n /\ Zero(n) + SliceLen(n) <= n
             /\ Points # <<>> /\ Head(Points).t <= Last(Points).t
  <2> DEFINE s == LevelFrames(Level)
             n == Len(s)
             a == Zero(n) + 1
             b == Zero(n) + SliceLen(n)
             l == Len(Points)
  <2>1. n \in Nat /\ n >= 2 /\ Len(Shown) = SliceLen(n)
    BY <1>1, ShownLen
  <2>2. zoomx \in Nat \ {0} /\ posx \in Positions
    BY <1>1, InputAssumption DEF CacheInv
  <2>3. SliceLen(n) \in 2 .. n /\ Zero(n) \in Nat /\ Zero(n) + SliceLen(n) <= n
    <3> HIDE DEF n
    <3> QED BY <2>1, <2>2, SliceLenBound, SliceInside
  <2>4. Ordered(s)
    <3>1. Level \in 0 .. Len(fdcache) /\ Len(fdcache) \in Nat
      BY <1>1, LevelIs, LenProperties DEF CacheInv
    <3>2. CASE Level = 0
      BY <1>1, <3>2, FdOrdered DEF LevelFrames, LoadedInOrder
    <3>3. CASE Level # 0
      <4>1. Level \in 1 .. Len(fdcache)
        BY <3>1, <3>3
      <4> QED BY <1>1, <3>3, <4>1 DEF LevelFrames, OrderInv
    <3> QED BY <3>2, <3>3
  <2>5. Shown = SubSeq(s, a, b)
    BY DEF Shown, Slice
  <2> HIDE DEF s
  <2>6. a \in Nat \ {0} /\ b \in Nat /\ a <= b /\ b <= n
    <3> HIDE DEF n
    <3> QED BY <2>1, <2>3
  <2>7. Ordered(Shown)
    <3> HIDE DEF a, b
    <3> QED BY <2>4, <2>5, <2>6, PartOrdered
  <2>8. Len(Shown) >= 2
    <3> HIDE DEF n
    <3> QED BY <2>1, <2>3
  <2>9. Ordered(Points) /\ l >= 1
    BY <2>7, <2>8, DrawnOrdered DEF Points
  <2>10. /\ l \in Nat /\ Times(Points) \in Seq(Nat) /\ Len(Times(Points)) = l
         /\ \A i \in 1 .. l : Times(Points)[i] = Points[i].t
         /\ Climbs(Times(Points))
    BY <2>9, TimesClimb
  <2>11. Points # <<>> /\ Head(Points) = Points[1] /\ Last(Points) = Points[l]
    <3>1. PICK S : Points \in Seq(S)
      BY <2>9 DEF Ordered
    <3>2. Len(Points) # 0
      BY <2>9
    <3>3. Points # <<>>
      BY <3>1, <3>2, EmptySeq
    <3> HIDE DEF l
    <3> QED BY <3>1, <3>3, HeadTailProperties DEF Last, l
  <2>12. Points[1].t <= Points[l].t
    <3>1. 1 \in 1 .. l /\ l \in 1 .. l /\ 1 <= l
      BY <2>9, <2>10
    <3>2. Times(Points)[1] <= Times(Points)[l]
      BY <2>10, <3>1, ClimbsFar
    <3> QED BY <2>10, <3>1, <3>2
  <2>13. SliceLen(n) <= n
    BY <2>3
  <2> HIDE DEF l
  <2> QED BY <2>3, <2>11, <2>12, <2>13 DEF n, s
<1>2. LoadInv /\ CacheInv /\ OrderInv => NoPanic
  BY <1>1, Zenon DEF NoPanic
<1> QED BY <1>2, InitLoad, NextLoad, InitCache, NextCache, InitOrder, NextOrder, PTL DEF Spec

-----------------------------------------------------------------------------
(* What a fold stands for.                                                 *)

FoldSize == [stride : Nat \ {0}, span : Nat \ {0}]
Coarser(f) == [stride |-> Step * f.stride, span |-> f.span + (Window - 1) * f.stride]

LEMMA CoarserType == ASSUME NEW f \in FoldSize PROVE Coarser(f) \in FoldSize
<1>1. f.stride \in Nat \ {0} /\ f.span \in Nat \ {0}
  BY DEF FoldSize
<1>2. Step * f.stride \in Nat \ {0}
  BY <1>1
<1>3. (Window - 1) * f.stride \in Nat
  <2>1. Window - 1 \in Nat
    OBVIOUS
  <2> QED BY <1>1, <2>1
<1>4. f.span + (Window - 1) * f.stride \in Nat \ {0}
  <2> DEFINE x == (Window - 1) * f.stride
  <2> HIDE DEF x
  <2>1. x \in Nat
    BY <1>3 DEF x
  <2> QED BY <1>1, <2>1 DEF x
<1> QED BY <1>2, <1>4 DEF Coarser, FoldSize

\* FoldOf is what its definition says.
LEMMA FoldOfIs ==
  /\ FoldOf[0] = [stride |-> 1, span |-> 1]
  /\ \A l \in 1 .. MaxCaches : FoldOf[l] = Coarser(FoldOf[l - 1])
  /\ \A l \in 0 .. MaxCaches : FoldOf[l] \in FoldSize
<1> DEFINE A == FoldSize
           a == [stride |-> 1, span |-> 1]
           n == MaxCaches
           F == [q \in A \X (1 .. n) |-> Coarser(q[1])]
<1>1. a \in A
  BY DEF FoldSize
<1>2. F \in [A \X (1 .. n) -> A]
  BY CoarserType
<1>3. n \in Nat
  OBVIOUS
<1> HIDE DEF a, A
<1>4. PICK iter : Running(iter, A, a, F, n)
  <2> HIDE DEF F, n
  <2> QED BY <1>1, <1>2, <1>3, FoldingExists, FoldingValues
<1> DEFINE f == [l \in 0 .. n |-> iter[1 .. l]]
<1>5. f[0] = a /\ \A l \in 0 .. n : f[l] \in A
  BY <1>3, <1>4 DEF Running
<1>6. ASSUME NEW l \in 1 .. n PROVE f[l] = Coarser(f[l - 1])
  <2>1. l - 1 \in 0 .. n /\ l \in 0 .. n
    BY <1>3
  <2>2. f[l] = iter[1 .. l] /\ f[l - 1] = iter[1 .. (l - 1)]
    BY <2>1
  <2>3. iter[1 .. l] = F[<<iter[1 .. (l - 1)], l>>] /\ iter[1 .. (l - 1)] \in A
    BY <1>4, <2>1 DEF Running
  <2>4. F[<<iter[1 .. (l - 1)], l>>] = Coarser(iter[1 .. (l - 1)])
    BY <2>3
  <2> QED BY <2>2, <2>3, <2>4
<1> DEFINE G(g) == [l \in 0 .. n |-> IF l = 0 THEN a ELSE Coarser(g[l - 1])]
<1>7. f = G(f)
  <2>1. ASSUME NEW l \in 0 .. n PROVE f[l] = IF l = 0 THEN a ELSE Coarser(f[l - 1])
    <3>1. l = 0 \/ l \in 1 .. n
      BY <1>3
    <3> QED BY <1>5, <1>6, <3>1
  <2> HIDE DEF n
  <2> QED BY <2>1
<1> HIDE DEF f
<1>8. FoldOf = CHOOSE g : g = G(g)
  BY Zenon DEF FoldOf, Coarser, a
<1>9. FoldOf = G(FoldOf)
  <2> HIDE DEF G
  <2> QED BY <1>7, <1>8, Zenon
<1>10. FoldOf[0] = a /\ \A l \in 1 .. n : FoldOf[l] = Coarser(FoldOf[l - 1])
  <2>1. \A l \in 0 .. n : FoldOf[l] = IF l = 0 THEN a ELSE Coarser(FoldOf[l - 1])
    BY <1>9
  <2>2. 0 \in 0 .. n /\ \A l \in 1 .. n : l \in 0 .. n /\ l # 0
    BY <1>3
  <2> QED BY <2>1, <2>2
<1>11. \A l \in 0 .. n : FoldOf[l] \in A
  <2> DEFINE S == {l \in Nat : l <= n => FoldOf[l] \in A}
  <2>1. 0 \in S
    BY <1>1, <1>10
  <2>2. ASSUME NEW l \in S PROVE l + 1 \in S
    <3>1. l \in Nat /\ (l + 1) - 1 = l /\ (l + 1 <= n => l + 1 \in 1 .. n /\ l <= n)
      BY <1>3
    <3>2. l + 1 <= n => FoldOf[l + 1] = Coarser(FoldOf[l]) /\ FoldOf[l] \in A
      BY <1>10, <3>1
    <3>3. l + 1 <= n => FoldOf[l + 1] \in A
      BY <3>2, CoarserType DEF A
    <3> QED BY <3>1, <3>3
  <2> HIDE DEF S
  <2>3. S = Nat
    <3>1. S \in SUBSET Nat
      BY DEF S
    <3> QED BY <2>1, <2>2, <3>1, SetInduction
  <2> QED BY <1>3, <2>3 DEF S
<1> QED BY <1>10, <1>11 DEF a, A

\* Frames that were folded from some of N.
Among(s, N) ==
  /\ \E S : s \in Seq(S)
  /\ \A i \in 1 .. Len(s) : s[i].from \in Nat /\ s[i].to \in 0 .. N

\* A frame from the first to the last of those of the frames a .. b of s.
Reaches(f, s, a, b) ==
  /\ \E i \in a .. b : f.from = s[i].from
  /\ \E i \in a .. b : f.to = s[i].to
  /\ \A i \in a .. b : f.from <= s[i].from /\ s[i].to <= f.to

LEMMA FoldEnds ==
  ASSUME NEW s, NEW N \in Nat, Among(s, N), NEW a \in Nat \ {0}, NEW b \in Nat,
         a <= b, b <= Len(s)
  PROVE  Reaches(FoldVec(SubSeq(s, a, b)), s, a, b)
<1> DEFINE r == SubSeq(s, a, b)
           f == FoldVec(r)
           T == {g.from : g \in ToSet(r)}
           U == {g.to : g \in ToSet(r)}
<1>1. PICK S : s \in Seq(S)
  BY DEF Among
<1>2. Len(s) \in Nat
  BY <1>1, LenProperties
<1>3. \A i \in a .. b : i \in 1 .. Len(s) /\ s[i] \in S
  <2>1. \A i \in a .. b : i \in 1 .. Len(s)
    BY <1>2
  <2> QED BY <1>1, <2>1, ElementOfSeq
<1>4. /\ r \in Seq(S) /\ Len(r) = b - a + 1
      /\ \A i \in 1 .. b - a + 1 : r[i] = s[a + i - 1]
  BY <1>3, SubSeqProperties
<1> HIDE DEF r
<1>5. DOMAIN r = 1 .. b - a + 1
  BY <1>4, LenProperties
<1>6. ASSUME NEW g PROVE g \in ToSet(r) <=> \E i \in a .. b : g = s[i]
  <2>1. ToSet(r) = {r[i] : i \in 1 .. b - a + 1}
    BY <1>5 DEF ToSet
  <2>2. ASSUME NEW i \in 1 .. b - a + 1 PROVE a + i - 1 \in a .. b /\ r[i] = s[a + i - 1]
    BY <1>4
  <2>3. ASSUME NEW i \in a .. b PROVE i - a + 1 \in 1 .. b - a + 1 /\ r[i - a + 1] = s[i]
    <3>1. i - a + 1 \in 1 .. b - a + 1 /\ a + (i - a + 1) - 1 = i
      OBVIOUS
    <3> QED BY <1>4, <3>1
  <2>4. ASSUME g \in ToSet(r) PROVE \E i \in a .. b : g = s[i]
    <3>1. PICK i \in 1 .. b - a + 1 : g = r[i]
      BY <2>1, <2>4
    <3> QED BY <2>2, <3>1
  <2>5. ASSUME NEW i \in a .. b, g = s[i] PROVE g \in ToSet(r)
    BY <2>1, <2>3, <2>5
  <2> QED BY <2>4, <2>5
<1>7. T \in SUBSET Nat /\ U \in SUBSET (0 .. N)
  <2>1. \A g \in ToSet(r) : g.from \in Nat /\ g.to \in 0 .. N
    BY <1>3, <1>6 DEF Among
  <2> QED BY <2>1
<1>8. a \in a .. b
  OBVIOUS
<1>9. \A i \in a .. b : s[i].from \in T /\ s[i].to \in U
  BY <1>6
<1>10. T # {} /\ U # {}
  BY <1>8, <1>9
<1>11. f.from = Min(T) /\ f.to = Max(U)
  BY DEF FoldVec
<1>12. (\A x \in T : \E i \in a .. b : x = s[i].from)
       /\ (\A x \in U : \E i \in a .. b : x = s[i].to)
  BY <1>6
<1> HIDE DEF T, U, f
<1>13. f.from \in T /\ \A y \in T : f.from <= y
  <2>1. \E x \in T : \A y \in T : x <= y
    BY <1>7, <1>10, LeastNat
  <2> QED BY <1>11, <2>1, Zenon DEF Min
<1>14. f.to \in U /\ \A y \in U : f.to >= y
  <2>1. \E x \in U : \A y \in U : x >= y
    BY <1>7, <1>10, LargestNat
  <2> QED BY <1>11, <2>1, Zenon DEF Max
<1>15. \A i \in a .. b : f.from <= s[i].from /\ s[i].to <= f.to
  <2> SUFFICES ASSUME NEW i \in a .. b PROVE f.from <= s[i].from /\ s[i].to <= f.to
    OBVIOUS
  <2>1. s[i].from \in T /\ s[i].to \in U
    BY <1>9
  <2>2. f.to \in 0 .. N /\ s[i].to \in 0 .. N
    BY <1>7, <1>14, <2>1, Zenon
  <2>3. f.to >= s[i].to
    BY <1>14, <2>1
  <2> QED BY <1>13, <2>1, <2>2, <2>3
<1> QED BY <1>12, <1>13, <1>14, <1>15 DEF Reaches, f, r

\* Where the frames of a level of caches stand among the n that are loaded: one
\* ends with each stride, as long as there are frames, and none begins further
\* back than its span, or after the one before.
Laid(s, n, f) ==
  /\ \E S : s \in Seq(S)
  /\ n <= Len(s) * f.stride
  /\ Len(s) * f.stride < n + f.span
  /\ \A k \in 1 .. Len(s) :
       /\ s[k].from \in Nat /\ s[k].to \in 0 .. n
       /\ s[k].from > k * f.stride - f.span
       /\ s[k].from <= (k - 1) * f.stride + 1
       /\ s[k].to = IF k * f.stride < n THEN k * f.stride ELSE n

\* And where those of a cache do: the last of them but one reaches the end, and
\* they overlap by a stride.
Ahead(s, n, f) ==
  /\ Len(s) > 1 => n <= (Len(s) - 1) * f.stride
  /\ \A k \in 1 .. Len(s) : s[k].from <= 1 \/ s[k].from <= (k - 2) * f.stride + 1

\* The fold k of a level.
LEMMA FoldLaid ==
  ASSUME NEW s, NEW n \in Nat, NEW f \in FoldSize, Laid(s, n, f),
         NEW k \in Nat \ {0}, NEW a \in Nat \ {0}, NEW b \in Nat, a <= b, b <= Len(s),
         a >= k * Step - Window + 1, a = 1 \/ a <= (k - 2) * Step + 1,
         b = IF k * Step < Len(s) THEN k * Step ELSE Len(s)
  PROVE  LET r == FoldVec(SubSeq(s, a, b))
             g == Coarser(f) IN
         /\ r.from \in Nat /\ r.to \in 0 .. n
         /\ r.from > k * g.stride - g.span
         /\ r.from <= (k - 1) * g.stride + 1
         /\ r.to = IF k * g.stride < n THEN k * g.stride ELSE n
         /\ r.from <= 1 \/ r.from <= (k - 2) * g.stride + 1
<1> DEFINE r == FoldVec(SubSeq(s, a, b))
           D == f.stride
           span == f.span
           m == Len(s)
           E == Step * D
           kE == k * E
           wD == (Window - 1) * D
<1>1. /\ D \in Nat \ {0} /\ span \in Nat \ {0} /\ m \in Nat
      /\ Coarser(f).stride = E /\ Coarser(f).span = span + wD
  BY LenProperties DEF FoldSize, Laid, Coarser
<1>2. \A i \in 1 .. m :
        /\ s[i].from \in Nat /\ s[i].to \in 0 .. n
        /\ s[i].from > i * D - span
        /\ s[i].from <= (i - 1) * D + 1
        /\ s[i].to = IF i * D < n THEN i * D ELSE n
  BY DEF Laid
<1>3. n <= m * D /\ \E S : s \in Seq(S)
  BY DEF Laid
<1> HIDE DEF D, span
<1>4. E \in Nat \ {0} /\ kE \in Nat /\ wD \in Nat
  <2>1. E \in Nat \ {0}
    BY <1>1
  <2>2. kE \in Nat
    BY <2>1
  <2>3. Window - 1 \in Nat
    OBVIOUS
  <2>4. wD \in Nat
    BY <1>1, <2>3
  <2> QED BY <2>1, <2>2, <2>4
<1>5. /\ \E i \in a .. b : r.from = s[i].from
      /\ \E i \in a .. b : r.to = s[i].to
      /\ \A i \in a .. b : r.from <= s[i].from /\ s[i].to <= r.to
  <2>1. Among(s, n)
    BY <1>2, <1>3 DEF Among
  <2>2. Reaches(FoldVec(SubSeq(s, a, b)), s, a, b)
    BY <2>1, FoldEnds
  <2> QED BY <2>2, Zenon DEF Reaches
<1> HIDE DEF r
<1>6. \A i \in a .. b : i \in 1 .. m /\ i \in Nat
  BY <1>1
<1>7. a \in a .. b /\ b \in a .. b
  OBVIOUS
<1>8. (k - 1) * E = kE - E /\ (k - 2) * E = kE - 2 * E
  BY <1>4
<1>9. r.from \in Nat /\ r.to \in 0 .. n
  BY <1>2, <1>5, <1>6
<1>10. r.from > kE - (span + wD)
  <2>1. PICK i \in a .. b : r.from = s[i].from
    BY <1>5
  <2> DEFINE iD == i * D
             x == k * Step - (Window - 1)
             xD == x * D
  <2>2. i \in Nat /\ x \in Int /\ iD \in Int /\ xD \in Int
    BY <1>1, <1>6
  <2>3. x <= i
    BY <2>2
  <2>4. xD <= iD
    <3> HIDE DEF x
    <3> QED BY <1>1, <2>2, <2>3, MultiplesOrdered
  <2>5. xD = kE - wD
    BY <1>1
  <2>6. r.from > iD - span
    BY <1>2, <1>6, <2>1
  <2> HIDE DEF iD, xD, kE, wD, x
  <2> QED BY <1>1, <1>4, <1>9, <2>2, <2>4, <2>5, <2>6
<1>11. r.from <= 1 \/ r.from <= (k - 2) * E + 1
  <2> DEFINE aD == (a - 1) * D
  <2>1. r.from <= aD + 1
    <3>1. r.from <= s[a].from /\ s[a].from <= aD + 1 /\ s[a].from \in Nat
      BY <1>2, <1>5, <1>6, <1>7
    <3>2. aD \in Int
      BY <1>1
    <3> HIDE DEF aD
    <3> QED BY <1>9, <3>1, <3>2
  <2>2. CASE a = 1
    <3>1. aD = 0
      BY <1>1, <2>2
    <3> HIDE DEF aD
    <3> QED BY <1>9, <2>1, <3>1
  <2>3. CASE a <= (k - 2) * Step + 1
    <3> DEFINE y == (k - 2) * Step
    <3>1. a - 1 <= y /\ y \in Int /\ a - 1 \in Int
      BY <2>3
    <3>2. y * D = (k - 2) * E
      BY <1>1
    <3>3. aD <= y * D
      <4> HIDE DEF y
      <4> QED BY <1>1, <3>1, MultiplesOrdered
    <3> DEFINE z == (k - 2) * E
    <3>4. z \in Int /\ aD \in Int
      BY <1>1, <1>4
    <3> HIDE DEF aD, z
    <3>5. aD <= z
      BY <3>2, <3>3 DEF z
    <3>6. r.from <= z + 1
      BY <1>9, <2>1, <3>4, <3>5
    <3> QED BY <3>6 DEF z
  <2> QED BY <2>2, <2>3
<1>12. r.from <= (k - 1) * E + 1
  <2>1. kE - E >= 0
    <3>1. 1 * E <= k * E
      BY <1>4, MultiplesOrdered
    <3> QED BY <1>4, <3>1
  <2> HIDE DEF kE, E
  <2> QED BY <1>4, <1>8, <1>9, <1>11, <2>1
<1>13. r.to = s[b].to
  <2>1. PICK i \in a .. b : r.to = s[i].to
    BY <1>5
  <2>2. i * D <= b * D /\ i * D \in Int /\ b * D \in Int
    BY <1>1, MultiplesOrdered
  <2> DEFINE iD == i * D
             bD == b * D
  <2>3. s[i].to = IF iD < n THEN iD ELSE n
    BY <1>2, <1>6, <2>1
  <2>4. s[b].to = IF bD < n THEN bD ELSE n
    BY <1>2, <1>6, <1>7
  <2>5. s[b].to <= r.to
    BY <1>5, <1>7
  <2>6. iD <= bD /\ iD \in Int /\ bD \in Int
    BY <2>2
  <2> HIDE DEF iD, bD
  <2> QED BY <1>9, <2>1, <2>3, <2>4, <2>5, <2>6
<1>14. r.to = IF kE < n THEN kE ELSE n
  <2>1. s[b].to = IF b * D < n THEN b * D ELSE n
    BY <1>2, <1>6, <1>7
  <2>2. (k * Step) * D = kE
    BY <1>1
  <2>3. CASE k * Step < m
    BY <1>13, <2>1, <2>2, <2>3
  <2>4. CASE ~(k * Step < m)
    <3>1. m * D <= (k * Step) * D
      BY <1>1, <2>4, MultiplesOrdered
    <3>2. b = m
      BY <2>4
    <3> DEFINE mD == m * D
    <3>3. mD \in Int /\ mD <= kE /\ n <= mD
      BY <1>1, <1>3, <2>2, <3>1
    <3>4. s[b].to = IF mD < n THEN mD ELSE n
      BY <2>1, <3>2
    <3> HIDE DEF mD, kE
    <3> QED BY <1>4, <1>13, <3>3, <3>4
  <2> QED BY <2>3, <2>4
<1> QED BY <1>1, <1>9, <1>10, <1>11, <1>12, <1>14 DEF r

\* What is folded from a level is laid out by the next stride and span.
LEMMA IterFoldLaid ==
  ASSUME NEW s, NEW n \in Nat, NEW f \in FoldSize, Laid(s, n, f), Window >= 2 * Step
  PROVE  Laid(IterFold(s), n, Coarser(f)) /\ Ahead(IterFold(s), n, Coarser(f))
<1> DEFINE m == Len(s)
           c == Count(Window, Step, m)
           g == IterFold(s)
           D == f.stride
           span == f.span
           E == Step * D
           wD == (Window - 1) * D
<1>1. /\ D \in Nat \ {0} /\ span \in Nat \ {0} /\ m \in Nat
      /\ Coarser(f).stride = E /\ Coarser(f).span = span + wD
  BY LenProperties DEF FoldSize, Laid, Coarser
<1>2. n <= m * D /\ m * D < n + span
  BY DEF Laid
<1>3. (\E S : g \in Seq(S)) /\ Len(g) = c /\ c \in Nat /\ m <= c * Step
  BY <1>1, IterFoldLen
<1>4. \A k \in 1 .. c :
        g[k] = FoldVec(SubSeq(s, Low(Window, Step, m, k), High(Step, m, k)))
  BY DEF IterFold
<1> HIDE DEF g
<1>5. E \in Nat \ {0} /\ wD \in Nat
  <2>1. E \in Nat \ {0}
    BY <1>1
  <2>2. Window - 1 \in Nat
    OBVIOUS
  <2>3. wD \in Nat
    BY <1>1, <2>2
  <2> QED BY <2>1, <2>3
<1>6. ASSUME NEW k \in 1 .. c
      PROVE  /\ g[k].from \in Nat /\ g[k].to \in 0 .. n
             /\ g[k].from > k * E - (span + wD)
             /\ g[k].from <= (k - 1) * E + 1
             /\ g[k].to = IF k * E < n THEN k * E ELSE n
             /\ g[k].from <= 1 \/ g[k].from <= (k - 2) * E + 1
  <2> DEFINE j == k - 1
             a == Low(Window, Step, m, k)
             b == High(Step, m, k)
             kS == k * Step
  <2>1. j \in Nat /\ j + 1 = k /\ j + 1 <= c /\ k \in Nat \ {0}
    BY <1>3
  <2>2. j * Step = kS - Step /\ (k - 2) * Step = kS - 2 * Step /\ kS \in Nat
    BY <2>1
  <2>3. /\ a \in Nat \ {0} /\ b \in Nat /\ a <= b /\ b <= m
    <3> HIDE DEF m, j
    <3>1. /\ Low(Window, Step, m, j + 1) \in Nat \ {0} /\ High(Step, m, j + 1) \in Nat
          /\ Low(Window, Step, m, j + 1) <= High(Step, m, j + 1)
          /\ High(Step, m, j + 1) <= m
      BY <1>1, <2>1, WindowInside
    <3> QED BY <2>1, <3>1
  <2>4. a >= j * Step + Step - Window + 1 /\ (a = 1 \/ a <= j * Step - Step + 1)
    <3> HIDE DEF m, j
    <3>1. /\ Low(Window, Step, m, j + 1) >= j * Step + Step - Window + 1
          /\ \/ Low(Window, Step, m, j + 1) = 1
             \/ Low(Window, Step, m, j + 1) <= j * Step - Step + 1
      BY <1>1, <2>1, LowBounds
    <3> QED BY <2>1, <3>1
  <2>5. b = IF k * Step < m THEN k * Step ELSE m
    BY DEF High
  <2>6. a >= k * Step - Window + 1 /\ (a = 1 \/ a <= (k - 2) * Step + 1)
    <3> DEFINE jS == j * Step
               lS == (k - 2) * Step
    <3> HIDE DEF a, kS, j, jS, lS
    <3>1. jS = kS - Step /\ lS = kS - 2 * Step
      BY <2>2 DEF jS, lS
    <3>2. a >= jS + Step - Window + 1 /\ (a = 1 \/ a <= jS - Step + 1)
      BY <2>4 DEF jS
    <3>3. a >= kS - Window + 1 /\ (a = 1 \/ a <= lS + 1)
      BY <2>2, <2>3, <3>1, <3>2
    <3> QED BY <3>3 DEF kS, lS
  <2>7. g[k] = FoldVec(SubSeq(s, a, b))
    BY <1>4
  <2> HIDE DEF a, b
  <2>8. LET r == FoldVec(SubSeq(s, a, b))
            h == Coarser(f) IN
        /\ r.from \in Nat /\ r.to \in 0 .. n
        /\ r.from > k * h.stride - h.span
        /\ r.from <= (k - 1) * h.stride + 1
        /\ r.to = IF k * h.stride < n THEN k * h.stride ELSE n
        /\ r.from <= 1 \/ r.from <= (k - 2) * h.stride + 1
    BY <2>1, <2>3, <2>5, <2>6, FoldLaid
  <2> HIDE DEF E, wD
  <2> QED BY <1>1, <2>7, <2>8
<1>7. n <= c * E
  <2>1. m * D <= (c * Step) * D
    <3> DEFINE cS == c * Step
    <3>1. cS \in Int /\ m <= cS
      <4> HIDE DEF c
      <4> QED BY <1>3
    <3> HIDE DEF m, D, cS
    <3>2. m * D <= cS * D
      BY <1>1, <3>1, MultiplesOrdered
    <3> QED BY <3>2 DEF cS
  <2>2. (c * Step) * D = c * E
    <3> HIDE DEF c
    <3> QED BY <1>1, <1>3
  <2> DEFINE mD == m * D
             cE == c * E
  <2>3. mD \in Int /\ cE \in Int
    <3> HIDE DEF c
    <3> QED BY <1>1, <1>3, <1>5
  <2>4. n <= mD /\ mD <= cE
    BY <1>2, <2>1, <2>2
  <2> HIDE DEF mD, cE
  <2>5. n <= cE
    BY <2>3, <2>4
  <2> QED BY <2>5 DEF cE
<1>8. CASE m = 0
  <2>1. c = 0
    BY <1>8 DEF Count
  <2>2. 0 * E = 0
    BY <1>5
  <2> HIDE DEF c
  <2>3. Laid(g, n, Coarser(f))
    BY <1>1, <1>3, <1>5, <1>7, <2>1, <2>2 DEF Laid
  <2>4. Ahead(g, n, Coarser(f))
    BY <1>3, <2>1 DEF Ahead
  <2> QED BY <2>3, <2>4 DEF g
<1>9. CASE m # 0
  <2>1. /\ c \in Nat \ {0} /\ c * Step <= m + Window - 1
        /\ c # 1 => m <= (c - 1) * Step
    <3>1. m \in Nat \ {0}
      BY <1>1, <1>9
    <3> HIDE DEF m
    <3> QED BY <3>1, CountEnds
  <2> HIDE DEF c, m, D
  <2>2. c * E < n + (span + wD)
    <3> DEFINE x == m + (Window - 1)
               cS == c * Step
               mD == m * D
               cE == c * E
    <3>1. cS <= x /\ cS \in Int /\ x \in Int
      BY <1>1, <2>1
    <3>2. cS * D <= x * D
      <4> HIDE DEF cS, x
      <4> QED BY <1>1, <3>1, MultiplesOrdered
    <3>3. cS * D = cE /\ x * D = mD + wD
      BY <1>1, <2>1
    <3>4. mD \in Int /\ cE \in Int
      BY <1>1, <1>3, <1>5
    <3>5. mD < n + span
      BY <1>2
    <3> HIDE DEF cS, x, mD, cE, wD, span
    <3>6. cE < n + (span + wD)
      BY <1>1, <1>5, <3>2, <3>3, <3>4, <3>5
    <3> QED BY <3>6 DEF cE
  <2>3. c > 1 => n <= (c - 1) * E
    <3> SUFFICES ASSUME c > 1 PROVE n <= (c - 1) * E
      OBVIOUS
    <3> DEFINE y == (c - 1) * Step
               mD == m * D
               z == (c - 1) * E
    <3>1. m <= y /\ y \in Int
      BY <2>1
    <3>2. mD <= y * D
      <4> HIDE DEF y
      <4> QED BY <1>1, <3>1, MultiplesOrdered
    <3>3. y * D = z
      BY <1>1, <2>1
    <3>4. mD \in Int /\ z \in Int /\ n <= mD
      BY <1>1, <1>2, <1>3, <1>5
    <3> HIDE DEF y, mD, z
    <3>5. n <= z
      BY <3>2, <3>3, <3>4
    <3> QED BY <3>5 DEF z
  <2> HIDE DEF E, wD, span
  <2>4. Laid(g, n, Coarser(f))
    BY <1>1, <1>3, <1>6, <1>7, <2>2 DEF Laid
  <2>5. Ahead(g, n, Coarser(f))
    BY <1>1, <1>3, <1>6, <2>3 DEF Ahead
  <2> QED BY <2>4, <2>5 DEF g
<1> QED BY <1>8, <1>9

\* The frames of the file are all there, unfolded.
Unfolds == \A i \in 1 .. Len(fd) : fd[i].from = i /\ fd[i].to = i

LEMMA UnfoldedPlaces ==
  ASSUME NEW s \in Seq(Nat), NEW n \in Nat
  PROVE  \A i \in 1 .. Len(s) : Unfolded(s, n)[i].from = n + i /\ Unfolded(s, n)[i].to = n + i
<1>1. DOMAIN s = 1 .. Len(s)
  BY LenProperties
<1> QED BY <1>1 DEF Unfolded

\* A frame is read after fillers, all of the time of a frame.
LEMMA ReadTimes ==
  ASSUME LoadInv, ReadFrame
  PROVE  \E times \in Seq(Nat) : fd' = fd \o Unfolded(times, Len(fd))
<1> DEFINE x == file[place + 1]
           u == file[place]
<1>1. /\ \A i \in 1 .. Len(file) : file[i] \in Nat /\ file[i] >= PerSec
      /\ Len(file) \in Nat /\ place \in Nat /\ place < Len(file)
  BY FileType DEF LoadInv, ReadFrame
<1>2. place + 1 \in 1 .. Len(file) /\ x \in Nat
  BY <1>1
<1>3. CASE place = 0
  <2> DEFINE times == Append(Fillers(0, Timestamp(x)), x)
  <2>1. fd' = fd \o Unfolded(times, Len(fd))
    BY <1>3 DEF ReadFrame
  <2>2. Fillers(0, Timestamp(x)) = <<>>
    BY DEF Fillers
  <2>3. times \in Seq(Nat)
    <3>1. <<>> \in Seq(Nat)
      BY EmptySeq
    <3>2. Append(<<>>, x) \in Seq(Nat)
      BY <1>2, <3>1, AppendProperties
    <3> QED BY <2>2, <3>2
  <2> QED BY <2>1, <2>3
<1>4. CASE place # 0
  <2> DEFINE times == Added(u, x)
  <2>1. place \in 1 .. Len(file)
    BY <1>1, <1>4
  <2>2. u \in Nat /\ u >= PerSec
    BY <1>1, <2>1
  <2>3. fd' = fd \o Unfolded(times, Len(fd))
    BY <1>4 DEF ReadFrame, Added
  <2>4. times \in Seq(Nat)
    BY <1>2, <2>2, AddedTimes
  <2> QED BY <2>3, <2>4
<1> QED BY <1>3, <1>4

LEMMA ReadUnfolds == LoadInv /\ Unfolds /\ ReadFrame => Unfolds'
<1> SUFFICES ASSUME LoadInv, Unfolds, ReadFrame PROVE Unfolds'
  OBVIOUS
<1> DEFINE n == Len(fd)
<1>1. fd \in Seq(Frame) /\ n \in Nat
  BY LenProperties DEF LoadInv
<1>2. PICK times \in Seq(Nat) : fd' = fd \o Unfolded(times, n)
  BY ReadTimes
<1> DEFINE new == Unfolded(times, n)
<1>3. /\ new \in Seq(Frame) /\ Len(new) \in Nat
      /\ \A i \in 1 .. Len(new) : new[i].from = n + i /\ new[i].to = n + i
  BY <1>1, UnfoldedType, UnfoldedPlaces, LenProperties
<1> HIDE DEF new
<1>4. /\ Len(fd') = n + Len(new)
      /\ \A i \in 1 .. n + Len(new) : fd'[i] = IF i <= n THEN fd[i] ELSE new[i - n]
  BY <1>1, <1>2, <1>3, ConcatProperties DEF new
<1>5. ASSUME NEW i \in 1 .. n + Len(new) PROVE fd'[i].from = i /\ fd'[i].to = i
  <2>1. CASE i <= n
    <3>1. i \in 1 .. n
      BY <1>1, <1>3, <2>1
    <3> QED BY <1>4, <2>1, <3>1 DEF Unfolds
  <2>2. CASE ~(i <= n)
    <3>1. i - n \in 1 .. Len(new) /\ n + (i - n) = i
      BY <1>1, <1>3, <2>2
    <3> QED BY <1>3, <1>4, <2>2, <3>1
  <2> QED BY <2>1, <2>2
<1> QED BY <1>4, <1>5 DEF Unfolds

\* Each cache is laid out by its stride and span.
CachesLaid ==
  \A l \in 1 .. Len(fdcache) : /\ Laid(fdcache[l], Len(fd), FoldOf[l])
                               /\ Ahead(fdcache[l], Len(fd), FoldOf[l])

LaidInv == Unfolds /\ CachesLaid

LEMMA InitLaid == Init => LaidInv
<1> SUFFICES ASSUME Init PROVE LaidInv
  OBVIOUS
<1>1. Len(fd) = 0 /\ Len(fdcache) = 0
  BY EmptySeq DEF Init
<1> QED BY <1>1 DEF LaidInv, Unfolds, CachesLaid

\* The frames that are loaded are as the folds of themselves.
LEMMA FdLaid ==
  ASSUME LoadInv, Unfolds
  PROVE  Len(fd) \in Nat /\ Laid(fd, Len(fd), FoldOf[0])
<1> DEFINE n == Len(fd)
<1>1. fd \in Seq(Frame) /\ n \in Nat
  BY LenProperties DEF LoadInv
<1>2. FoldOf[0].stride = 1 /\ FoldOf[0].span = 1
  BY FoldOfIs
<1>3. \A i \in 1 .. n : fd[i].from = i /\ fd[i].to = i
  BY DEF Unfolds
<1> HIDE DEF n
<1>4. n <= n * 1 /\ n * 1 < n + 1
  BY <1>1
<1>5. \A k \in 1 .. n : /\ fd[k].from \in Nat /\ fd[k].to \in 0 .. n
                        /\ fd[k].from > k * 1 - 1
                        /\ fd[k].from <= (k - 1) * 1 + 1
                        /\ fd[k].to = IF k * 1 < n THEN k * 1 ELSE n
  BY <1>1, <1>3
<1>6. Laid(fd, n, FoldOf[0])
  BY <1>1, <1>2, <1>4, <1>5 DEF Laid, n
<1> QED BY <1>1, <1>6 DEF n

LEMMA AddCacheLaid ==
  ASSUME LoadInv, CacheInv, LaidInv, AddCache, Window >= 2 * Step
  PROVE  CachesLaid'
<1> DEFINE n == Len(fdcache)
           from == IF fdcache = <<>> THEN fd ELSE Last(fdcache)
           cache == IterFold(from)
<1>1. PICK S : fdcache \in Seq(S)
  BY DEF CacheInv
<1>2. /\ n \in Nat /\ (fdcache = <<>> <=> n = 0)
      /\ n < MaxCaches
  BY <1>1, LenProperties, EmptySeq DEF CacheInv, AddCache
<1>3. fdcache' = Append(fdcache, cache) /\ fd' = fd
  BY DEF AddCache
<1>4. Len(fd) \in Nat /\ Laid(from, Len(fd), FoldOf[n])
  <2>1. CASE n = 0
    BY <1>2, <2>1, FdLaid DEF LaidInv
  <2>2. CASE n # 0
    <3>1. n \in 1 .. n /\ from = fdcache[n]
      BY <1>2, <2>2 DEF Last
    <3> QED BY <3>1, FdLaid DEF LaidInv, CachesLaid
  <2> QED BY <2>1, <2>2
<1> HIDE DEF from
<1>5. n + 1 \in 1 .. MaxCaches /\ (n + 1) - 1 = n /\ n \in 0 .. MaxCaches
  BY <1>2
<1>6. FoldOf[n] \in FoldSize /\ FoldOf[n + 1] = Coarser(FoldOf[n])
  BY <1>5, FoldOfIs
<1>7. Laid(cache, Len(fd), FoldOf[n + 1]) /\ Ahead(cache, Len(fd), FoldOf[n + 1])
  BY <1>4, <1>6, IterFoldLaid
<1> HIDE DEF cache
<1>8. /\ Len(fdcache') = n + 1 /\ fdcache'[n + 1] = cache
      /\ \A k \in 1 .. n : fdcache'[k] = fdcache[k]
  <2> DEFINE T == S \cup {cache}
  <2>1. fdcache \in Seq(T) /\ cache \in T
    BY <1>1, SeqMonotonic
  <2> HIDE DEF T
  <2> QED BY <1>3, <2>1, AppendProperties
<1>9. ASSUME NEW l \in 1 .. n + 1
      PROVE  Laid(fdcache'[l], Len(fd), FoldOf[l]) /\ Ahead(fdcache'[l], Len(fd), FoldOf[l])
  <2>1. l = n + 1 \/ l \in 1 .. n
    BY <1>2
  <2> QED BY <1>7, <1>8, <2>1 DEF LaidInv, CachesLaid
<1>10. \A l \in 1 .. Len(fdcache') : Laid(fdcache'[l], Len(fd'), FoldOf[l])
                                    /\ Ahead(fdcache'[l], Len(fd'), FoldOf[l])
  BY <1>3, <1>8, <1>9
<1> QED BY <1>10, Zenon DEF CachesLaid, Laid, Ahead

LEMMA NextLaid ==
  ASSUME Window >= 2 * Step
  PROVE  LoadInv /\ CacheInv /\ LaidInv /\ [Next]_vars => LaidInv'
<1> SUFFICES ASSUME LoadInv, CacheInv, LaidInv, [Next]_vars PROVE LaidInv'
  OBVIOUS
<1>1. CASE ReadFrame
  <2>1. fdcache' = fdcache /\ Len(fdcache) = 0
    BY <1>1, EmptySeq DEF ReadFrame, CacheInv
  <2>2. Unfolds'
    BY <1>1, ReadUnfolds DEF LaidInv
  <2> QED BY <2>1, <2>2 DEF LaidInv, CachesLaid
<1>2. CASE AddCache
  <2>1. CachesLaid'
    BY <1>2, AddCacheLaid
  <2>2. fd' = fd
    BY <1>2 DEF AddCache
  <2> QED BY <2>1, <2>2 DEF LaidInv, Unfolds
<1>3. CASE UNCHANGED <<fd, fdcache>>
  BY <1>3 DEF LaidInv, Unfolds, CachesLaid, Laid, Ahead
<1>4. ~ReadFrame /\ ~AddCache => UNCHANGED <<fd, fdcache>>
  BY DEF Next, Load, Loaded, ZoomXSliderChanged, PosDXSliderChanged, Tick, vars
<1> QED BY <1>1, <1>2, <1>3, <1>4

\* A span is a stride and a half, but for half a frame.
LEMMA SpanCovers ==
  ASSUME Window >= 2 * Step
  PROVE  \A l \in 0 .. MaxCaches : 2 * FoldOf[l].span >= 3 * FoldOf[l].stride - 1
<1> DEFINE S == {l \in Nat : l <= MaxCaches => 2 * FoldOf[l].span >= 3 * FoldOf[l].stride - 1}
<1>1. 0 \in S
  BY FoldOfIs
<1>2. ASSUME NEW l \in S PROVE l + 1 \in S
  <2> SUFFICES ASSUME l + 1 <= MaxCaches
               PROVE  2 * FoldOf[l + 1].span >= 3 * FoldOf[l + 1].stride - 1
    OBVIOUS
  <2> DEFINE D == FoldOf[l].stride
             span == FoldOf[l].span
             sD == Step * D
             wD == (Window - 1) * D
  <2>1. /\ l \in Nat /\ l <= MaxCaches /\ l \in 0 .. MaxCaches
        /\ l + 1 \in 1 .. MaxCaches /\ (l + 1) - 1 = l
    OBVIOUS
  <2>2. 2 * span >= 3 * D - 1
    BY <2>1
  <2>3. D \in Nat \ {0} /\ span \in Nat
    BY <2>1, FoldOfIs DEF FoldSize
  <2>4. FoldOf[l + 1] = Coarser(FoldOf[l])
    BY <2>1, FoldOfIs
  <2>5. FoldOf[l + 1].stride = sD /\ FoldOf[l + 1].span = span + wD
    BY <2>4 DEF Coarser
  <2> HIDE DEF D, span
  <2>6. sD \in Nat /\ wD \in Int /\ sD >= D
    <3>1. 1 * D <= Step * D
      BY <2>3, MultiplesOrdered
    <3> QED BY <2>3, <3>1
  <2>7. wD >= 2 * sD - D
    <3> DEFINE x == 2 * Step - 1
               y == Window - 1
    <3>1. x <= y /\ x \in Int /\ y \in Int
      OBVIOUS
    <3>2. x * D = 2 * sD - D
      BY <2>3
    <3> HIDE DEF x, y
    <3>3. x * D <= y * D
      BY <2>3, <3>1, MultiplesOrdered
    <3> HIDE DEF sD
    <3> QED BY <2>6, <3>2, <3>3 DEF y
  <2> HIDE DEF sD, wD
  <2>8. 2 * (span + wD) >= 3 * sD - 1
    BY <2>2, <2>3, <2>6, <2>7
  <2> QED BY <2>5, <2>8
<1> HIDE DEF S
<1>3. S = Nat
  <2>1. S \in SUBSET Nat
    BY DEF S
  <2> QED BY <1>1, <1>2, <2>1, SetInduction
<1> QED BY <1>3 DEF S

-----------------------------------------------------------------------------
(* Shares of the recording.                                                *)

\* The share posx of d frames.
Share(d) == (d * posx) \div PosUnits

\* What is smaller when multiplied is smaller.
LEMMA Cancel ==
  ASSUME NEW a \in Int, NEW b \in Int, NEW s \in Nat, a * s < b * s
  PROVE  a < b
<1> SUFFICES ASSUME b <= a PROVE FALSE
  OBVIOUS
<1> DEFINE as == a * s
           bs == b * s
<1>1. bs <= as
  BY MultiplesOrdered
<1>2. as < bs /\ as \in Int /\ bs \in Int
  OBVIOUS
<1> HIDE DEF as, bs
<1> QED BY <1>1, <1>2

LEMMA ShareIs ==
  ASSUME NEW d \in Nat, posx \in Positions
  PROVE  /\ Share(d) \in 0 .. d
         /\ Share(d) * PosUnits <= d * posx
         /\ d * posx < (Share(d) + 1) * PosUnits
<1> DEFINE x == d * posx
           q == Share(d)
<1>1. PosUnits \in Nat \ {0} /\ posx \in Nat /\ posx <= PosUnits
  BY InputAssumption DEF Positions
<1>2. x \in Nat
  BY <1>1
<1>3. q \in Nat /\ \A j \in Int : j <= q <=> j * PosUnits <= x
  <2> HIDE DEF x
  <2>1. /\ x \div PosUnits \in Nat
        /\ \A j \in Int : j <= x \div PosUnits <=> j * PosUnits <= x
    BY <1>1, <1>2, Quotient
  <2> QED BY <2>1 DEF Share, x
<1>4. x <= d * PosUnits
  <2>1. posx * d <= PosUnits * d
    BY <1>1, MultiplesOrdered
  <2>2. posx * d = d * posx /\ PosUnits * d = d * PosUnits
    BY <1>1
  <2> QED BY <2>1, <2>2
<1> HIDE DEF x, q
<1>5. q * PosUnits <= x
  BY <1>3
<1>6. q + 1 \in Int /\ ~(q + 1 <= q)
  BY <1>3
<1>7. ~((q + 1) * PosUnits <= x)
  BY <1>3, <1>6
<1>8. x < (q + 1) * PosUnits
  <2> DEFINE y == (q + 1) * PosUnits
  <2>1. y \in Int /\ ~(y <= x)
    BY <1>1, <1>6, <1>7
  <2> HIDE DEF y
  <2>2. x < y
    BY <1>2, <2>1
  <2> QED BY <2>2 DEF y
<1>9. q <= d
  <2> DEFINE qP == q * PosUnits
             dP == d * PosUnits
  <2>1. qP \in Int /\ dP \in Int
    BY <1>1, <1>3
  <2>2. (d + 1) * PosUnits = dP + PosUnits
    BY <1>1
  <2>3. qP <= x /\ x <= dP
    BY <1>4, <1>5
  <2> HIDE DEF dP, qP
  <2>4. qP < (d + 1) * PosUnits
    BY <1>1, <1>2, <2>1, <2>2, <2>3
  <2>5. d + 1 \in Int
    OBVIOUS
  <2>6. q < d + 1
    BY <1>1, <1>3, <2>4, <2>5, Cancel DEF qP
  <2> QED BY <1>3, <2>6
<1> QED BY <1>3, <1>5, <1>8, <1>9 DEF x, q

\* The share of a number of folds, and that of no more frames than they are
\* strides of.
LEMMA SharesApart ==
  ASSUME NEW c \in Nat, NEW d \in Nat, NEW D \in Nat \ {0}, posx \in Positions,
         c * D >= d
  PROVE  /\ Share(c) * D - Share(d) <= c * D - d
         /\ Share(c) * D + D > Share(d)
<1> DEFINE u == Share(c)
           v == Share(d)
           P == PosUnits
           x == posx
           g == c * D - d
           uD == u * D
           cx == c * x
           dx == d * x
           gx == g * x
           gP == g * P
           vP == v * P
           uP == u * P
<1>1. P \in Nat \ {0} /\ x \in Nat /\ x <= P
  BY InputAssumption DEF Positions
<1>2. /\ u \in Nat /\ uP <= cx /\ cx < (u + 1) * P
      /\ v \in Nat /\ vP <= dx /\ dx < (v + 1) * P
  BY ShareIs
<1> HIDE DEF u, v, P, x
<1>3. g \in Nat /\ g + d = c * D
  BY <1>1
<1>4. cx * D = dx + gx
  <2>1. cx * D = (c * D) * x
    BY <1>1
  <2>2. (g + d) * x = dx + gx
    <3> HIDE DEF g
    <3> QED BY <1>1, <1>3
  <2> QED BY <1>3, <2>1, <2>2
<1> HIDE DEF g
<1>5. gx \in Nat /\ gx <= gP /\ gP \in Nat
  <2>1. x * g <= P * g
    BY <1>1, <1>3, MultiplesOrdered
  <2> QED BY <1>1, <1>3, <2>1
<1>6. cx \in Int /\ dx \in Int /\ uP \in Int /\ vP \in Int /\ uD \in Int
  BY <1>1, <1>2
<1>7. (u + 1) * P = uP + P /\ (v + 1) * P = vP + P
  BY <1>1, <1>2
<1>8. uD < v + 1 + g
  <2> DEFINE y == v + 1 + g
             uPD == uP * D
             cxD == cx * D
  <2>1. y \in Int
    BY <1>2, <1>3
  <2>2. y * P = vP + P + gP
    BY <1>1, <1>2, <1>3
  <2>3. uPD <= cxD
    <3> HIDE DEF uP, cx
    <3> QED BY <1>2, <1>6, MultiplesOrdered
  <2>4. uD * P = uPD
    BY <1>1, <1>2
  <2>5. uPD \in Int /\ cxD \in Int
    BY <1>6
  <2>6. cxD = dx + gx
    BY <1>4
  <2> DEFINE yP == y * P
  <2>7. yP \in Int
    BY <1>1, <2>1
  <2> HIDE DEF uPD, cxD, cx, dx, gx, gP, vP, uP, uD, y, yP
  <2>8. uPD < yP
    BY <1>1, <1>2, <1>5, <1>6, <1>7, <2>2, <2>3, <2>5, <2>6, <2>7 DEF yP
  <2>9. uD * P < y * P
    BY <2>4, <2>8 DEF yP
  <2>10. uD < y
    BY <1>1, <1>6, <2>1, <2>9, Cancel
  <2> QED BY <2>10 DEF y
<1>9. uD + D > v
  <2> DEFINE w == uD + D
             cxD == cx * D
             tD == (cx + 1) * D
             wP == w * P
  <2>1. w \in Int /\ wP \in Int
    BY <1>1, <1>6
  <2>2. wP = (uP + P) * D
    BY <1>1, <1>2
  <2>3. cx + 1 <= uP + P /\ cx + 1 \in Int /\ uP + P \in Int
    <3> HIDE DEF cx, uP
    <3> QED BY <1>1, <1>2, <1>6, <1>7
  <2>4. tD <= (uP + P) * D
    <3> HIDE DEF cx, uP
    <3> QED BY <2>3, MultiplesOrdered
  <2>5. tD = cxD + D /\ cxD \in Int
    BY <1>6
  <2>6. cxD = dx + gx
    BY <1>4
  <2> HIDE DEF cxD, cx, dx, gx, gP, vP, uP, uD, w, wP, tD
  <2>7. tD <= wP
    BY <2>2, <2>4
  <2>8. vP < wP
    BY <1>1, <1>2, <1>5, <1>6, <2>1, <2>5, <2>6, <2>7
  <2>9. v * P < w * P
    BY <2>8 DEF vP, wP
  <2>10. v < w
    BY <1>1, <1>2, <2>1, <2>9, Cancel
  <2> QED BY <1>2, <2>1, <2>10 DEF w
<1>10. uD - v <= g
  <2> HIDE DEF uD
  <2> QED BY <1>2, <1>3, <1>6, <1>8
<1> QED BY <1>9, <1>10 DEF g, u, v

-----------------------------------------------------------------------------
(* The view.                                                               *)

\* The length of the slice is rounded to the nearest.
LEMMA SliceLenRounds ==
  ASSUME NEW n \in Nat, zoomx \in Nat \ {0}, ~(2 * zoomx > n)
  PROVE  /\ SliceLen(n) \in Nat
         /\ 2 * (SliceLen(n) * zoomx) <= 2 * n + zoomx
         /\ 2 * n + zoomx < 2 * (SliceLen(n) * zoomx) + 2 * zoomx
<1> DEFINE z == zoomx
           x == 2 * n + z
           y == 2 * z
           q == x \div y
<1>1. z \in Nat \ {0} /\ x \in Nat /\ y \in Nat \ {0}
  OBVIOUS
<1>2. q \in Nat /\ \A j \in Int : j <= q <=> j * y <= x
  <2> HIDE DEF x, y
  <2> QED BY <1>1, Quotient
<1>3. SliceLen(n) = q
  BY DEF SliceLen
<1> HIDE DEF x, q
<1>4. q * y <= x
  BY <1>2
<1>5. ~((q + 1) * y <= x)
  <2>1. q + 1 \in Int /\ ~(q + 1 <= q)
    BY <1>2
  <2> QED BY <1>2, <2>1
<1> DEFINE qz == q * z
<1>6. q * y = 2 * qz /\ (q + 1) * y = 2 * qz + 2 * z /\ qz \in Int
  BY <1>1, <1>2
<1> HIDE DEF qz, y
<1>7. 2 * qz <= x /\ x < 2 * qz + 2 * z
  BY <1>1, <1>4, <1>5, <1>6
<1> QED BY <1>2, <1>3, <1>7 DEF qz, x

\* The frames that the zoom selects of those that are loaded.
ViewLen(n) == IF n \div zoomx >= 2 THEN n \div zoomx ELSE 2

LEMMA ViewLenIs ==
  ASSUME NEW n \in Nat, n >= 2, zoomx \in Nat \ {0}
  PROVE  LET p == n \div zoomx IN
         /\ p \in Nat /\ p * zoomx <= n /\ n < p * zoomx + zoomx
         /\ ViewLen(n) \in 2 .. n
         /\ Max({2, n \div zoomx}) = ViewLen(n)
<1> DEFINE p == n \div zoomx
           pz == p * zoomx
<1>1. p \in Nat /\ \A j \in Int : j <= p <=> j * zoomx <= n
  BY Quotient
<1>2. Max({2, p}) = ViewLen(n)
  <2>1. Max({2, p}) = IF 2 >= p THEN 2 ELSE p
    BY <1>1, MaxOfTwo
  <2> QED BY <1>1, <2>1 DEF ViewLen
<1>3. ViewLen(n) = IF p >= 2 THEN p ELSE 2
  BY DEF ViewLen
<1> HIDE DEF p
<1>4. pz <= n /\ pz \in Nat
  BY <1>1
<1>5. n < pz + zoomx
  <2>1. p + 1 \in Int /\ ~(p + 1 <= p)
    BY <1>1
  <2>2. ~((p + 1) * zoomx <= n)
    BY <1>1, <2>1
  <2>3. (p + 1) * zoomx = pz + zoomx
    BY <1>1
  <2> HIDE DEF pz
  <2> QED BY <1>4, <2>2, <2>3
<1>6. p <= n
  <2>1. 1 * p <= zoomx * p
    BY <1>1, MultiplesOrdered
  <2>2. zoomx * p = pz
    BY <1>1
  <2> HIDE DEF pz
  <2> QED BY <1>1, <1>4, <2>1, <2>2
<1>7. ViewLen(n) \in 2 .. n
  BY <1>1, <1>3, <1>6
<1> QED BY <1>1, <1>2, <1>4, <1>5, <1>7 DEF p, pz

\* What is left of the recording beside the view, in the m folds of a cache and
\* in the n frames, and the difference of their views.
LEMMA ViewsApart ==
  ASSUME NEW n \in Nat, n >= 2, zoomx \in Nat \ {0}, NEW m \in Nat, NEW D \in Nat \ {0},
         m > 3 * zoomx, n <= (m - 1) * D
  PROVE  /\ SliceLen(m) \in 3 .. m
         /\ (m - SliceLen(m)) * D >= n - ViewLen(n)
         /\ ViewLen(n) <= SliceLen(m) * D + D
         /\ 2 * ViewLen(n) <= 2 * (SliceLen(m) * D) + D
<1> DEFINE Z == zoomx
           L == SliceLen(m)
           p == n \div zoomx
           len == ViewLen(n)
           LZ == L * Z
           mD == m * D
           LD == L * D
           ZD == Z * D
           ZLD == Z * LD
           pZ == p * Z
           lenZ == len * Z
<1>1. /\ L \in Nat
      /\ 2 * LZ <= 2 * m + Z
      /\ 2 * m + Z < 2 * LZ + 2 * Z
  <2>1. ~(2 * zoomx > m)
    OBVIOUS
  <2> QED BY <2>1, SliceLenRounds
<1>2. L \in 2 .. m
  <2>1. m >= 2
    OBVIOUS
  <2> QED BY <2>1, SliceLenBound
<1>3. p \in Nat /\ pZ <= n /\ n < pZ + Z /\ len \in 2 .. n
  BY ViewLenIs
<1>4. len = IF p >= 2 THEN p ELSE 2
  BY DEF ViewLen
<1> HIDE DEF p, L, len
<1>5. Z \in Nat \ {0} /\ len \in Nat /\ L <= m
  BY <1>2, <1>3
<1>6. /\ LZ \in Nat /\ mD \in Nat /\ LD \in Nat /\ ZD \in Nat /\ ZLD \in Nat
      /\ pZ \in Nat /\ lenZ \in Nat
  BY <1>1, <1>3, <1>5
<1>7. n <= mD - D
  <2>1. (m - 1) * D = mD - D
    OBVIOUS
  <2> QED BY <2>1
<1> HIDE DEF Z
<1>8. m > 3 * Z
  BY DEF Z
<1>9. L >= 3
  <2>1. L <= 2 => LZ <= 2 * Z
    BY <1>1, <1>5, MultiplesOrdered
  <2> HIDE DEF LZ
  <2> QED BY <1>1, <1>5, <1>6, <1>8, <2>1
<1>10. 2 * ZLD <= 2 * mD + ZD
  <2> DEFINE x == 2 * LZ
             y == 2 * m + Z
  <2>1. x \in Int /\ y \in Int /\ x <= y
    BY <1>1, <1>5, <1>6
  <2>2. x * D = 2 * ZLD /\ y * D = 2 * mD + ZD
    BY <1>1, <1>5
  <2>3. x * D <= y * D
    <3> HIDE DEF x, y
    <3> QED BY <2>1, MultiplesOrdered
  <2> HIDE DEF x, y, ZLD, mD, ZD
  <2> QED BY <2>2, <2>3
<1>11. 2 * mD < 2 * ZLD + ZD
  <2> DEFINE x == 2 * m + Z + 1
             y == 2 * LZ + 2 * Z
  <2>1. x \in Int /\ y \in Int /\ x <= y
    <3> HIDE DEF LZ
    <3> QED BY <1>1, <1>5, <1>6
  <2>2. x * D = 2 * mD + ZD + D /\ y * D = 2 * ZLD + 2 * ZD
    BY <1>1, <1>5
  <2>3. x * D <= y * D
    <3> HIDE DEF x, y
    <3> QED BY <2>1, MultiplesOrdered
  <2> HIDE DEF x, y, ZLD, mD, ZD
  <2> QED BY <1>6, <2>2, <2>3
<1>12. lenZ >= pZ
  <2>1. p <= len
    BY <1>3, <1>4
  <2> QED BY <1>3, <1>5, <2>1, MultiplesOrdered
<1>13. (m - L) * D = mD - LD
  BY <1>1
<1>14. mD - LD >= n - len
  <2>1. CASE Z = 1
    <3>1. LZ = L /\ pZ = p
      BY <1>1, <1>3, <2>1
    <3>2. L = m /\ p = n
      <4> HIDE DEF LZ, pZ
      <4> QED BY <1>1, <1>3, <2>1, <3>1
    <3>3. len = n /\ LD = mD
      BY <1>4, <3>2
    <3> QED BY <1>3, <1>6, <3>3
  <2>2. CASE Z # 1
    <3> DEFINE e == mD - n
               X == e - LD + len
               eZ == e * Z
    <3> HIDE DEF mD, LD
    <3>1. e \in Nat /\ e >= D /\ X \in Int
      BY <1>5, <1>6, <1>7
    <3>2. X * Z = eZ - ZLD + lenZ
      BY <1>5, <1>6, <3>1
    <3> HIDE DEF e
    <3>3. eZ - e >= ZD - D /\ eZ \in Int
      <4>1. D * (Z - 1) <= e * (Z - 1)
        <5>1. Z - 1 \in Nat
          BY <1>5
        <5> QED BY <3>1, <5>1, MultiplesOrdered
      <4>2. D * (Z - 1) = ZD - D /\ e * (Z - 1) = eZ - e /\ eZ \in Int
        BY <1>5, <3>1
      <4> QED BY <4>1, <4>2
    <3>4. ZD >= 2 * D
      <4>1. 2 <= Z
        BY <1>5, <2>2
      <4>2. 2 * D <= Z * D
        BY <1>5, <4>1, MultiplesOrdered
      <4> QED BY <4>2
    <3> DEFINE XZ == X * Z
    <3>5. (0 - 1) * Z = 0 - Z
      BY <1>5
    <3> HIDE DEF X, XZ, eZ, ZLD, lenZ, ZD, pZ
    <3>6. XZ = eZ - ZLD + lenZ
      BY <3>2 DEF XZ
    <3>7. XZ > 0 - Z
      <4>1. e = mD - n
        BY DEF e
      <4>2. 2 * (eZ - ZLD + lenZ) >= 2 * (eZ - e) - ZD - 2 * Z + 2
        BY <1>3, <1>5, <1>6, <1>10, <1>12, <3>1, <3>3, <4>1
      <4>3. 2 * (eZ - e) - ZD - 2 * Z + 2 > 0 - 2 * Z
        BY <1>5, <1>6, <3>1, <3>3, <3>4
      <4> DEFINE y == eZ - ZLD + lenZ
                 w == 2 * (eZ - e) - ZD - 2 * Z + 2
      <4>4. y \in Int /\ w \in Int
        BY <1>5, <1>6, <3>1, <3>3
      <4> HIDE DEF y, w
      <4>5. 2 * y >= w /\ w > 0 - 2 * Z
        BY <4>2, <4>3 DEF y, w
      <4>6. y > 0 - Z
        BY <1>5, <4>4, <4>5
      <4> QED BY <3>6, <4>6 DEF y
    <3>8. X > 0 - 1
      <4>1. (0 - 1) * Z < X * Z
        BY <1>5, <3>1, <3>5, <3>6, <3>7, <1>6, <3>3 DEF XZ
      <4>2. 0 - 1 \in Int /\ Z \in Nat
        BY <1>5
      <4>3. 0 - 1 < X
        BY <3>1, <4>1, <4>2, Cancel
      <4> QED BY <3>1, <4>3
    <3> QED BY <1>5, <1>6, <3>1, <3>8 DEF X, e
  <2> QED BY <2>1, <2>2
<1>15. 2 * len <= 2 * LD + D
  <2>1. CASE p < 2
    <3>1. 3 * D <= L * D
      BY <1>1, <1>9, MultiplesOrdered
    <3>2. len = 2
      BY <1>3, <1>4, <2>1
    <3> HIDE DEF LD
    <3>3. 3 * D <= LD
      BY <3>1 DEF LD
    <3> QED BY <1>6, <3>2, <3>3
  <2>2. CASE ~(p < 2)
    <3> DEFINE x == 2 * len
               y == 2 * LD + D
    <3>1. len = p
      BY <1>3, <1>4, <2>2
    <3>2. x * Z = 2 * pZ /\ y * Z = 2 * ZLD + ZD
      BY <1>3, <1>5, <1>6, <3>1
    <3>3. x \in Int /\ y \in Int
      BY <1>5, <1>6
    <3> HIDE DEF pZ, ZLD, ZD, mD, x, y
    <3>4. 2 * pZ < 2 * ZLD + ZD
      BY <1>3, <1>6, <1>7, <1>11
    <3>5. x < y
      BY <1>5, <3>2, <3>3, <3>4, Cancel
    <3>6. x <= y
      BY <3>3, <3>5
    <3> QED BY <3>6 DEF x, y
  <2> QED BY <2>1, <2>2
<1>16. len <= LD + D
  <2> HIDE DEF LD
  <2> QED BY <1>5, <1>6, <1>15
<1>17. L \in 3 .. m
  BY <1>1, <1>5, <1>9
<1> QED BY <1>13, <1>14, <1>15, <1>16, <1>17, <1>5, <1>6 DEF L, len

\* What SameView says of a slice of the folds f of n frames.
SameSlice(s, n, span) ==
  LET z == Share(Len(s) - SliceLen(Len(s)))
      len == ViewLen(n)
      left == Share(n - len) IN
  /\ s[z + 1].from - (left + 1) \in -span .. span
  /\ s[z + SliceLen(Len(s))].to - (left + len) \in -span .. span

\* Of the frames themselves it is the same but for one.
LEMMA SameOfFrames ==
  ASSUME LoadInv, Unfolds, Len(fd) >= 2, zoomx \in Nat \ {0}, posx \in Positions
  PROVE  SameSlice(fd, Len(fd), 1)
<1> DEFINE n == Len(fd)
           L == SliceLen(n)
           p == n \div zoomx
           len == ViewLen(n)
           c == n - L
           d == n - len
           z == Share(c)
           left == Share(d)
<1>1. n \in Nat /\ n >= 2
  BY FdLaid
<1>2. \A i \in 1 .. n : fd[i].from = i /\ fd[i].to = i
  BY DEF Unfolds
<1> HIDE DEF n
<1>3. L \in 2 .. n
  BY <1>1, SliceLenBound
<1>4. p \in Nat /\ p * zoomx <= n /\ n < p * zoomx + zoomx /\ len \in 2 .. n
  BY <1>1, ViewLenIs
<1>5. len = IF p >= 2 THEN p ELSE 2
  BY DEF ViewLen
<1>6. L = len \/ L = len + 1
  <2>1. CASE 2 * zoomx > n
    <3>1. L = 2
      BY <2>1 DEF SliceLen
    <3>2. ~(p >= 2)
      <4> SUFFICES ASSUME p >= 2 PROVE FALSE
        OBVIOUS
      <4> HIDE DEF p
      <4>1. 2 * zoomx <= p * zoomx
        BY <1>4, MultiplesOrdered
      <4> DEFINE pz == p * zoomx
      <4>2. pz \in Int /\ pz <= n /\ 2 * zoomx <= pz
        BY <1>4, <4>1
      <4> HIDE DEF pz
      <4> QED BY <1>1, <2>1, <4>2
    <3> QED BY <1>5, <3>1, <3>2
  <2>2. CASE ~(2 * zoomx > n)
    <3> DEFINE Lz == L * zoomx
               pz == p * zoomx
    <3>1. 2 * Lz <= 2 * n + zoomx /\ 2 * n + zoomx < 2 * Lz + 2 * zoomx
      BY <1>1, <2>2, SliceLenRounds
    <3> HIDE DEF p, L
    <3>2. Lz \in Int /\ pz \in Int /\ pz <= n /\ n < pz + zoomx /\ L \in Nat
      BY <1>3, <1>4
    <3>3. p < L + 1
      <4>1. (L + 1) * zoomx = Lz + zoomx
        BY <1>3
      <4> HIDE DEF Lz, pz
      <4>2. pz < Lz + zoomx
        BY <1>1, <3>1, <3>2
      <4>3. p * zoomx < (L + 1) * zoomx
        BY <4>1, <4>2 DEF pz
      <4> QED BY <1>4, <3>2, <4>3, Cancel
    <3>4. L < p + 2
      <4>1. (p + 2) * zoomx = pz + 2 * zoomx
        BY <1>4
      <4> HIDE DEF Lz, pz
      <4>2. Lz < pz + 2 * zoomx
        BY <1>1, <3>1, <3>2
      <4>3. L * zoomx < (p + 2) * zoomx
        BY <4>1, <4>2 DEF Lz
      <4> QED BY <1>4, <3>2, <4>3, Cancel
    <3>5. p >= 2
      <4> SUFFICES ASSUME p <= 1 PROVE FALSE
        BY <1>4
      <4>1. p * zoomx <= 1 * zoomx
        BY <1>4, MultiplesOrdered
      <4> HIDE DEF Lz
      <4>2. pz <= zoomx
        BY <4>1
      <4> HIDE DEF pz
      <4> QED BY <1>1, <2>2, <3>2, <4>2
    <3> QED BY <1>4, <1>5, <3>2, <3>3, <3>4, <3>5
  <2> QED BY <2>1, <2>2
<1> HIDE DEF L, len, p
<1>7. c \in Nat /\ d \in Nat /\ (c = d \/ d = c + 1)
  BY <1>1, <1>3, <1>4, <1>6
<1>8. z \in 0 .. c /\ left \in 0 .. d
  BY <1>7, ShareIs
<1>9. IF c = d THEN z = left ELSE z <= left /\ left <= z + 1
  <2>1. CASE c = d
    BY <2>1
  <2>2. CASE c # d
    <3> HIDE DEF c, d
    <3> DEFINE D == 1
    <3>1. D \in Nat \ {0} /\ d * D >= c /\ d * D - c = 1
      BY <1>7, <2>2
    <3> HIDE DEF D
    <3>2. /\ Share(d) * D - Share(c) <= d * D - c
          /\ Share(d) * D + D > Share(c)
      BY <1>7, <3>1, SharesApart
    <3> HIDE DEF z, left
    <3>3. left * D - z <= 1 /\ left * D + D > z
      BY <3>1, <3>2 DEF z, left
    <3> USE DEF D
    <3> QED BY <1>8, <2>2, <3>3
  <2> QED BY <2>1, <2>2
<1> HIDE DEF z, left
<1>10. z + 1 \in 1 .. n /\ z + L \in 1 .. n
  BY <1>1, <1>3, <1>7, <1>8 DEF c
<1>11. fd[z + 1].from = z + 1 /\ fd[z + L].to = z + L
  BY <1>2, <1>10
<1>12. (z + 1) - (left + 1) \in -1 .. 1
  BY <1>7, <1>8, <1>9
<1>13. (z + L) - (left + len) \in -1 .. 1
  <2>1. IF L = len THEN c = d ELSE d = c + 1
    BY <1>1, <1>3, <1>4, <1>6 DEF c, d
  <2> HIDE DEF c, d
  <2> QED BY <1>3, <1>4, <1>6, <1>7, <1>8, <1>9, <2>1
<1> QED BY <1>11, <1>12, <1>13 DEF SameSlice, z, c, left, d, L, len, n

\* Of the folds of a cache with enough of them it is the same but for a span.
LEMMA SameOfFolds ==
  ASSUME NEW n \in Nat, n >= 2, zoomx \in Nat \ {0}, posx \in Positions,
         NEW s, NEW f \in FoldSize, Laid(s, n, f), Ahead(s, n, f),
         Len(s) > 3 * zoomx, 2 * f.span >= 3 * f.stride - 1
  PROVE  SameSlice(s, n, f.span)
<1> DEFINE m == Len(s)
           D == f.stride
           span == f.span
           L == SliceLen(m)
           len == ViewLen(n)
           c == m - L
           d == n - len
           z == Share(c)
           left == Share(d)
           mD == m * D
           LD == L * D
           zD == z * D
<1>1. D \in Nat \ {0} /\ span \in Nat \ {0} /\ m \in Nat
  BY LenProperties DEF FoldSize, Laid
<1>2. /\ m * D < n + span
      /\ m > 1 => n <= (m - 1) * D
      /\ \A k \in 1 .. m :
           /\ s[k].from \in Nat /\ s[k].to \in 0 .. n
           /\ s[k].from > k * D - span
           /\ s[k].to = IF k * D < n THEN k * D ELSE n
           /\ s[k].from <= 1 \/ s[k].from <= (k - 2) * D + 1
  BY DEF Laid, Ahead
<1>3. m > 3 * zoomx /\ 2 * span >= 3 * D - 1
  OBVIOUS
<1> HIDE DEF m, D, span
<1>4. n <= (m - 1) * D
  BY <1>1, <1>2, <1>3
<1>5. /\ L \in 3 .. m
      /\ (m - L) * D >= n - len
      /\ len <= LD + D
      /\ 2 * len <= 2 * LD + D
  BY <1>1, <1>3, <1>4, ViewsApart
<1>6. len \in 2 .. n
  BY ViewLenIs
<1> HIDE DEF L, len
<1>7. c \in Nat /\ d \in Nat /\ c * D >= d
  BY <1>1, <1>5, <1>6
<1>8. z \in 0 .. c /\ left \in 0 .. d /\ zD - left <= c * D - d /\ zD + D > left
  <2> HIDE DEF c, d
  <2> QED BY <1>1, <1>7, ShareIs, SharesApart
<1> HIDE DEF z, left
<1>9. mD \in Nat /\ LD \in Nat /\ zD \in Nat /\ c * D = mD - LD
  BY <1>1, <1>5, <1>7, <1>8
<1>10. z + 1 \in 1 .. m /\ z + L \in 1 .. m
  BY <1>1, <1>5, <1>7, <1>8
<1>11. /\ (z + 1) * D = zD + D
       /\ ((z + 1) - 2) * D = zD - D
       /\ (z + L) * D = zD + LD
  BY <1>1, <1>5, <1>8
<1> DEFINE from == s[z + 1].from
           to == s[z + L].to
<1>12. /\ from \in Nat /\ to \in 0 .. n
       /\ from > zD + D - span
       /\ from <= 1 \/ from <= zD - D + 1
       /\ to = IF zD + LD < n THEN zD + LD ELSE n
  <2> DEFINE k == z + 1
             j == z + L
  <2> HIDE DEF k, j
  <2>1. /\ s[k].from \in Nat
        /\ s[k].from > k * D - span
        /\ s[k].from <= 1 \/ s[k].from <= (k - 2) * D + 1
    BY <1>2, <1>10 DEF k
  <2>2. s[j].to \in 0 .. n /\ s[j].to = IF j * D < n THEN j * D ELSE n
    BY <1>2, <1>10 DEF j
  <2>3. k * D = zD + D /\ (k - 2) * D = zD - D /\ j * D = zD + LD
    BY <1>11 DEF k, j
  <2>4. from = s[k].from /\ to = s[j].to
    BY DEF k, j
  <2> HIDE DEF from, to, zD, LD
  <2>5. from \in Nat /\ from > zD + D - span /\ (from <= 1 \/ from <= zD - D + 1)
    BY <1>1, <1>9, <2>1, <2>3, <2>4
  <2>6. to \in 0 .. n /\ to = IF zD + LD < n THEN zD + LD ELSE n
    BY <1>9, <2>2, <2>3, <2>4
  <2> QED BY <2>5, <2>6
<1>13. mD < n + span
  BY <1>2
<1>14. zD - left <= mD - LD - (n - len)
  BY <1>8, <1>9
<1> HIDE DEF from, to, mD, LD, zD, c
<1>15. from - (left + 1) \in -span .. span
  <2>1. from - (left + 1) >= -span
    BY <1>1, <1>7, <1>8, <1>9, <1>12
  <2>2. zD - D - left <= span
    BY <1>1, <1>5, <1>6, <1>8, <1>9, <1>13, <1>14
  <2>3. from - (left + 1) <= span
    BY <1>1, <1>7, <1>8, <1>9, <1>12, <2>2
  <2> QED BY <1>1, <1>7, <1>8, <1>12, <2>1, <2>3
<1>16. to - (left + len) \in -span .. span
  <2>1. left <= n - len
    BY <1>8
  <2>2. zD + LD - (left + len) <= span
    BY <1>1, <1>6, <1>8, <1>9, <1>13, <1>14
  <2>3. zD + LD - (left + len) >= -span
    <3>1. zD + LD - (left + len) >= LD - len - D + 1
      BY <1>1, <1>6, <1>8, <1>9
    <3>2. 2 * (LD - len - D + 1) >= -2 * span
      BY <1>1, <1>3, <1>5, <1>6, <1>9
    <3> QED BY <1>1, <1>6, <1>8, <1>9, <3>1, <3>2
  <2>4. to <= zD + LD
    BY <1>9, <1>12
  <2>5. to - (left + len) <= span
    BY <1>1, <1>6, <1>8, <1>9, <1>12, <2>2, <2>4
  <2>6. to - (left + len) >= -span
    BY <1>1, <1>6, <1>8, <1>9, <1>12, <2>1, <2>3
  <2> QED BY <1>1, <1>6, <1>8, <1>12, <2>5, <2>6
<1> QED BY <1>15, <1>16 DEF SameSlice, from, to, z, c, left, d, L, len, m, span

\* Whatever cache is drawn from, what is seen is the part of the recording that
\* the zoom and the position select, but for the length of a fold at each end
\* (draw, over the caches of load_file): for every file, zoom and position, and
\* every window of two steps at least, of which the code's has four.
THEOREM SeesSelection ==
  ASSUME Window >= 2 * Step
  PROVE  Spec => []SameView
<1>1. ASSUME LoadInv, CacheInv, LaidInv, phase = "view", Len(fd) >= 2
      PROVE  LET len == Max({2, Len(fd) \div zoomx})
                 left == ((Len(fd) - len) * posx) \div PosUnits IN
             /\ Head(Shown).from - (left + 1) \in -SpanOf(Level) .. SpanOf(Level)
             /\ Last(Shown).to - (left + len) \in -SpanOf(Level) .. SpanOf(Level)
  <2> DEFINE n == Len(fd)
             s == LevelFrames(Level)
             m == Len(s)
             L == SliceLen(m)
             z == Zero(m)
             len == Max({2, Len(fd) \div zoomx})
             left == ((Len(fd) - len) * posx) \div PosUnits
             span == SpanOf(Level)
  <2>1. n \in Nat /\ zoomx \in Nat \ {0} /\ posx \in Positions
    BY <1>1, FdLaid, InputAssumption DEF CacheInv, LaidInv
  <2>2. Level \in 0 .. Len(fdcache) /\ Len(fdcache) \in Nat /\ Len(fdcache) <= MaxCaches
    BY <1>1, LevelIs, LenProperties DEF CacheInv
  <2>3. m \in Nat /\ m >= 2
    BY <1>1, ShownLen
  <2>4. SameSlice(s, n, span) /\ (\E S : s \in Seq(S))
    <3>1. CASE Level = 0
      <4>1. SameSlice(fd, n, 1)
        BY <1>1, <2>1, SameOfFrames DEF LaidInv
      <4>2. span = 1
        BY <3>1, FoldOfIs DEF SpanOf
      <4>3. s = fd /\ fd \in Seq(Frame)
        BY <1>1, <3>1 DEF LevelFrames, LoadInv
      <4> HIDE DEF s, n, span
      <4> QED BY <4>1, <4>2, <4>3
    <3>2. CASE Level # 0
      <4>1. Level \in 1 .. Len(fdcache) /\ Level \in 0 .. MaxCaches /\ s = fdcache[Level]
        BY <2>2, <3>2 DEF LevelFrames
      <4>2. Laid(s, n, FoldOf[Level]) /\ Ahead(s, n, FoldOf[Level])
        BY <1>1, <4>1 DEF LaidInv, CachesLaid
      <4>3. m > TotalCache * zoomx
        BY <1>1, <3>2, <4>1, LevelIs
      <4>4. m > 3 * zoomx
        <5> DEFINE tz == TotalCache * zoomx
        <5>1. 3 * zoomx <= tz /\ tz \in Int
          BY <2>1, TotalCacheType, MultiplesOrdered
        <5> HIDE DEF tz, m
        <5>2. m > tz
          BY <4>3 DEF tz
        <5> QED BY <2>1, <2>3, <5>1, <5>2
      <4>5. FoldOf[Level] \in FoldSize /\ 2 * FoldOf[Level].span >= 3 * FoldOf[Level].stride - 1
        BY <4>1, FoldOfIs, SpanCovers
      <4>6. n >= 2
        BY <1>1
      <4> DEFINE f == FoldOf[Level]
      <4> HIDE DEF s, n, f
      <4>7. SameSlice(s, n, f.span)
        <5>1. Len(s) > 3 * zoomx
          BY <4>4
        <5>2. /\ f \in FoldSize /\ 2 * f.span >= 3 * f.stride - 1
              /\ Laid(s, n, f) /\ Ahead(s, n, f)
          BY <4>2, <4>5 DEF f
        <5> QED BY <2>1, <4>6, <5>1, <5>2, SameOfFolds
      <4> QED BY <4>2, <4>7 DEF Laid, SpanOf, f
    <3> QED BY <3>1, <3>2
  <2>5. PICK S : s \in Seq(S)
    BY <2>4
  <2> HIDE DEF s
  <2>6. L \in 2 .. m /\ z \in Nat /\ z + L <= m
    <3> HIDE DEF m
    <3> QED BY <2>1, <2>3, SliceLenBound, SliceInside
  <2>7. Head(Shown) = s[z + 1] /\ Last(Shown) = s[z + L]
    <3> DEFINE a == z + 1
               b == z + L
    <3>1. Shown = SubSeq(s, a, b)
      BY DEF Shown, Slice, s
    <3> HIDE DEF L, z
    <3>2. a \in 1 .. m /\ b \in 1 .. m /\ a <= b /\ b - a + 1 = L
      BY <2>3, <2>6
    <3>3. \A i \in a .. b : s[i] \in S
      <4>1. \A i \in a .. b : i \in 1 .. m
        BY <2>3, <3>2
      <4> QED BY <2>5, <4>1, ElementOfSeq
    <3> HIDE DEF a, b
    <3>4. /\ SubSeq(s, a, b) \in Seq(S) /\ Len(SubSeq(s, a, b)) = b - a + 1
          /\ \A i \in 1 .. b - a + 1 : SubSeq(s, a, b)[i] = s[a + i - 1]
      BY <3>2, <3>3, SubSeqProperties
    <3>5. /\ 1 \in 1 .. b - a + 1 /\ a + 1 - 1 = a
          /\ L \in 1 .. b - a + 1 /\ a + L - 1 = b
      BY <2>3, <2>6, <3>2
    <3>6. Shown \in Seq(S) /\ Len(Shown) = L /\ Shown[1] = s[a] /\ Shown[L] = s[b]
      BY <3>1, <3>2, <3>4, <3>5
    <3>7. Shown # <<>>
      <4>1. Len(Shown) # 0
        BY <2>6, <3>6
      <4> QED BY <3>6, <4>1, EmptySeq
    <3>8. Head(Shown) = Shown[1] /\ Last(Shown) = Shown[Len(Shown)]
      BY <3>6, <3>7, HeadTailProperties DEF Last
    <3> QED BY <3>6, <3>8 DEF a, b
  <2>8. z = Share(m - L) /\ len = ViewLen(n) /\ left = Share(n - len)
    <3>1. len = ViewLen(n)
      BY <1>1, <2>1, ViewLenIs
    <3>2. z = Share(m - L) /\ left = Share(n - len)
      BY DEF Zero, Share
    <3> QED BY <3>1, <3>2
  <2>9. /\ s[z + 1].from - (left + 1) \in -span .. span
        /\ s[z + L].to - (left + len) \in -span .. span
    <3> HIDE DEF z, len, left, n, span
    <3> QED BY <2>4, <2>8 DEF SameSlice
  <2> HIDE DEF z, L, m
  <2> QED BY <2>7, <2>9
<1>2. LoadInv /\ CacheInv /\ LaidInv => SameView
  BY <1>1, Zenon DEF SameView
<1>3. LoadInv /\ CacheInv /\ LaidInv /\ [Next]_vars => LaidInv'
  BY NextLaid
<1> QED BY <1>2, <1>3, InitLoad, NextLoad, InitCache, NextCache, InitLaid, PTL DEF Spec
=============================================================================

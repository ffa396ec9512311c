----------------------------- MODULE NatProofs ------------------------------
(***************************************************************************)
(* Facts about natural numbers that the proofs share: induction, in a form *)
(* that takes a set, quotients, and the arithmetic of the sliding windows: *)
(* how their ends move from call to call, and how many there are, for      *)
(* every window, step and file.                                            *)
(***************************************************************************)
EXTENDS Windows, SequencesExt, WellFoundedInduction, SequenceTheorems, TLAPS

-----------------------------------------------------------------------------
(* Induction.                                                              *)

Less == {p \in Nat \X Nat : p[1] < p[2]}

LEMMA LessFounded == IsWellFoundedOn(Less, Nat)
BY NatLessThanWellFounded, Zenon DEF Less, OpToRel

\* A set of naturals has a least one.
LEMMA LeastNat ==
  ASSUME NEW T \in SUBSET Nat, T # {}
  PROVE  \E x \in T : \A y \in T : x <= y
<1>1. PICK x \in T : \A y \in T : ~(<<y, x>> \in Less)
  BY LessFounded, WFMin
<1>2. ASSUME NEW y \in T PROVE x <= y
  <2>1. x \in Nat /\ y \in Nat
    OBVIOUS
  <2>2. ~(y < x)
    <3>1. <<y, x>> \in Nat \X Nat /\ <<y, x>>[1] = y /\ <<y, x>>[2] = x
      BY <2>1
    <3>2. ~(<<y, x>> \in Less)
      BY <1>1
    <3> QED BY <3>1, <3>2, Zenon DEF Less
  <2> QED BY <2>1, <2>2
<1> QED BY <1>1, <1>2

\* What holds of zero and goes on from each number to the next holds of all.
LEMMA SetInduction ==
  ASSUME NEW S \in SUBSET Nat, 0 \in S, \A n \in S : n + 1 \in S
  PROVE  S = Nat
<1> SUFFICES ASSUME Nat \ S # {} PROVE FALSE
  OBVIOUS
<1>1. PICK x \in Nat \ S : \A y \in Nat \ S : x <= y
  BY LeastNat
<1>2. x # 0 /\ x - 1 \in Nat
  BY <1>1
<1>3. x - 1 \in S
  BY <1>1, <1>2
<1>4. (x - 1) + 1 \in S
  BY <1>3
<1> QED BY <1>1, <1>4

\* A set of numbers up to n has a largest one.
LEMMA LargestNat ==
  ASSUME NEW n \in Nat, NEW T \in SUBSET (0 .. n), T # {}
  PROVE  \E x \in T : \A y \in T : x >= y
<1> DEFINE U == {n - x : x \in T}
<1>1. U \in SUBSET Nat /\ U # {}
  <2>1. \A x \in T : n - x \in Nat
    OBVIOUS
  <2>2. PICK x \in T : TRUE
    OBVIOUS
  <2>3. n - x \in U
    OBVIOUS
  <2>4. ASSUME NEW u \in U PROVE u \in Nat
    BY <2>1
  <2> HIDE DEF U
  <2> QED BY <2>3, <2>4
<1>2. PICK u \in U : \A v \in U : u <= v
  <2> HIDE DEF U
  <2> QED BY <1>1, LeastNat
<1>3. PICK x \in T : u = n - x
  BY <1>2
<1>4. ASSUME NEW y \in T PROVE x >= y
  <2>1. n - y \in U
    OBVIOUS
  <2>2. n - x <= n - y
    BY <1>2, <1>3, <2>1
  <2>3. x \in Nat /\ y \in Nat
    OBVIOUS
  <2> QED BY <2>2, <2>3
<1> QED BY <1>4

-----------------------------------------------------------------------------
(* Folds from the left. FoldLeft of the community modules is defined by a  *)
(* recursive function on the subsets of the places of a sequence, which    *)
(* takes the last place away; the values it has on 1 .. i are those of the *)
(* recursion that one has in mind.                                         *)

LEMMA MaxIs ==
  ASSUME NEW T \in SUBSET Int, NEW m \in T, \A y \in T : m >= y
  PROVE  Max(T) = m
<1>1. Max(T) \in T /\ \A y \in T : Max(T) >= y
  BY Zenon DEF Max
<1>2. Max(T) >= m /\ m >= Max(T) /\ Max(T) \in Int /\ m \in Int
  BY <1>1
<1> QED BY <1>2

\* A function that FoldLeft may be.
Folding(iter, A, a, F, n) ==
  /\ iter \in [SUBSET (1 .. n) -> A]
  /\ \A T \in SUBSET (1 .. n) :
       iter[T] = IF T = {} THEN a ELSE F[<<iter[T \ {Max(T)}], Max(T)>>]

LEMMA FoldingExists ==
  ASSUME NEW A, NEW a \in A, NEW n \in Nat, NEW F \in [A \X (1 .. n) -> A]
  PROVE  \E iter : Folding(iter, A, a, F, n)
<1> DEFINE S == {m \in Nat : m <= n => \E iter : Folding(iter, A, a, F, m)}
<1>1. 0 \in S
  <2> DEFINE iter == [T \in SUBSET (1 .. 0) |-> a]
  <2>1. SUBSET (1 .. 0) = {{}}
    OBVIOUS
  <2>2. iter \in [SUBSET (1 .. 0) -> A] /\ iter[{}] = a
    BY <2>1
  <2>3. Folding(iter, A, a, F, 0)
    BY <2>1, <2>2 DEF Folding
  <2> QED BY <2>3
<1>2. ASSUME NEW m \in S PROVE m + 1 \in S
  <2> SUFFICES ASSUME m + 1 <= n PROVE \E iter : Folding(iter, A, a, F, m + 1)
    OBVIOUS
  <2>1. m \in Nat /\ m <= n /\ m + 1 \in 1 .. n
    OBVIOUS
  <2>2. PICK old : Folding(old, A, a, F, m)
    BY <2>1
  <2>3. old \in [SUBSET (1 .. m) -> A]
    BY <2>2 DEF Folding
  <2> DEFINE new == [T \in SUBSET (1 .. m + 1) |->
                       IF m + 1 \in T THEN F[<<old[T \ {m + 1}], m + 1>>] ELSE old[T]]
  <2>4. ASSUME NEW T \in SUBSET (1 .. m + 1)
        PROVE  /\ T \ {m + 1} \in SUBSET (1 .. m)
               /\ m + 1 \notin T => T \in SUBSET (1 .. m)
               /\ m + 1 \in T => Max(T) = m + 1
    <3>1. \A x \in T : x \in 1 .. m + 1 /\ (x # m + 1 => x \in 1 .. m)
      BY <2>1
    <3>2. T \ {m + 1} \in SUBSET (1 .. m) /\ (m + 1 \notin T => T \in SUBSET (1 .. m))
      BY <3>1
    <3>3. T \in SUBSET Int /\ \A x \in T : m + 1 >= x
      BY <2>1, <3>1
    <3>4. m + 1 \in T => Max(T) = m + 1
      BY <3>3, MaxIs
    <3> QED BY <3>2, <3>4
  <2>5. ASSUME NEW T \in SUBSET (1 .. m + 1) PROVE new[T] \in A
    <3>1. CASE m + 1 \in T
      <4>1. old[T \ {m + 1}] \in A
        BY <2>3, <2>4
      <4>2. <<old[T \ {m + 1}], m + 1>> \in A \X (1 .. n)
        BY <2>1, <4>1
      <4> QED BY <3>1, <4>2
    <3>2. CASE m + 1 \notin T
      BY <2>3, <2>4, <3>2
    <3> QED BY <3>1, <3>2
  <2>6. new \in [SUBSET (1 .. m + 1) -> A]
    BY <2>5
  <2>7. ASSUME NEW U \in SUBSET (1 .. m) PROVE new[U] = old[U]
    <3>1. U \in SUBSET (1 .. m + 1) /\ m + 1 \notin U
      BY <2>1
    <3> QED BY <3>1
  <2>8. ASSUME NEW T \in SUBSET (1 .. m + 1)
        PROVE  new[T] = IF T = {} THEN a ELSE F[<<new[T \ {Max(T)}], Max(T)>>]
    <3>1. CASE m + 1 \in T
      <4>1. new[T] = F[<<old[T \ {m + 1}], m + 1>>]
        BY <3>1
      <4>2. new[T \ {m + 1}] = old[T \ {m + 1}] /\ Max(T) = m + 1
        BY <2>4, <2>7, <3>1
      <4> HIDE DEF new
      <4> QED BY <3>1, <4>1, <4>2
    <3>2. CASE m + 1 \notin T
      <4>1. T \in SUBSET (1 .. m) /\ new[T] = old[T]
        BY <2>4, <2>7, <3>2
      <4>2. old[T] = IF T = {} THEN a ELSE F[<<old[T \ {Max(T)}], Max(T)>>]
        BY <2>2, <4>1 DEF Folding
      <4>3. new[T \ {Max(T)}] = old[T \ {Max(T)}]
        <5>1. T \ {Max(T)} \in SUBSET (1 .. m)
          BY <4>1
        <5> QED BY <2>7, <5>1
      <4> HIDE DEF new
      <4> QED BY <4>1, <4>2, <4>3
    <3> QED BY <3>1, <3>2
  <2> HIDE DEF new
  <2> QED BY <2>6, <2>8 DEF Folding
<1>3. S = Nat
  <2> HIDE DEF S
  <2>1. S \in SUBSET Nat
    BY DEF S
  <2> QED BY <1>1, <1>2, <2>1, SetInduction
<1>4. n \in S
  BY <1>3
<1> QED BY <1>4

\* Its values on 1 .. i.
Running(iter, A, a, F, n) ==
  /\ iter[1 .. 0] = a
  /\ \A i \in 0 .. n : iter[1 .. i] \in A
  /\ \A i \in 1 .. n : iter[1 .. i] = F[<<iter[1 .. (i - 1)], i>>]

LEMMA FoldingValues ==
  ASSUME NEW A, NEW a \in A, NEW n \in Nat, NEW F \in [A \X (1 .. n) -> A],
         NEW iter, Folding(iter, A, a, F, n)
  PROVE  Running(iter, A, a, F, n)
<1>1. iter[1 .. 0] = a
  <2>1. 1 .. 0 = {} /\ {} \in SUBSET (1 .. n)
    OBVIOUS
  <2> QED BY <2>1 DEF Folding
<1>2. ASSUME NEW i \in 0 .. n PROVE iter[1 .. i] \in A
  <2>1. 1 .. i \in SUBSET (1 .. n)
    OBVIOUS
  <2> QED BY <2>1 DEF Folding
<1>3. ASSUME NEW i \in 1 .. n PROVE iter[1 .. i] = F[<<iter[1 .. (i - 1)], i>>]
  <2>1. 1 .. i \in SUBSET (1 .. n) /\ 1 .. i # {} /\ i \in 1 .. i
    OBVIOUS
  <2>2. Max(1 .. i) = i
    <3>1. 1 .. i \in SUBSET Int /\ \A y \in 1 .. i : i >= y
      OBVIOUS
    <3> QED BY <2>1, <3>1, MaxIs
  <2>3. (1 .. i) \ {i} = 1 .. (i - 1)
    OBVIOUS
  <2> QED BY <2>1, <2>2, <2>3 DEF Folding
<1> QED BY <1>1, <1>2, <1>3 DEF Running

\* A function that is defined by such an equation is one, whatever it would be
\* for values that are not in A.
LEMMA FollowsFolding ==
  ASSUME NEW A, NEW a \in A, NEW n \in Nat, NEW F \in [A \X (1 .. n) -> A],
         NEW iter, iter = [T \in SUBSET (1 .. n) |-> iter[T]], iter[{}] = a,
         \A T \in SUBSET (1 .. n) :
           T # {} /\ iter[T \ {Max(T)}] \in A => iter[T] = F[<<iter[T \ {Max(T)}], Max(T)>>]
  PROVE  Folding(iter, A, a, F, n)
<1>1. ASSUME NEW T \in SUBSET (1 .. n), T # {}
      PROVE  Max(T) \in T /\ \A y \in T : Max(T) >= y
  <2>1. T \in SUBSET (0 .. n)
    OBVIOUS
  <2>2. \E x \in T : \A y \in T : x >= y
    BY <1>1, <2>1, LargestNat
  <2> QED BY <2>2, Zenon DEF Max
<1> DEFINE S == {m \in Nat : m <= n => \A T \in SUBSET (1 .. m) : iter[T] \in A}
<1>2. 0 \in S
  <2>1. \A T \in SUBSET (1 .. 0) : T = {}
    OBVIOUS
  <2>2. \A T \in SUBSET (1 .. 0) : iter[T] \in A
    BY <2>1, Zenon
  <2> QED BY <2>2
<1>3. ASSUME NEW m \in S PROVE m + 1 \in S
  <2> SUFFICES ASSUME m + 1 <= n
               PROVE  \A T \in SUBSET (1 .. m + 1) : T # {} => iter[T] \in A
    <3>1. m \in Nat
      OBVIOUS
    <3>2. (m + 1 <= n => \A T \in SUBSET (1 .. m + 1) : iter[T] \in A) => m + 1 \in S
      <4>1. m + 1 \in Nat
        BY <3>1
      <4> QED BY <4>1, Zenon
    <3>3. iter[{}] \in A
      OBVIOUS
    <3> HIDE DEF S
    <3> QED BY <3>2, <3>3, Zenon
  <2> SUFFICES ASSUME NEW T \in SUBSET (1 .. m + 1), T # {} PROVE iter[T] \in A
    OBVIOUS
  <2>1. m \in Nat /\ m <= n /\ \A U \in SUBSET (1 .. m) : iter[U] \in A
    <3>1. m \in Nat /\ (m <= n => \A U \in SUBSET (1 .. m) : iter[U] \in A)
      BY Zenon
    <3>2. m <= n
      BY <3>1
    <3> QED BY <3>1, <3>2, Zenon
  <2>2. T \in SUBSET (1 .. n)
    BY <2>1
  <2>3. Max(T) \in 1 .. n /\ Max(T) \in T /\ \A y \in T : Max(T) >= y
    BY <1>1, <2>2
  <2>4. T \ {Max(T)} \in SUBSET (1 .. m)
    <3>1. ASSUME NEW y \in T \ {Max(T)} PROVE y \in 1 .. m
      <4>1. y \in 1 .. m + 1 /\ Max(T) \in 1 .. m + 1 /\ Max(T) >= y /\ y # Max(T)
        BY <2>3
      <4> QED BY <2>1, <4>1
    <3> QED BY <3>1
  <2>5. <<iter[T \ {Max(T)}], Max(T)>> \in A \X (1 .. n)
    BY <2>1, <2>3, <2>4
  <2> QED BY <2>1, <2>2, <2>4, <2>5
<1>4. S = Nat
  <2> HIDE DEF S
  <2>1. S \in SUBSET Nat
    BY DEF S
  <2> QED BY <1>2, <1>3, <2>1, SetInduction
<1>5. \A T \in SUBSET (1 .. n) : iter[T] \in A
  <2>0. n \in S
    BY <1>4, Zenon
  <2>1. n <= n => \A T \in SUBSET (1 .. n) : iter[T] \in A
    BY <2>0, Zenon
  <2> HIDE DEF S
  <2>2. n <= n
    OBVIOUS
  <2> QED BY <2>1, <2>2, Zenon
<1>6. iter \in [SUBSET (1 .. n) -> A]
  BY <1>5
<1>7. ASSUME NEW T \in SUBSET (1 .. n), T # {}
      PROVE  iter[T] = F[<<iter[T \ {Max(T)}], Max(T)>>]
  <2>1. T \ {Max(T)} \in SUBSET (1 .. n)
    OBVIOUS
  <2>2. iter[T \ {Max(T)}] \in A
    BY <1>5, <2>1
  <2> QED BY <1>7, <2>2
<1> QED BY <1>6, <1>7 DEF Folding

-----------------------------------------------------------------------------
(* Sums.                                                                   *)

Sum(s) == FoldLeft(+, 0, s)

\* p[i] is the sum of the first i of s.
PartialSums(p, s) ==
  /\ p \in [0 .. Len(s) -> Int]
  /\ p[0] = 0
  /\ \A i \in 1 .. Len(s) : p[i] = p[i - 1] + s[i]

LEMMA SumPrefixes ==
  ASSUME NEW s \in Seq(Int)
  PROVE  \E p : PartialSums(p, s) /\ Sum(s) = p[Len(s)]
<1> DEFINE n == Len(s)
           F == [q \in Int \X (1 .. n) |-> q[1] + s[q[2]]]
           Fits(iter) == iter = [T \in SUBSET (1 .. n) |->
                                   IF T = {} THEN 0 ELSE iter[T \ {Max(T)}] + s[Max(T)]]
           It == CHOOSE iter : Fits(iter)
<1>1. n \in Nat /\ DOMAIN s = 1 .. n /\ \A i \in 1 .. n : s[i] \in Int
  BY LenProperties, ElementOfSeq
<1>2. Sum(s) = It[1 .. n]
  BY <1>1 DEF Sum, FoldLeft, MapThenFoldSet
<1>3. F \in [Int \X (1 .. n) -> Int]
  <2>1. ASSUME NEW q \in Int \X (1 .. n) PROVE q[1] + s[q[2]] \in Int
    <3>1. q[1] \in Int /\ s[q[2]] \in Int
      BY <1>1
    <3> QED BY <3>1
  <2> QED BY <2>1
<1>4. ASSUME NEW x \in Int, NEW m \in 1 .. n PROVE F[<<x, m>>] = x + s[m]
  OBVIOUS
<1> HIDE DEF n, F
<1>5. ASSUME NEW T \in SUBSET (1 .. n), T # {} PROVE Max(T) \in 1 .. n
  <2>1. T \in SUBSET (0 .. n)
    BY <1>1
  <2>2. \E x \in T : \A y \in T : x >= y
    BY <1>1, <1>5, <2>1, LargestNat
  <2>3. Max(T) \in T
    BY <2>2, Zenon DEF Max
  <2> QED BY <2>3
<1>6. \E iter : Fits(iter)
  <2>1. PICK iter : Folding(iter, Int, 0, F, n)
    <3>1. n \in Nat /\ 0 \in Int
      BY <1>1
    <3> HIDE DEF Fits
    <3> QED BY <1>3, <3>1, FoldingExists, Zenon
  <2>2. ASSUME NEW T \in SUBSET (1 .. n), T # {}
        PROVE  iter[T] = iter[T \ {Max(T)}] + s[Max(T)]
    <3>1. T \ {Max(T)} \in SUBSET (1 .. n)
      OBVIOUS
    <3>2. iter[T \ {Max(T)}] \in Int
      BY <2>1, <3>1 DEF Folding
    <3>3. iter[T] = F[<<iter[T \ {Max(T)}], Max(T)>>]
      BY <2>1, <2>2 DEF Folding
    <3> QED BY <1>4, <1>5, <2>2, <3>2, <3>3
  <2>3. iter[{}] = 0 /\ iter = [T \in SUBSET (1 .. n) |-> iter[T]]
    BY <2>1 DEF Folding
  <2>4. \A T \in SUBSET (1 .. n) :
          iter[T] = IF T = {} THEN 0 ELSE iter[T \ {Max(T)}] + s[Max(T)]
    BY <2>2, <2>3
  <2> QED BY <2>3, <2>4
<1>7. Fits(It)
  BY <1>6, Zenon
<1> HIDE DEF It
<1>8. Folding(It, Int, 0, F, n)
  <2>1. It = [T \in SUBSET (1 .. n) |-> It[T]]
    BY <1>7
  <2>2. It[{}] = 0
    <3>1. {} \in SUBSET (1 .. n)
      OBVIOUS
    <3> QED BY <1>7, <3>1
  <2>3. ASSUME NEW T \in SUBSET (1 .. n), T # {}, It[T \ {Max(T)}] \in Int
        PROVE  It[T] = F[<<It[T \ {Max(T)}], Max(T)>>]
    <3>1. It[T] = It[T \ {Max(T)}] + s[Max(T)]
      BY <1>7, <2>3
    <3> QED BY <1>4, <1>5, <2>3, <3>1
  <2> HIDE DEF Fits
  <2>4. n \in Nat /\ 0 \in Int
    BY <1>1
  <2> QED BY <1>3, <2>1, <2>2, <2>3, <2>4, FollowsFolding, Zenon
<1>9. /\ It[1 .. 0] = 0
      /\ \A i \in 0 .. n : It[1 .. i] \in Int
      /\ \A i \in 1 .. n : It[1 .. i] = F[<<It[1 .. (i - 1)], i>>]
  <2> HIDE DEF Fits
  <2>1. n \in Nat /\ 0 \in Int
    BY <1>1
  <2>2. Running(It, Int, 0, F, n)
    BY <1>3, <1>8, <2>1, FoldingValues, Zenon
  <2> QED BY <2>2 DEF Running
<1> DEFINE p == [i \in 0 .. n |-> It[1 .. i]]
<1>10. ASSUME NEW i \in 1 .. n PROVE p[i] = p[i - 1] + s[i]
  <2>1. i - 1 \in 0 .. n /\ i \in 0 .. n
    BY <1>1
  <2>2. It[1 .. i] = It[1 .. (i - 1)] + s[i]
    BY <1>4, <1>9, <2>1
  <2> QED BY <2>1, <2>2
<1>11. p \in [0 .. n -> Int] /\ p[0] = 0 /\ p[n] = It[1 .. n]
  BY <1>1, <1>9
<1> QED BY <1>2, <1>10, <1>11 DEF PartialSums, n

\* A part of a sequence sums up to a difference of prefixes.
LEMMA SumOfPart ==
  ASSUME NEW s \in Seq(Int), NEW p, PartialSums(p, s),
         NEW a \in Nat \ {0}, NEW b \in Nat, a <= b + 1, b <= Len(s),
         NEW t \in Seq(Int), Len(t) = b - a + 1,
         \A i \in 1 .. b - a + 1 : t[i] = s[a + i - 1]
  PROVE  Sum(t) = p[b] - p[a - 1]
<1> DEFINE m == b - a + 1
<1>1. PICK q : PartialSums(q, t) /\ Sum(t) = q[Len(t)]
  BY SumPrefixes
<1>2. m \in Nat /\ Len(t) = m /\ Len(s) \in Nat
  BY LenProperties
<1>3. /\ q[0] = 0 /\ \A i \in 0 .. m : q[i] \in Int
      /\ \A i \in 1 .. m : q[i] = q[i - 1] + t[i]
  BY <1>1, <1>2 DEF PartialSums
<1>4. /\ \A i \in 0 .. Len(s) : p[i] \in Int
      /\ \A i \in 1 .. Len(s) : p[i] = p[i - 1] + s[i]
  BY DEF PartialSums
<1>5. \A i \in 1 .. m : t[i] = s[a + i - 1]
  OBVIOUS
<1> HIDE DEF m
<1> DEFINE S == {i \in Nat : i <= m => q[i] = p[(a - 1) + i] - p[a - 1]}
<1>6. 0 \in S
  <2>1. a - 1 \in 0 .. Len(s) /\ (a - 1) + 0 = a - 1
    BY <1>2
  <2>2. p[a - 1] - p[a - 1] = 0
    <3> DEFINE x == p[a - 1]
    <3>1. x \in Int
      BY <1>4, <2>1
    <3> HIDE DEF x, S
    <3>2. x - x = 0
      BY <3>1
    <3> QED BY <3>2 DEF x
  <2>3. q[0] = p[(a - 1) + 0] - p[a - 1]
    BY <1>3, <2>1, <2>2, Zenon
  <2> QED BY <2>3
<1>7. ASSUME NEW i \in S PROVE i + 1 \in S
  <2> SUFFICES ASSUME i + 1 <= m PROVE q[i + 1] = p[(a - 1) + (i + 1)] - p[a - 1]
    OBVIOUS
  <2>1. i \in Nat /\ i <= m
    BY <1>2
  <2>2. q[i] = p[(a - 1) + i] - p[a - 1]
    BY <2>1
  <2>3. i + 1 \in 1 .. m /\ (i + 1) - 1 = i /\ i \in 0 .. m /\ i + 1 \in 0 .. m
    BY <1>2, <2>1
  <2>4. q[i + 1] = q[i] + t[i + 1]
    BY <1>3, <2>3
  <2>5. (a - 1) + (i + 1) \in 1 .. Len(s) /\ ((a - 1) + (i + 1)) - 1 = (a - 1) + i
        /\ (a - 1) + i \in 0 .. Len(s) /\ a - 1 \in 0 .. Len(s)
        /\ a + (i + 1) - 1 = (a - 1) + (i + 1)
    BY <1>2, <2>1 DEF m
  <2>6. p[(a - 1) + (i + 1)] = p[(a - 1) + i] + s[(a - 1) + (i + 1)]
    BY <1>4, <2>5
  <2>7. t[i + 1] = s[(a - 1) + (i + 1)]
    BY <1>5, <2>3, <2>5
  <2>8. p[(a - 1) + i] \in Int /\ p[a - 1] \in Int /\ s[(a - 1) + (i + 1)] \in Int
    BY <1>4, <2>5, ElementOfSeq
  <2> QED BY <2>2, <2>4, <2>6, <2>7, <2>8
<1>8. S = Nat
  <2> HIDE DEF S
  <2>1. S \in SUBSET Nat
    BY DEF S
  <2> QED BY <1>6, <1>7, <2>1, SetInduction
<1>9. m \in S
  BY <1>2, <1>8
<1>10. (a - 1) + m = b
  BY DEF m
<1> QED BY <1>1, <1>2, <1>9, <1>10

\* It is between as many of a lower and of an upper bound.
LEMMA SumBounds ==
  ASSUME NEW s \in Seq(Int), NEW p, PartialSums(p, s),
         NEW a \in Nat \ {0}, NEW b \in Nat, a <= b + 1, b <= Len(s),
         NEW lo \in Int, NEW hi \in Int, \A i \in a .. b : lo <= s[i] /\ s[i] <= hi
  PROVE  /\ (b - a + 1) * lo <= p[b] - p[a - 1]
         /\ p[b] - p[a - 1] <= (b - a + 1) * hi
<1> DEFINE m == b - a + 1
           c == a - 1
<1>1. m \in Nat /\ Len(s) \in Nat /\ c \in Nat /\ c + m = b
  BY LenProperties
<1>2. /\ \A i \in 0 .. Len(s) : p[i] \in Int
      /\ \A i \in 1 .. Len(s) : p[i] = p[i - 1] + s[i]
  BY DEF PartialSums
<1> HIDE DEF m
<1> DEFINE S == {i \in Nat : i <= m => i * lo <= p[c + i] - p[c] /\ p[c + i] - p[c] <= i * hi}
<1>3. 0 \in S
  <2>1. c \in 0 .. Len(s) /\ c + 0 = c /\ 0 * lo = 0 /\ 0 * hi = 0
    BY <1>1
  <2>2. p[c] - p[c] = 0
    BY <1>2, <2>1
  <2>3. 0 * lo <= p[c + 0] - p[c] /\ p[c + 0] - p[c] <= 0 * hi
    BY <2>1, <2>2
  <2> QED BY <2>3
<1>4. ASSUME NEW i \in S PROVE i + 1 \in S
  <2> SUFFICES ASSUME i + 1 <= m
               PROVE  /\ (i + 1) * lo <= p[c + (i + 1)] - p[c]
                      /\ p[c + (i + 1)] - p[c] <= (i + 1) * hi
    OBVIOUS
  <2>1. i \in Nat /\ i <= m
    BY <1>1
  <2>2. i * lo <= p[c + i] - p[c] /\ p[c + i] - p[c] <= i * hi
    BY <2>1
  <2>3. /\ c + (i + 1) \in 1 .. Len(s) /\ (c + (i + 1)) - 1 = c + i
        /\ c + i \in 0 .. Len(s) /\ c \in 0 .. Len(s)
        /\ c + (i + 1) \in a .. b
    BY <1>1, <2>1
  <2> DEFINE x == s[c + (i + 1)]
             d == p[c + i] - p[c]
             e == p[c + (i + 1)] - p[c]
             il == i * lo
             ih == i * hi
  <2>4. x \in Int /\ lo <= x /\ x <= hi
    BY <2>3, ElementOfSeq
  <2>5. d \in Int /\ e = d + x
    <3>1. p[c + (i + 1)] = p[c + i] + x
      BY <1>2, <2>3
    <3>2. p[c + i] \in Int /\ p[c] \in Int
      BY <1>2, <2>3
    <3> HIDE DEF x
    <3> QED BY <2>4, <3>1, <3>2
  <2>6. (i + 1) * lo = il + lo /\ (i + 1) * hi = ih + hi /\ il \in Int /\ ih \in Int
    BY <2>1
  <2> HIDE DEF x, d, e, il, ih
  <2>7. il + lo <= e /\ e <= ih + hi
    BY <2>2, <2>4, <2>5, <2>6 DEF d, il, ih
  <2> QED BY <2>6, <2>7 DEF e
<1>5. S = Nat
  <2> HIDE DEF S
  <2>1. S \in SUBSET Nat
    BY DEF S
  <2> QED BY <1>3, <1>4, <2>1, SetInduction
<1>6. m \in S
  BY <1>1, <1>5
<1> QED BY <1>1, <1>6 DEF m

-----------------------------------------------------------------------------
(* Quotients and windows.                                                  *)

\* Multiples of a step keep their order.
LEMMA MultiplesOrdered ==
  ASSUME NEW a \in Int, NEW b \in Int, NEW s \in Nat, a <= b
  PROVE  a * s <= b * s
<1> DEFINE d == b - a
<1>1. d \in Nat /\ b = a + d
  OBVIOUS
<1>2. d * s \in Nat
  BY <1>1
<1>3. b * s = a * s + d * s
  BY <1>1
<1>4. a * s \in Int /\ b * s \in Int
  OBVIOUS
<1> HIDE DEF d
<1> QED BY <1>2, <1>3, <1>4

\* What a quotient is.
LEMMA Quotient ==
  ASSUME NEW x \in Nat, NEW s \in Nat \ {0}
  PROVE  /\ x \div s \in Nat
         /\ \A q \in Int : q <= x \div s <=> q * s <= x
<1> DEFINE p == x \div s
           ps == p * s
<1>1. p \in Nat /\ ps \in Nat /\ ps <= x /\ x < ps + s
  OBVIOUS
<1>2. ASSUME NEW q \in Int, q <= p
      PROVE  q * s <= x
  <2>1. q * s <= ps
    BY <1>1, <1>2, MultiplesOrdered
  <2>2. q * s \in Int
    OBVIOUS
  <2> HIDE DEF p, ps
  <2> QED BY <1>1, <2>1, <2>2
<1>3. ASSUME NEW q \in Int, ~(q <= p)
      PROVE  ~(q * s <= x)
  <2>1. p + 1 <= q /\ p + 1 \in Int
    BY <1>1, <1>3
  <2>2. (p + 1) * s <= q * s
    BY <2>1, MultiplesOrdered
  <2>3. (p + 1) * s = ps + s
    BY <1>1
  <2>4. q * s \in Int
    OBVIOUS
  <2> HIDE DEF p, ps
  <2> QED BY <1>1, <2>2, <2>3, <2>4
<1> QED BY <1>1, <1>2, <1>3

\* Call k finds frames as long as those before have not taken them all.
LEMMA PullsFind ==
  ASSUME NEW n \in Nat, NEW s \in Nat \ {0}
  PROVE  /\ Pulls(s, n) \in Nat
         /\ \A k \in Nat : k + 1 <= Pulls(s, n) <=> k * s < n
<1>1. n + s - 1 \in Nat
  OBVIOUS
<1>2. Pulls(s, n) \in Nat /\ \A q \in Int : q <= Pulls(s, n) <=> q * s <= n + s - 1
  BY <1>1, Quotient DEF Pulls
<1>3. ASSUME NEW k \in Nat
      PROVE  k + 1 <= Pulls(s, n) <=> k * s < n
  <2>1. k + 1 <= Pulls(s, n) <=> (k + 1) * s <= n + s - 1
    BY <1>2
  <2>2. (k + 1) * s = k * s + s /\ k * s \in Nat
    OBVIOUS
  <2> DEFINE ks == k * s
  <2> HIDE DEF ks
  <2>3. ks \in Nat /\ (k + 1 <= Pulls(s, n) <=> ks + s <= n + s - 1)
    BY <2>1, <2>2 DEF ks
  <2>4. k + 1 <= Pulls(s, n) <=> ks < n
    BY <2>3
  <2> QED BY <2>4 DEF ks
<1> QED BY <1>2, <1>3

\* While there are frames the window grows, and slides once it is full.
LEMMA LowWhileFound ==
  ASSUME NEW n \in Nat, NEW s \in Nat \ {0}, NEW w \in Nat, NEW k \in Nat, k * s < n
  PROVE  Low(w, s, n, k + 1) = IF k * s + s > w THEN k * s + s - w + 1 ELSE 1
<1>1. k + 1 <= Pulls(s, n)
  BY PullsFind
<1>2. (k + 1) * s = k * s + s
  OBVIOUS
<1> QED BY <1>1, <1>2 DEF Low

LEMMA LowType ==
  ASSUME NEW n \in Nat, NEW s \in Nat \ {0}, NEW w \in Nat, NEW k \in Nat
  PROVE  Low(w, s, n, k) \in Nat \ {0}
<1> DEFINE p == Pulls(s, n)
<1>1. p \in Nat
  BY PullsFind
<1> HIDE DEF p
<1>2. \A full \in Int : (IF full > w THEN full - w + 1 ELSE 1) \in Nat \ {0}
  OBVIOUS
<1>3. k * s \in Int /\ p * s \in Int
  BY <1>1
<1>4. k > p => s * (k - p) \in Nat
  <2>1. k > p => k - p \in Nat
    BY <1>1
  <2> QED BY <2>1
<1> DEFINE full == IF k <= p THEN k * s ELSE p * s
           begin == IF full > w THEN full - w + 1 ELSE 1
<1>5. begin \in Nat \ {0}
  BY <1>2, <1>3
<1>6. Low(w, s, n, k) = IF k <= p THEN begin ELSE begin + s * (k - p)
  BY DEF Low, p
<1> HIDE DEF begin
<1> QED BY <1>1, <1>4, <1>5, <1>6

LEMMA LowPastPulls ==
  ASSUME NEW n \in Nat, NEW s \in Nat \ {0}, NEW w \in Nat, NEW k \in Nat,
         ~(k <= Pulls(s, n))
  PROVE  Low(w, s, n, k) = Low(w, s, n, Pulls(s, n)) + s * (k - Pulls(s, n))
<1>1. Pulls(s, n) <= Pulls(s, n)
  BY PullsFind
<1> QED BY <1>1, Zenon DEF Low

\* After them it loses a step per call.
LEMMA LowWhenEnded ==
  ASSUME NEW n \in Nat, NEW s \in Nat \ {0}, NEW w \in Nat, NEW k \in Nat, ~(k * s < n)
  PROVE  Low(w, s, n, k + 1) = Low(w, s, n, k) + s
<1> DEFINE p == Pulls(s, n)
           b == Low(w, s, n, p)
           d == k - p
<1>1. p \in Nat /\ ~(k + 1 <= p) /\ p <= p
  BY PullsFind
<1>2. b \in Int
  BY <1>1, LowType
<1>3. Low(w, s, n, k + 1) = b + s * ((k + 1) - p)
  BY <1>1, LowPastPulls
<1>4. Low(w, s, n, k) = b + s * d
  <2>1. CASE k = p
    <3>1. s * d = 0
      BY <1>1, <2>1
    <3> QED BY <1>2, <2>1, <3>1
  <2>2. CASE ~(k <= p)
    BY <1>1, <2>2, LowPastPulls
  <2> HIDE DEF p
  <2> QED BY <1>1, <2>1, <2>2
<1>5. d \in Int /\ (k + 1) - p = d + 1
  BY <1>1
<1> HIDE DEF b, p, d
<1>6. s * (d + 1) = s * d + s /\ s * d \in Int
  BY <1>5
<1> QED BY <1>2, <1>3, <1>4, <1>5, <1>6

\* There is a fold for every call whose window begins inside the file.
LEMMA CountReached ==
  ASSUME NEW n \in Nat \ {0}, NEW s \in Nat \ {0}, NEW w \in Nat, w >= s, NEW k \in Nat
  PROVE  /\ Count(w, s, n) \in Nat
         /\ k + 1 <= Count(w, s, n) <=> Low(w, s, n, k + 1) <= n
<1> DEFINE p == Pulls(s, n)
           b == Low(w, s, n, p)
           m == (n - b) \div s
<1>1. p \in Nat /\ \A j \in Nat : j + 1 <= p <=> j * s < n
  BY PullsFind
<1>2. p >= 1
  <2>1. 0 * s = 0
    OBVIOUS
  <2> QED BY <1>1, <2>1
<1> DEFINE ps == (p - 1) * s
<1>3. ps \in Nat /\ ps < n
  <2>1. p - 1 \in Nat /\ (p - 1) + 1 <= p
    BY <1>1, <1>2
  <2> HIDE DEF p
  <2>2. (p - 1) * s \in Nat
    BY <2>1
  <2> QED BY <1>1, <2>1, <2>2
<1>4. b \in Nat \ {0} /\ b <= n
  <2>1. b = IF ps + s > w THEN ps + s - w + 1 ELSE 1
    <3>1. (p - 1) + 1 = p /\ p - 1 \in Nat
      BY <1>1, <1>2
    <3> QED BY <1>3, <3>1, LowWhileFound
  <2> HIDE DEF b, ps
  <2> QED BY <1>3, <2>1
<1>5. m \in Nat /\ \A q \in Int : q <= m <=> q * s <= n - b
  <2>1. n - b \in Nat
    BY <1>4
  <2> QED BY <2>1, Quotient
<1>6. Count(w, s, n) = p + m
  BY DEF Count
<1>7. CASE k + 1 <= p
  <2>1. k * s < n /\ k * s \in Nat
    BY <1>1, <1>7
  <2>2. Low(w, s, n, k + 1) = IF k * s + s > w THEN k * s + s - w + 1 ELSE 1
    BY <2>1, LowWhileFound
  <2> DEFINE ks == k * s
  <2>3. ks \in Nat /\ ks < n /\ Low(w, s, n, k + 1) = IF ks + s > w THEN ks + s - w + 1 ELSE 1
    BY <2>1, <2>2
  <2> HIDE DEF ks, m, p
  <2>4. Low(w, s, n, k + 1) <= n
    BY <2>3
  <2> QED BY <1>1, <1>5, <1>6, <1>7, <2>4
<1>8. CASE ~(k + 1 <= p)
  <2> DEFINE q == (k + 1) - p
  <2>1. q \in Nat /\ (k + 1 <= p + m <=> q <= m)
    BY <1>1, <1>5, <1>8
  <2>2. Low(w, s, n, k + 1) = b + s * q
    BY <1>8, LowPastPulls
  <2>3. s * q = q * s /\ q * s \in Nat
    BY <2>1
  <2> DEFINE qs == q * s
  <2>4. q <= m <=> qs <= n - b
    BY <1>5, <2>1
  <2> HIDE DEF qs, b
  <2>5. qs <= n - b <=> b + qs <= n
    BY <1>4, <2>3 DEF qs
  <2> QED BY <1>1, <1>5, <1>6, <2>1, <2>2, <2>3, <2>4, <2>5 DEF qs
<1> QED BY <1>1, <1>5, <1>6, <1>7, <1>8

\* The folds are enough for all frames.
LEMMA CountCovers ==
  ASSUME NEW n \in Nat, NEW s \in Nat \ {0}, NEW w \in Nat, w >= s
  PROVE  Count(w, s, n) \in Nat /\ n <= Count(w, s, n) * s
<1>1. CASE n = 0
  <2>1. Count(w, s, n) = 0 /\ 0 * s = 0
    BY <1>1 DEF Count
  <2> QED BY <1>1, <2>1
<1>2. CASE n # 0
  <2> DEFINE k == Count(w, s, n)
             ks == k * s
  <2>1. k \in Nat
    BY <1>2, CountReached
  <2>2. k + 1 <= k <=> Low(w, s, n, k + 1) <= n
    <3> HIDE DEF k
    <3>1. k + 1 <= Count(w, s, n) <=> Low(w, s, n, k + 1) <= n
      BY <1>2, <2>1, CountReached
    <3> QED BY <3>1 DEF k
  <2> HIDE DEF k
  <2>3. ASSUME k * s < n PROVE FALSE
    <3>1. Low(w, s, n, k + 1) = IF ks + s > w THEN ks + s - w + 1 ELSE 1
      BY <2>1, <2>3, LowWhileFound
    <3>2. ks \in Nat /\ ks < n
      BY <2>1, <2>3
    <3> HIDE DEF ks
    <3>3. Low(w, s, n, k + 1) <= n
      BY <1>2, <3>1, <3>2
    <3> QED BY <2>1, <2>2, <3>3
  <2>4. ks \in Nat
    BY <2>1
  <2> QED BY <2>1, <2>3, <2>4 DEF k
<1> QED BY <1>1, <1>2
LEMMA HighType ==
  ASSUME NEW n \in Nat, NEW s \in Nat \ {0}, NEW k \in Nat
  PROVE  High(s, n, k) \in Nat /\ High(s, n, k) <= n /\ (~(k * s < n) => High(s, n, k) = n)
<1>1. k * s \in Nat
  OBVIOUS
<1> QED BY <1>1 DEF High

\* The window of a fold is inside the file and holds a frame at least.
LEMMA WindowInside ==
  ASSUME NEW n \in Nat, NEW s \in Nat \ {0}, NEW w \in Nat, w >= s, NEW k \in Nat,
         k + 1 <= Count(w, s, n)
  PROVE  /\ Low(w, s, n, k + 1) \in Nat \ {0} /\ High(s, n, k + 1) \in Nat
         /\ Low(w, s, n, k + 1) <= High(s, n, k + 1) /\ High(s, n, k + 1) <= n
<1>1. k + 1 \in Nat
  OBVIOUS
<1>2. /\ Low(w, s, n, k + 1) \in Nat \ {0} /\ High(s, n, k + 1) \in Nat
      /\ High(s, n, k + 1) <= n
  BY <1>1, LowType, HighType
<1>3. n # 0
  <2>1. n = 0 => Count(w, s, n) = 0
    BY DEF Count
  <2> QED BY <2>1
<1>4. Low(w, s, n, k + 1) <= n
  BY <1>3, CountReached
<1>5. CASE (k + 1) * s < n
  <2> DEFINE ks == k * s
  <2>1. (k + 1) * s = ks + s /\ ks \in Nat
    OBVIOUS
  <2>2. High(s, n, k + 1) = ks + s
    BY <1>5, <2>1 DEF High
  <2>3. ks < n
    <3> HIDE DEF ks
    <3> QED BY <1>5, <2>1
  <2>4. Low(w, s, n, k + 1) = IF ks + s > w THEN ks + s - w + 1 ELSE 1
    BY <2>3, LowWhileFound
  <2> HIDE DEF ks
  <2> QED BY <1>2, <2>1, <2>2, <2>4
<1>6. CASE ~((k + 1) * s < n)
  BY <1>1, <1>2, <1>4, <1>6, HighType
<1> QED BY <1>5, <1>6

\* Its ends do not go back.
LEMMA WindowForward ==
  ASSUME NEW n \in Nat, NEW s \in Nat \ {0}, NEW w \in Nat, w >= s, NEW k \in Nat
  PROVE  /\ Low(w, s, n, k + 1) <= Low(w, s, n, k + 2)
         /\ High(s, n, k + 1) <= High(s, n, k + 2)
<1> DEFINE ks == k * s
           j == k + 1
           js == j * s
<1>1. j \in Nat /\ j + 1 = k + 2 /\ js = ks + s /\ ks \in Nat /\ js \in Nat
  OBVIOUS
<1>2. (k + 2) * s = js + s
  OBVIOUS
<1>3. Low(w, s, n, k + 1) \in Nat
  <2>1. k + 1 \in Nat
    OBVIOUS
  <2> QED BY <2>1, LowType
<1>4. CASE js < n
  <2>1. Low(w, s, n, j + 1) = IF js + s > w THEN js + s - w + 1 ELSE 1
    BY <1>1, <1>4, LowWhileFound
  <2>2. ks < n
    <3> HIDE DEF ks, js
    <3> QED BY <1>1, <1>4
  <2>3. Low(w, s, n, k + 1) = IF ks + s > w THEN ks + s - w + 1 ELSE 1
    BY <2>2, LowWhileFound
  <2> HIDE DEF ks, js, j
  <2>4. Low(w, s, n, k + 1) <= Low(w, s, n, j + 1)
    BY <1>1, <2>1, <2>3
  <2>5. High(s, n, k + 1) <= High(s, n, k + 2)
    <3>1. High(s, n, k + 1) = js
      BY <1>4 DEF High, js, j
    <3>2. High(s, n, k + 2) = IF js + s < n THEN js + s ELSE n
      BY <1>2 DEF High
    <3> QED BY <1>1, <1>4, <3>1, <3>2
  <2> QED BY <1>1, <2>4, <2>5
<1>5. CASE ~(js < n)
  <2>1. Low(w, s, n, j + 1) = Low(w, s, n, j) + s
    BY <1>1, <1>5, LowWhenEnded
  <2>2. High(s, n, k + 2) = n
    <3>1. ~((k + 2) * s < n) /\ k + 2 \in Nat
      <4> HIDE DEF js
      <4>1. ~(js + s < n)
        BY <1>1, <1>5
      <4> QED BY <1>2, <4>1
    <3> QED BY <3>1, HighType
  <2>3. High(s, n, k + 1) <= n
    BY <1>1, HighType
  <2> QED BY <1>1, <1>3, <2>1, <2>2, <2>3
<1> QED BY <1>4, <1>5

\* A window of two steps or more begins where a whole one would, or later, and
\* reaches back behind the window before it unless it begins with the file.
LEMMA LowBounds ==
  ASSUME NEW n \in Nat, NEW s \in Nat \ {0}, NEW w \in Nat, w >= 2 * s, NEW k \in Nat,
         k + 1 <= Count(w, s, n)
  PROVE  /\ Low(w, s, n, k + 1) >= k * s + s - w + 1
         /\ Low(w, s, n, k + 1) = 1 \/ Low(w, s, n, k + 1) <= k * s - s + 1
<1> DEFINE p == Pulls(s, n)
           j == p - 1
           js == j * s
           ks == k * s
<1>1. n # 0 /\ w >= s
  <2>1. n = 0 => Count(w, s, n) = 0
    BY DEF Count
  <2> QED BY <2>1
<1>2. ks \in Nat
  OBVIOUS
<1>3. CASE ks < n
  <2>1. Low(w, s, n, k + 1) = IF ks + s > w THEN ks + s - w + 1 ELSE 1
    BY <1>3, LowWhileFound
  <2> HIDE DEF ks
  <2> QED BY <1>2, <2>1 DEF ks
<1>4. CASE ~(ks < n)
  <2>1. p \in Nat /\ (\A i \in Nat : i + 1 <= p <=> i * s < n)
    BY PullsFind
  <2>2. ~(k + 1 <= p)
    BY <1>4, <2>1
  <2>3. p >= 1
    <3>1. 0 * s = 0 /\ 0 < n
      BY <1>1
    <3> QED BY <2>1, <3>1
  <2> HIDE DEF p
  <2>4. j \in Nat /\ j + 1 = p /\ k - j \in Nat
    BY <2>1, <2>2, <2>3
  <2>5. js < n /\ js \in Nat
    <3>1. j + 1 <= p
      BY <2>1, <2>4
    <3> QED BY <2>1, <2>4, <3>1
  <2>6. Low(w, s, n, p) = IF js + s > w THEN js + s - w + 1 ELSE 1
    BY <2>4, <2>5, LowWhileFound
  <2>7. Low(w, s, n, k + 1) = Low(w, s, n, p) + s * ((k + 1) - p)
    <3> DEFINE i == k + 1
    <3>1. i \in Nat /\ ~(i <= Pulls(s, n))
      BY <2>2 DEF p
    <3> HIDE DEF i
    <3>2. Low(w, s, n, i) = Low(w, s, n, Pulls(s, n)) + s * (i - Pulls(s, n))
      BY <3>1, LowPastPulls
    <3> QED BY <3>2, Zenon DEF i, p
  <2>8. s * ((k + 1) - p) = ks - js
    BY <2>1
  <2>9. Low(w, s, n, k + 1) <= n
    BY <1>1, CountReached
  <2>10. j = 0 \/ js >= s
    <3>1. j # 0 => 1 <= j
      BY <2>4
    <3>2. j # 0 => 1 * s <= j * s
      BY <2>4, <3>1, MultiplesOrdered
    <3> QED BY <3>2
  <2>11. j = 0 => js = 0
    OBVIOUS
  <2> HIDE DEF ks, js
  <2>12. Low(w, s, n, k + 1) = (IF js + s > w THEN js + s - w + 1 ELSE 1) + (ks - js)
    BY <2>6, <2>7, <2>8
  <2>13. js >= s
    <3>1. js = 0 => Low(w, s, n, k + 1) = 1 + ks
      BY <1>1, <1>2, <2>12
    <3> QED BY <1>2, <1>4, <2>5, <2>9, <2>10, <2>11, <3>1
  <2> QED BY <1>2, <2>5, <2>12, <2>13 DEF ks
<1> QED BY <1>3, <1>4

\* The folds go past the end by less than a window, and those before the last
\* reach it already.
LEMMA CountEnds ==
  ASSUME NEW n \in Nat \ {0}, NEW s \in Nat \ {0}, NEW w \in Nat, w >= 2 * s
  PROVE  /\ Count(w, s, n) \in Nat \ {0}
         /\ Count(w, s, n) * s <= n + w - 1
         /\ Count(w, s, n) # 1 => n <= (Count(w, s, n) - 1) * s
<1> DEFINE m == Count(w, s, n)
           k == m - 1
           ks == k * s
<1>1. w >= s /\ m \in Nat /\ n <= m * s
  BY CountCovers
<1>2. m # 0
  <2>1. 0 * s = 0
    OBVIOUS
  <2> QED BY <1>1, <2>1
<1>3. \A i \in Nat : i + 1 <= m <=> Low(w, s, n, i + 1) <= n
  BY <1>1, CountReached
<1> HIDE DEF m
<1>4. k \in Nat /\ k + 1 = m /\ ks \in Nat /\ m * s = ks + s
  BY <1>1, <1>2
<1>5. Low(w, s, n, k + 1) <= n /\ Low(w, s, n, k + 1) >= ks + s - w + 1
      /\ Low(w, s, n, k + 1) \in Nat
  <2>1. k + 1 <= m
    BY <1>1, <1>4
  <2>2. Low(w, s, n, k + 1) >= k * s + s - w + 1
    BY <1>4, <2>1, LowBounds DEF m
  <2>3. Low(w, s, n, k + 1) \in Nat
    <3> HIDE DEF k
    <3>1. k + 1 \in Nat
      BY <1>4
    <3>2. Low(w, s, n, k + 1) \in Nat \ {0}
      BY <3>1, LowType
    <3> QED BY <3>2
  <2>4. Low(w, s, n, k + 1) <= n
    BY <1>3, <1>4, <2>1
  <2> QED BY <2>2, <2>3, <2>4
<1>6. m * s <= n + w - 1
  <2> HIDE DEF k, ks
  <2> QED BY <1>4, <1>5
<1>7. ASSUME m # 1, ks < n PROVE FALSE
  <2> DEFINE low == Low(w, s, n, k + 1)
             next == Low(w, s, n, m + 1)
  <2>1. next > n /\ next \in Nat
    <3>1. ~(m + 1 <= m) /\ m + 1 \in Nat
      BY <1>1
    <3>2. ~(next <= n)
      BY <1>1, <1>3, <3>1
    <3>3. next \in Nat
      BY <3>1, LowType
    <3> HIDE DEF next
    <3> QED BY <3>2, <3>3
  <2>2. low = IF ks + s > w THEN ks + s - w + 1 ELSE 1
    BY <1>4, <1>7, LowWhileFound
  <2>3. ks >= s
    <3>1. 1 <= k
      BY <1>4, <1>7
    <3>2. 1 * s <= k * s
      BY <1>4, <3>1, MultiplesOrdered
    <3> QED BY <3>2
  <2>4. CASE m * s < n
    <3>1. next = IF m * s + s > w THEN m * s + s - w + 1 ELSE 1
      BY <1>1, <2>4, LowWhileFound
    <3> HIDE DEF next, ks, k
    <3> DEFINE ms == m * s
    <3>2. ms = ks + s
      BY <1>4
    <3>3. next = IF ms + s > w THEN ms + s - w + 1 ELSE 1
      BY <3>1
    <3> HIDE DEF ms
    <3> QED BY <1>4, <1>7, <2>1, <3>2, <3>3
  <2>5. CASE ~(m * s < n)
    <3>1. next = Low(w, s, n, m) + s
      BY <1>1, <2>5, LowWhenEnded
    <3>2. next = low + s
      BY <1>4, <3>1
    <3> HIDE DEF next, ks, k, low
    <3> QED BY <1>4, <1>7, <2>1, <2>2, <2>3, <3>2
  <2> QED BY <2>4, <2>5
<1>8. m # 1 => n <= ks
  <2> HIDE DEF ks
  <2> QED BY <1>4, <1>7
<1> QED BY <1>1, <1>2, <1>6, <1>8 DEF m

-----------------------------------------------------------------------------
(* Means of parts of a sequence that climbs.                               *)

Climbs(s) == \A i \in 2 .. Len(s) : s[i - 1] <= s[i]

LEMMA ClimbsFar ==
  ASSUME NEW s \in Seq(Nat), Climbs(s),
         NEW i \in 1 .. Len(s), NEW j \in 1 .. Len(s), i <= j
  PROVE  s[i] <= s[j]
<1> DEFINE n == Len(s)
           S == {d \in Nat : i + d <= n => s[i] <= s[i + d]}
<1>1. n \in Nat /\ \A k \in 1 .. n : s[k] \in Nat
  BY LenProperties, ElementOfSeq
<1> HIDE DEF n
<1>2. i \in 1 .. n /\ j \in 1 .. n /\ i <= j
  BY DEF n
<1>3. 0 \in S
  <2>1. i + 0 = i /\ s[i] \in Nat
    BY <1>1, <1>2
  <2>2. s[i] <= s[i + 0]
    BY <2>1
  <2> QED BY <2>2
<1>4. ASSUME NEW d \in S PROVE d + 1 \in S
  <2> SUFFICES ASSUME i + (d + 1) <= n PROVE s[i] <= s[i + (d + 1)]
    OBVIOUS
  <2>1. d \in Nat /\ i + d <= n
    BY <1>1, <1>2
  <2>2. s[i] <= s[i + d]
    BY <2>1
  <2>3. i + (d + 1) \in 2 .. n /\ (i + (d + 1)) - 1 = i + d /\ i + d \in 1 .. n
        /\ i + (d + 1) \in 1 .. n
    BY <1>1, <1>2, <2>1
  <2>4. s[i + d] <= s[i + (d + 1)]
    BY <2>3 DEF Climbs, n
  <2>5. s[i] \in Nat /\ s[i + d] \in Nat /\ s[i + (d + 1)] \in Nat
    BY <1>1, <1>2, <2>3
  <2> HIDE DEF S
  <2> QED BY <2>2, <2>4, <2>5
<1>5. S = Nat
  <2> HIDE DEF S
  <2>1. S \in SUBSET Nat
    BY DEF S
  <2> QED BY <1>3, <1>4, <2>1, SetInduction
<1>6. j - i \in Nat /\ i + (j - i) = j
  BY <1>1, <1>2
<1>7. j - i \in S
  BY <1>5, <1>6
<1> QED BY <1>1, <1>2, <1>6, <1>7

\* A number is at most hi if w times it is at most w times hi.
LEMMA MeanBounds ==
  ASSUME NEW w \in Nat \ {0}, NEW q \in Int, NEW hi \in Int, NEW x \in Int,
         q * w <= x, x <= w * hi
  PROVE  q <= hi
<1> SUFFICES ASSUME ~(q <= hi) PROVE FALSE
  OBVIOUS
<1>1. hi + 1 <= q /\ hi + 1 \in Int
  OBVIOUS
<1>2. (hi + 1) * w <= q * w
  BY <1>1, MultiplesOrdered
<1> DEFINE hw == w * hi
           qw == q * w
<1>3. (hi + 1) * w = hw + w /\ hw \in Int /\ qw \in Int
  OBVIOUS
<1> HIDE DEF hw, qw
<1>4. hw + w <= qw /\ qw <= x /\ x <= hw
  BY <1>2, <1>3 DEF hw, qw
<1> QED BY <1>3, <1>4

\* Of two windows of which neither end goes back the mean does not either.
LEMMA MeansOrdered ==
  ASSUME NEW s \in Seq(Nat), Climbs(s), NEW p, PartialSums(p, s),
         NEW a \in Nat \ {0}, NEW b \in Nat, NEW c \in Nat \ {0}, NEW d \in Nat,
         a <= b, c <= d, a <= c, b <= d, d <= Len(s)
  PROVE  /\ p[b] - p[a - 1] \in Nat /\ p[d] - p[c - 1] \in Nat
         /\ (p[b] - p[a - 1]) \div (b - a + 1) <= (p[d] - p[c - 1]) \div (d - c + 1)
<1> DEFINE m == b - a + 1
           k == d - c + 1
           x == p[b] - p[a - 1]
           y == p[d] - p[c - 1]
           q == x \div m
<1>1. /\ s \in Seq(Int) /\ Len(s) \in Nat
      /\ \A i \in 1 .. Len(s) : s[i] \in Nat
      /\ \A i \in 0 .. Len(s) : p[i] \in Int
  <2>1. Nat \subseteq Int
    OBVIOUS
  <2>2. s \in Seq(Int)
    BY <2>1, SeqMonotonic
  <2>3. Len(s) \in Nat /\ \A i \in 1 .. Len(s) : s[i] \in Nat
    BY LenProperties, ElementOfSeq
  <2> QED BY <2>2, <2>3 DEF PartialSums
<1>2. m \in Nat \ {0} /\ k \in Nat \ {0}
  OBVIOUS
\* What lies between two places, in the terms of its ends.
<1>3. ASSUME NEW e \in Nat \ {0}, NEW f \in Nat, e <= f + 1, f <= Len(s),
             NEW lo \in Nat, NEW hi \in Nat,
             e <= f => lo <= s[e] /\ s[f] <= hi
      PROVE  /\ p[f] - p[e - 1] \in Int
             /\ (f - e + 1) * lo <= p[f] - p[e - 1]
             /\ p[f] - p[e - 1] <= (f - e + 1) * hi
  <2>1. \A i \in e .. f : lo <= s[i] /\ s[i] <= hi
    <3> SUFFICES ASSUME NEW i \in e .. f PROVE lo <= s[i] /\ s[i] <= hi
      OBVIOUS
    <3>1. /\ e \in 1 .. Len(s) /\ f \in 1 .. Len(s) /\ i \in 1 .. Len(s)
          /\ e <= i /\ i <= f /\ e <= f
      BY <1>1, <1>3
    <3>2. s[e] <= s[i] /\ s[i] <= s[f]
      BY <3>1, ClimbsFar
    <3>3. s[e] \in Nat /\ s[i] \in Nat /\ s[f] \in Nat /\ lo <= s[e] /\ s[f] <= hi
      BY <1>1, <1>3, <3>1
    <3> QED BY <3>2, <3>3
  <2>2. lo \in Int /\ hi \in Int
    OBVIOUS
  <2>3. /\ (f - e + 1) * lo <= p[f] - p[e - 1]
        /\ p[f] - p[e - 1] <= (f - e + 1) * hi
    BY <1>1, <1>3, <2>1, <2>2, SumBounds
  <2>4. p[f] \in Int /\ p[e - 1] \in Int
    BY <1>1, <1>3
  <2>5. p[f] - p[e - 1] \in Int
    BY <2>4
  <2> QED BY <2>3, <2>5
<1>4. /\ a \in 1 .. Len(s) /\ b \in 1 .. Len(s) /\ c \in 1 .. Len(s) /\ d \in 1 .. Len(s)
      /\ s[a] \in Nat /\ s[b] \in Nat /\ s[c] \in Nat /\ s[d] \in Nat
  BY <1>1
<1>5. x \in Int /\ m * s[a] <= x /\ x <= m * s[b] /\ x \in Nat
  <2>1. a <= b + 1 /\ b <= Len(s) /\ s[a] <= s[a] /\ s[b] <= s[b]
    BY <1>1, <1>4
  <2>2. x \in Int /\ m * s[a] <= x /\ x <= m * s[b]
    BY <1>3, <1>4, <2>1
  <2>3. m * s[a] \in Nat
    BY <1>2, <1>4
  <2> HIDE DEF x, m
  <2> QED BY <2>2, <2>3
<1>6. y \in Int /\ k * s[c] <= y /\ y \in Nat
  <2>1. c <= d + 1 /\ d <= Len(s) /\ s[c] <= s[c] /\ s[d] <= s[d]
    BY <1>1, <1>4
  <2>2. y \in Int /\ k * s[c] <= y /\ y <= k * s[d]
    BY <1>3, <1>4, <2>1
  <2>3. k * s[c] \in Nat
    BY <1>2, <1>4
  <2> HIDE DEF y, k
  <2> QED BY <2>2, <2>3
<1>7. q \in Nat /\ q * m <= x
  <2>1. q \in Nat /\ \A j \in Int : j <= q <=> j * m <= x
    BY <1>2, <1>5, Quotient
  <2> HIDE DEF q
  <2> QED BY <2>1
<1>8. q <= s[b]
  <2> HIDE DEF q, m, x
  <2>1. q \in Int /\ s[b] \in Int
    BY <1>4, <1>7
  <2> QED BY <1>2, <1>5, <1>7, <2>1, MeanBounds
<1>9. q * k <= y
  <2>1. CASE b < c
    <3>1. s[b] <= s[c]
      BY <1>4, <2>1, ClimbsFar
    <3>2. q <= s[c] /\ q \in Int /\ s[c] \in Int
      <4> HIDE DEF q
      <4> QED BY <1>4, <1>7, <1>8, <3>1
    <3>3. q * k <= s[c] * k
      BY <1>2, <3>2, MultiplesOrdered
    <3>4. s[c] * k = k * s[c] /\ k * s[c] \in Int /\ q * k \in Int
      <4> DEFINE sc == s[c]
      <4>1. sc \in Nat
        BY <1>4
      <4> HIDE DEF q, k, sc
      <4>2. sc * k = k * sc /\ k * sc \in Int /\ q * k \in Int
        BY <1>2, <1>7, <4>1
      <4> QED BY <4>2 DEF sc
    <3> HIDE DEF y, k, q
    <3> QED BY <1>6, <3>3, <3>4
  <2>2. CASE c <= b
    <3> DEFINE w == b - c + 1
               g == c - a
               h == d - b
               i == p[b] - p[c - 1]
               head == p[c - 1] - p[a - 1]
               tail == p[d] - p[b]
    <3>1. w \in Nat \ {0} /\ g \in Nat /\ h \in Nat /\ m = w + g /\ k = w + h
      BY <2>2
    <3>2. /\ head \in Int /\ i \in Int /\ tail \in Int
          /\ x = head + i /\ y = i + tail
      <4> DEFINE pa == p[a - 1]
                 pb == p[b]
                 pc == p[c - 1]
                 pd == p[d]
      <4>1. pb \in Int /\ pa \in Int /\ pc \in Int /\ pd \in Int
        BY <1>1, <1>4
      <4>2. x = pb - pa /\ y = pd - pc /\ head = pc - pa /\ i = pb - pc /\ tail = pd - pb
        OBVIOUS
      <4> HIDE DEF x, y, head, i, tail, pa, pb, pc, pd, q, m, k, w, g, h
      <4> QED BY <4>1, <4>2
    <3>3. w * s[c] <= i /\ i <= w * s[b]
      <4>1. c <= b + 1 /\ b <= Len(s) /\ s[c] <= s[c] /\ s[b] <= s[b]
        BY <1>4, <2>2
      <4> QED BY <1>3, <1>4, <4>1
    <3>4. head <= g * s[c]
      <4>1. a <= (c - 1) + 1 /\ c - 1 \in Nat /\ c - 1 <= Len(s) /\ (c - 1) - a + 1 = g
        BY <1>1, <1>4
      <4>2. a <= c - 1 => s[a] <= s[a] /\ s[c - 1] <= s[c]
        <5>1. a <= c - 1 => c - 1 \in 1 .. Len(s) /\ c - 1 <= c
          BY <1>1, <1>4
        <5>2. a <= c - 1 => s[c - 1] <= s[c]
          BY <1>4, <5>1, ClimbsFar
        <5> QED BY <1>4, <5>2
      <4>3. p[c - 1] - p[a - 1] <= ((c - 1) - a + 1) * s[c]
        BY <1>3, <1>4, <4>1, <4>2
      <4> QED BY <4>1, <4>3
    <3>5. h * s[b] <= tail
      <4>1. b + 1 <= d + 1 /\ b + 1 \in Nat \ {0} /\ d - (b + 1) + 1 = h /\ (b + 1) - 1 = b
        BY <1>4
      <4>2. b + 1 <= d => s[b] <= s[b + 1] /\ s[d] <= s[d]
        <5>1. b + 1 <= d => b + 1 \in 1 .. Len(s) /\ b <= b + 1
          BY <1>1, <1>4
        <5>2. b + 1 <= d => s[b] <= s[b + 1]
          BY <1>4, <5>1, ClimbsFar
        <5> QED BY <1>4, <5>2
      <4>3. (d - (b + 1) + 1) * s[b] <= p[d] - p[(b + 1) - 1]
        BY <1>3, <1>4, <4>1, <4>2
      <4> QED BY <4>1, <4>3
    <3> DEFINE sc == s[c]
               sb == s[b]
    <3>6. sc \in Nat /\ sb \in Nat
      BY <1>4
    <3>7. q * (w + g) = q * w + q * g /\ q * (w + h) = q * w + q * h
      BY <1>7, <3>1
    <3>8. q \in Nat /\ x \in Nat /\ y \in Nat /\ q * (w + g) <= x /\ q <= sb
      BY <1>5, <1>6, <1>7, <1>8, <3>1
    <3> DEFINE qw == q * w
               qg == q * g
               qh == q * h
               gc == g * sc
               hb == h * sb
               wc == w * sc
    <3> HIDE DEF q, x, y, w, g, h, i, head, tail, m, k, sc, sb
    <3>9. qw \in Nat /\ qg \in Nat /\ qh \in Nat /\ gc \in Nat /\ hb \in Nat /\ wc \in Nat
      BY <3>1, <3>6, <3>8
    <3>10. qw <= i
      <4>1. CASE q <= sc
        <5>1. q * w <= sc * w /\ sc * w = wc
          BY <3>1, <3>6, <3>8, <4>1, MultiplesOrdered
        <5> HIDE DEF wc, qw
        <5>2. wc <= i
          BY <3>3 DEF wc, sc
        <5>3. qw <= wc
          BY <5>1 DEF qw
        <5> QED BY <3>2, <3>9, <5>2, <5>3
      <4>2. CASE sc <= q
        <5>1. sc * g <= q * g /\ sc * g = gc
          BY <3>1, <3>6, <3>8, <4>2, MultiplesOrdered
        <5>2. gc <= qg /\ head <= gc
          BY <3>4, <5>1 DEF sc
        <5>3. qw + qg <= x
          BY <3>7, <3>8
        <5> HIDE DEF qw, qg, gc
        <5> QED BY <3>2, <3>9, <5>2, <5>3
      <4> QED BY <3>6, <3>8, <4>1, <4>2
    <3>11. qh <= tail
      <4>1. q * h <= sb * h /\ sb * h = hb
        BY <3>1, <3>6, <3>8, MultiplesOrdered
      <4>2. qh <= hb /\ hb <= tail
        BY <3>5, <4>1 DEF sb
      <4> HIDE DEF qh, hb
      <4> QED BY <3>2, <3>9, <4>2
    <3>12. q * k = qw + qh
      BY <3>1, <3>7
    <3> HIDE DEF qw, qh
    <3>13. qw + qh <= y
      BY <3>2, <3>9, <3>10, <3>11
    <3> QED BY <3>12, <3>13
  <2> QED BY <2>1, <2>2
<1>10. q <= y \div k
  <2>1. \A j \in Int : j <= y \div k <=> j * k <= y
    BY <1>2, <1>6, Quotient
  <2>2. q \in Int
    BY <1>7
  <2> HIDE DEF q, y, k
  <2> QED BY <1>9, <2>1, <2>2
<1> QED BY <1>5, <1>6, <1>10
=============================================================================

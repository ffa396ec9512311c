--------------------------- MODULE FrameFileProofs ---------------------------
(***************************************************************************)
(* What reads the FrameDataQ files. First datareadq and FDCodecIter: the   *)
(* output is that of the inputs in their order, and what the reader        *)
(* returns are the frames that were written, wherever the file was cut.    *)
(* The lemmas say what each function of the reader does on a file that     *)
(* holds what the writer wrote, and on one that ends inside of it.         *)
(* Then FDCodecIterFold: it folds the sliding windows of the file, all of  *)
(* them and no other. The invariant says which run of frames the window    *)
(* holds after each call.                                                  *)
(***************************************************************************)
EXTENDS DataReadQ, Aggregate, NatProofs, FiniteSetTheorems, SequenceTheorems, TLAPS


-----------------------------------------------------------------------------
(* What a file holds at a place of it.                                     *)

\* What an atom may be.
Names == {"FixPos", "FixNeg", "U", "I", "Str", "F64", "Null", "True", "False", "Array", "Map", "data"}
Texts == {"schema", "version", "full_encode_secs", "recv_llq", "delta_enc"} \cup {c.schema : c \in Cfgs}
Atom == [m : Names, v : Texts \cup Int]

\* The file goes on with w at a place.
Holds(file, pos, w) ==
  /\ pos + Len(w) <= Len(file) + 1
  /\ \A i \in 1 .. Len(w) : file[pos + i - 1] = w[i]

\* It ends before it has all of w.
CutIn(file, pos, w) ==
  /\ pos <= Len(file) + 1
  /\ pos + Len(w) > Len(file) + 1
  /\ \A i \in 1 .. Len(w) : pos + i - 1 <= Len(file) => file[pos + i - 1] = w[i]

LEMMA ConcatIs ==
  ASSUME NEW A, NEW u \in Seq(A), NEW w \in Seq(A)
  PROVE  /\ u \o w \in Seq(A)
         /\ Len(u \o w) = Len(u) + Len(w)
         /\ \A i \in 1 .. Len(u) : (u \o w)[i] = u[i]
         /\ \A i \in 1 .. Len(w) : (u \o w)[Len(u) + i] = w[i]
OBVIOUS

LEMMA ConcatLen ==
  ASSUME NEW A, NEW u \in Seq(A), NEW x \in Seq(A), NEW w, w = u \o x
  PROVE  /\ w \in Seq(A) /\ Len(w) = Len(u) + Len(x)
         /\ \A k \in 1 .. Len(x) : w[Len(u) + k] = x[k]
OBVIOUS

LEMMA FiveLengths ==
  ASSUME NEW A, NEW t \in Seq(A), NEW u \in Seq(A), NEW m \in Seq(A), NEW l \in Seq(A),
         NEW v \in Seq(A), NEW front1, NEW front2, NEW front3, NEW w,
         front1 = t \o u, front2 = front1 \o m, front3 = front2 \o l, w = front3 \o v
  PROVE  /\ front1 \in Seq(A) /\ Len(front1) = Len(t) + Len(u)
         /\ front2 \in Seq(A) /\ Len(front2) = Len(front1) + Len(m)
         /\ front3 \in Seq(A) /\ Len(front3) = Len(front2) + Len(l)
         /\ w \in Seq(A) /\ Len(w) = Len(front3) + Len(v)
<1>1. front1 \in Seq(A) /\ Len(front1) = Len(t) + Len(u)
  BY ConcatLen
<1>2. front2 \in Seq(A) /\ Len(front2) = Len(front1) + Len(m)
  BY ConcatLen, <1>1
<1>3. front3 \in Seq(A) /\ Len(front3) = Len(front2) + Len(l)
  BY ConcatLen, <1>2
<1>4. w \in Seq(A) /\ Len(w) = Len(front3) + Len(v)
  BY ConcatLen, <1>3
<1> QED BY <1>1, <1>2, <1>3, <1>4

LEMMA HoldsConcat ==
  ASSUME NEW file \in Seq(Atom), NEW pos \in Nat \ {0},
         NEW u \in Seq(Atom), NEW w \in Seq(Atom)
  PROVE  Holds(file, pos, u \o w) <=> Holds(file, pos, u) /\ Holds(file, pos + Len(u), w)
<1>1. /\ Len(u \o w) = Len(u) + Len(w)
      /\ \A i \in 1 .. Len(u) : (u \o w)[i] = u[i]
      /\ \A i \in 1 .. Len(w) : (u \o w)[Len(u) + i] = w[i]
      /\ Len(u) \in Nat /\ Len(w) \in Nat /\ Len(file) \in Nat
  BY ConcatIs
<1> DEFINE x == u \o w
<1>2. ASSUME Holds(file, pos, x) PROVE Holds(file, pos, u) /\ Holds(file, pos + Len(u), w)
  <2>1. \A i \in 1 .. Len(u) : i \in 1 .. Len(x) /\ x[i] = u[i]
    BY <1>1
  <2>2. \A i \in 1 .. Len(w) : /\ Len(u) + i \in 1 .. Len(x) /\ x[Len(u) + i] = w[i]
                               /\ (pos + Len(u)) + i - 1 = pos + (Len(u) + i) - 1
    BY <1>1
  <2>3. pos + Len(x) <= Len(file) + 1 /\ \A i \in 1 .. Len(x) : file[pos + i - 1] = x[i]
    BY <1>2 DEF Holds
  <2>4. Len(x) = Len(u) + Len(w)
    BY <1>1
  <2> HIDE DEF x
  <2> QED BY <1>1, <2>1, <2>2, <2>3, <2>4 DEF Holds
<1>3. ASSUME Holds(file, pos, u), Holds(file, pos + Len(u), w) PROVE Holds(file, pos, x)
  <2>1. ASSUME NEW i \in 1 .. Len(x) PROVE file[pos + i - 1] = x[i]
    <3>1. CASE i <= Len(u)
      <4>1. i \in 1 .. Len(u)
        BY <3>1, <1>1
      <4> QED BY <1>1, <1>3, <4>1 DEF Holds
    <3>2. CASE i > Len(u)
      <4>1. i - Len(u) \in 1 .. Len(w) /\ Len(u) + (i - Len(u)) = i
        BY <3>2, <1>1
      <4>2. x[Len(u) + (i - Len(u))] = w[i - Len(u)]
        BY <1>1, <4>1
      <4>3. file[(pos + Len(u)) + (i - Len(u)) - 1] = w[i - Len(u)]
        BY <1>3, <4>1 DEF Holds
      <4>4. (pos + Len(u)) + (i - Len(u)) - 1 = pos + i - 1
        BY <4>1, <1>1
      <4> HIDE DEF x
      <4> QED BY <4>1, <4>2, <4>3, <4>4
    <3> QED BY <3>1, <3>2, <1>1
  <2>2. pos + Len(x) <= Len(file) + 1
    BY <1>1, <1>3 DEF Holds
  <2> QED BY <2>1, <2>2 DEF Holds
<1> QED BY <1>2, <1>3

LEMMA CutConcat ==
  ASSUME NEW file \in Seq(Atom), NEW pos \in Nat \ {0},
         NEW u \in Seq(Atom), NEW w \in Seq(Atom),
         CutIn(file, pos, u \o w)
  PROVE  CutIn(file, pos, u) \/ (Holds(file, pos, u) /\ CutIn(file, pos + Len(u), w))
<1> DEFINE x == u \o w
<1>1. /\ Len(x) = Len(u) + Len(w)
      /\ \A i \in 1 .. Len(u) : i \in 1 .. Len(x) /\ x[i] = u[i]
      /\ \A i \in 1 .. Len(w) : Len(u) + i \in 1 .. Len(x) /\ x[Len(u) + i] = w[i]
      /\ Len(u) \in Nat /\ Len(w) \in Nat /\ Len(file) \in Nat
  BY ConcatIs
<1>2. /\ pos <= Len(file) + 1 /\ pos + Len(x) > Len(file) + 1
      /\ \A i \in 1 .. Len(x) : pos + i - 1 <= Len(file) => file[pos + i - 1] = x[i]
  BY DEF CutIn
<1> HIDE DEF x
<1>3. CASE pos + Len(u) > Len(file) + 1
  <2>1. \A i \in 1 .. Len(u) : pos + i - 1 <= Len(file) => file[pos + i - 1] = u[i]
    BY <1>1, <1>2
  <2> QED BY <1>2, <1>3, <2>1 DEF CutIn
<1>4. CASE pos + Len(u) <= Len(file) + 1
  <2>1. Holds(file, pos, u)
    <3>1. \A i \in 1 .. Len(u) : pos + i - 1 <= Len(file)
      BY <1>1, <1>4
    <3> QED BY <1>1, <1>2, <1>4, <3>1 DEF Holds
  <2>2. CutIn(file, pos + Len(u), w)
    <3>1. ASSUME NEW i \in 1 .. Len(w), pos + Len(u) + i - 1 <= Len(file)
          PROVE  file[pos + Len(u) + i - 1] = w[i]
      <4>1. pos + (Len(u) + i) - 1 = pos + Len(u) + i - 1
        BY <1>1
      <4> QED BY <1>1, <1>2, <3>1, <4>1
    <3>2. pos + Len(u) + Len(w) > Len(file) + 1
      BY <1>1, <1>2
    <3> QED BY <1>4, <3>1, <3>2 DEF CutIn
  <2> QED BY <2>1, <2>2
<1> QED BY <1>1, <1>3, <1>4

\* b[k] is b[0] and the first k of the words ws behind it.
Words(A, b, ws, n) ==
  /\ b \in [0 .. n -> Seq(A)]
  /\ ws \in [1 .. n -> Seq(A)]
  /\ \A k \in 1 .. n : b[k] = b[k - 1] \o ws[k]

LEMMA WordsLengths ==
  ASSUME NEW A, NEW n \in Nat, NEW b, NEW ws, Words(A, b, ws, n)
  PROVE  \A k \in 1 .. n :
           /\ b[k - 1] \in Seq(A) /\ ws[k] \in Seq(A) /\ b[k] \in Seq(A)
           /\ Len(b[k]) = Len(b[k - 1]) + Len(ws[k])
           /\ Len(b[k - 1]) \in Nat /\ Len(ws[k]) \in Nat
<1> TAKE k \in 1 .. n
<1>1. k - 1 \in 0 .. n /\ k \in 0 .. n
  OBVIOUS
<1>2. b[k - 1] \in Seq(A) /\ ws[k] \in Seq(A) /\ b[k] \in Seq(A) /\ b[k] = b[k - 1] \o ws[k]
  BY <1>1 DEF Words
<1> QED BY <1>1, <1>2

\* What holds all words holds some, and each in its place.
LEMMA WordsHeld ==
  ASSUME NEW n \in Nat, NEW b, NEW ws, Words(Atom, b, ws, n),
         NEW file \in Seq(Atom), NEW pos \in Nat \ {0}, Holds(file, pos, b[n])
  PROVE  /\ \A k \in 0 .. n : Holds(file, pos, b[k])
         /\ \A k \in 1 .. n : Holds(file, pos + Len(b[k - 1]), ws[k])
<1>1. ASSUME NEW k \in 1 .. n, Holds(file, pos, b[k])
      PROVE  Holds(file, pos, b[k - 1]) /\ Holds(file, pos + Len(b[k - 1]), ws[k])
  <2>1. /\ b[k] = b[k - 1] \o ws[k]
        /\ b[k - 1] \in Seq(Atom) /\ ws[k] \in Seq(Atom)
    BY WordsLengths DEF Words
  <2>2. Holds(file, pos, b[k - 1] \o ws[k])
    BY <1>1, <2>1
  <2> QED BY <2>1, <2>2, HoldsConcat
<1> DEFINE S == {j \in Nat : j <= n => Holds(file, pos, b[n - j])}
<1>2. 0 \in S
  OBVIOUS
<1>3. ASSUME NEW j \in S PROVE j + 1 \in S
  <2>1. j \in Nat /\ (j <= n => Holds(file, pos, b[n - j]))
    OBVIOUS
  <2>2. j + 1 <= n => n - j \in 1 .. n /\ (n - j) - 1 = n - (j + 1) /\ j <= n
    BY <2>1
  <2>3. j + 1 <= n => Holds(file, pos, b[n - (j + 1)])
    BY <1>1, <2>1, <2>2
  <2> QED BY <2>1, <2>3
<1>4. S = Nat
  <2> HIDE DEF S
  <2>1. S \in SUBSET Nat
    BY DEF S
  <2> QED BY <1>2, <1>3, <2>1, SetInduction
<1>5. ASSUME NEW k \in 0 .. n PROVE Holds(file, pos, b[k])
  <2>1. n - k \in Nat /\ n - k <= n /\ n - (n - k) = k
    OBVIOUS
  <2>2. n - k \in S
    BY <1>4, <2>1
  <2>3. Holds(file, pos, b[n - (n - k)])
    BY <2>1, <2>2
  <2> QED BY <2>1, <2>3
<1>6. ASSUME NEW k \in 1 .. n PROVE Holds(file, pos + Len(b[k - 1]), ws[k])
  <2>1. k \in 0 .. n
    OBVIOUS
  <2> QED BY <1>1, <1>5, <2>1
<1> QED BY <1>5, <1>6

\* A file that ends inside of them ends inside of the first or of one word.
LEMMA WordsCut ==
  ASSUME NEW n \in Nat, NEW b, NEW ws, Words(Atom, b, ws, n),
         NEW file \in Seq(Atom), NEW pos \in Nat \ {0}, CutIn(file, pos, b[n])
  PROVE  \/ CutIn(file, pos, b[0])
         \/ \E k \in 1 .. n : Holds(file, pos, b[k - 1]) /\ CutIn(file, pos + Len(b[k - 1]), ws[k])
<1> SUFFICES ASSUME ~CutIn(file, pos, b[0])
             PROVE  \E k \in 1 .. n : Holds(file, pos, b[k - 1]) /\ CutIn(file, pos + Len(b[k - 1]), ws[k])
  OBVIOUS
<1> DEFINE T == {k \in Nat : k <= n /\ CutIn(file, pos, b[k])}
<1>1. T \in SUBSET Nat /\ T # {}
  <2>1. n \in T
    OBVIOUS
  <2> QED BY <2>1
<1>2. PICK k \in T : \A y \in T : k <= y
  <2> HIDE DEF T
  <2> QED BY <1>1, LeastNat
<1>3. k \in 1 .. n /\ CutIn(file, pos, b[k]) /\ k - 1 \in Nat /\ k - 1 <= n
  BY <1>2
<1>4. ~CutIn(file, pos, b[k - 1])
  <2>1. ~(k - 1 \in T)
    BY <1>2, <1>3
  <2> QED BY <1>3, <2>1
<1>5. Holds(file, pos, b[k - 1]) /\ CutIn(file, pos + Len(b[k - 1]), ws[k])
  <2>1. /\ b[k] = b[k - 1] \o ws[k]
        /\ b[k - 1] \in Seq(Atom) /\ ws[k] \in Seq(Atom)
    BY <1>3, WordsLengths DEF Words
  <2>2. CutIn(file, pos, b[k - 1] \o ws[k])
    BY <1>3, <2>1
  <2> QED BY <1>4, <2>1, <2>2, CutConcat
<1> QED BY <1>3, <1>5

\* w goes on where u ends.
Begins(u, w) == Len(u) <= Len(w) /\ \A i \in 1 .. Len(u) : w[i] = u[i]

LEMMA WordsGrow ==
  ASSUME NEW A, NEW n \in Nat, NEW b, NEW ws, Words(A, b, ws, n),
         NEW j \in 0 .. n, NEW k \in j .. n
  PROVE  Begins(b[j], b[k])
<1>1. \A i \in 0 .. n : b[i] \in Seq(A) /\ Len(b[i]) \in Nat
  BY DEF Words
<1> DEFINE G(m) == /\ Len(b[j]) <= Len(b[m])
                   /\ \A i \in 1 .. Len(b[j]) : b[m][i] = b[j][i]
           S == {m \in Nat : j + m <= n => G(j + m)}
<1>2. 0 \in S
  BY <1>1
<1>3. ASSUME NEW m \in S PROVE m + 1 \in S
  <2> SUFFICES ASSUME j + (m + 1) <= n PROVE G(j + (m + 1))
    OBVIOUS
  <2>1. m \in Nat /\ j + m <= n /\ G(j + m)
    OBVIOUS
  <2> DEFINE l == j + (m + 1)
  <2>2. l \in 1 .. n /\ l - 1 = j + m
    BY <2>1
  <2>3. /\ b[l] = b[l - 1] \o ws[l] /\ b[l - 1] \in Seq(A) /\ ws[l] \in Seq(A)
        /\ Len(b[l]) = Len(b[l - 1]) + Len(ws[l]) /\ Len(ws[l]) \in Nat /\ Len(b[l - 1]) \in Nat
    <3> HIDE DEF l
    <3>1. b[l - 1] \in Seq(A) /\ ws[l] \in Seq(A) /\ b[l] = b[l - 1] \o ws[l]
      <4>1. l - 1 \in 0 .. n
        BY <2>2
      <4> QED BY <2>2, <4>1 DEF Words
    <3> QED BY <3>1
  <2>4. \A i \in 1 .. Len(b[l - 1]) : b[l][i] = b[l - 1][i]
    <3> DEFINE u == b[l - 1]
               w == ws[l]
    <3>1. u \in Seq(A) /\ w \in Seq(A) /\ b[l] = u \o w
      BY <2>3
    <3> HIDE DEF u, w
    <3>2. \A i \in 1 .. Len(u) : (u \o w)[i] = u[i]
      BY <3>1, ConcatIs
    <3> QED BY <3>1, <3>2 DEF u
  <2>5. Len(b[j]) <= Len(b[l - 1]) /\ \A i \in 1 .. Len(b[j]) : b[l - 1][i] = b[j][i]
    BY <2>1, <2>2
  <2> HIDE DEF l
  <2>6. G(l)
    <3>1. l \in 0 .. n /\ j \in 0 .. n /\ Len(b[l]) \in Nat /\ Len(b[j]) \in Nat
      BY <1>1, <2>2
    <3> DEFINE p == Len(b[j])
               q == Len(b[l - 1])
               r == Len(ws[l])
    <3>4. p \in Nat /\ q \in Nat /\ r \in Nat /\ Len(b[l]) = q + r /\ p <= q
      BY <2>3, <2>5, <3>1
    <3>5. /\ \A i \in 1 .. q : b[l][i] = b[l - 1][i]
          /\ \A i \in 1 .. p : b[l - 1][i] = b[j][i]
      BY <2>4, <2>5
    <3> HIDE DEF p, q, r
    <3>2. \A i \in 1 .. p : b[l][i] = b[j][i]
      <4>1. \A i \in 1 .. p : i \in 1 .. q
        BY <3>4
      <4> QED BY <3>5, <4>1
    <3>3. p <= Len(b[l])
      BY <3>4
    <3> USE DEF p
    <3> QED BY <3>2, <3>3
  <2> QED BY <2>6 DEF l
<1>4. S = Nat
  <2> HIDE DEF S
  <2>1. S \in SUBSET Nat
    BY DEF S
  <2> QED BY <1>2, <1>3, <2>1, SetInduction
<1>5. k - j \in Nat /\ j + (k - j) = k /\ k <= n
  OBVIOUS
<1>6. G(j + (k - j))
  <2>1. k - j \in S
    BY <1>4, <1>5
  <2> QED BY <1>5, <2>1
<1> QED BY <1>5, <1>6 DEF Begins

\* They are behind a.
WordsFrom(A, a, b, ws, n) == Words(A, b, ws, n) /\ b[0] = a

\* There are such sequences.
LEMMA WordsExist ==
  ASSUME NEW A, NEW n \in Nat, NEW a \in Seq(A), NEW ws \in [1 .. n -> Seq(A)]
  PROVE  \E b : WordsFrom(A, a, b, ws, n)
<1> DEFINE F == [q \in Seq(A) \X (1 .. n) |-> q[1] \o ws[q[2]]]
<1>1. F \in [Seq(A) \X (1 .. n) -> Seq(A)]
  <2>1. ASSUME NEW q \in Seq(A) \X (1 .. n) PROVE q[1] \o ws[q[2]] \in Seq(A)
    <3>1. q[1] \in Seq(A) /\ ws[q[2]] \in Seq(A)
      OBVIOUS
    <3> QED BY <3>1
  <2> QED BY <2>1
<1>2. ASSUME NEW u \in Seq(A), NEW k \in 1 .. n PROVE F[<<u, k>>] = u \o ws[k]
  <2>1. <<u, k>> \in Seq(A) \X (1 .. n)
    OBVIOUS
  <2> QED BY <2>1
<1> HIDE DEF F
<1>3. PICK it : Running(it, Seq(A), a, F, n)
  BY <1>1, FoldingExists, FoldingValues
<1> DEFINE b == [k \in 0 .. n |-> it[1 .. k]]
<1>4. b \in [0 .. n -> Seq(A)] /\ b[0] = a
  BY <1>3 DEF Running
<1>5. ASSUME NEW k \in 1 .. n PROVE b[k] = b[k - 1] \o ws[k]
  <2>1. k - 1 \in 0 .. n /\ k \in 0 .. n
    OBVIOUS
  <2>2. it[1 .. (k - 1)] \in Seq(A) /\ it[1 .. k] = F[<<it[1 .. (k - 1)], k>>]
    BY <1>3, <2>1 DEF Running
  <2>3. b[k] = it[1 .. k] /\ b[k - 1] = it[1 .. (k - 1)]
    BY <2>1
  <2> HIDE DEF b
  <2> QED BY <1>2, <2>2, <2>3
<1> HIDE DEF b
<1> QED BY <1>4, <1>5 DEF Words, WordsFrom

\* Concat of them.
LEMMA ConcatValues ==
  ASSUME NEW A, NEW n \in Nat, NEW ws \in [1 .. n -> Seq(A)]
  PROVE  \E b : Words(A, b, ws, n) /\ b[0] = <<>> /\ Concat(ws) = b[n]
<1> DEFINE S == Seq(A)
           F == [q \in S \X (1 .. n) |-> q[1] \o ws[q[2]]]
           Fits(it) == it = [T \in SUBSET (1 .. n) |->
                                   IF T = {} THEN <<>> ELSE it[T \ {Max(T)}] \o ws[Max(T)]]
           It == CHOOSE it : Fits(it)
<1>1. /\ ws \in Seq(S) /\ Len(ws) = n
      /\ \A i \in 1 .. n : ws[i] \in S
      /\ <<>> \in S
  OBVIOUS
<1>2. Concat(ws) = It[1 .. n]
  BY <1>1 DEF Concat, FoldLeft, MapThenFoldSet
<1>3. F \in [S \X (1 .. n) -> S]
  <2>1. ASSUME NEW q \in S \X (1 .. n) PROVE q[1] \o ws[q[2]] \in S
    <3>1. q[1] \in Seq(A) /\ ws[q[2]] \in Seq(A)
      OBVIOUS
    <3> QED BY <3>1
  <2> QED BY <2>1
<1>4. ASSUME NEW x \in S, NEW m \in 1 .. n PROVE F[<<x, m>>] = x \o ws[m]
  <2>1. <<x, m>> \in S \X (1 .. n)
    OBVIOUS
  <2> QED BY <2>1
<1> HIDE DEF F
<1>5. ASSUME NEW T \in SUBSET (1 .. n), T # {} PROVE Max(T) \in 1 .. n
  <2>1. T \in SUBSET (0 .. n)
    BY <1>1
  <2>2. \E x \in T : \A y \in T : x >= y
    BY <1>1, <1>5, <2>1, LargestNat
  <2>3. Max(T) \in T
    BY <2>2, Zenon DEF Max
  <2> QED BY <2>3
<1>6. \E it : Fits(it)
  <2>1. PICK it : Folding(it, S, <<>>, F, n)
    <3> HIDE DEF Fits, S
    <3> QED BY <1>1, <1>3, FoldingExists
  <2>2. ASSUME NEW T \in SUBSET (1 .. n), T # {}
        PROVE  it[T] = it[T \ {Max(T)}] \o ws[Max(T)]
    <3>1. T \ {Max(T)} \in SUBSET (1 .. n)
      OBVIOUS
    <3>2. it[T \ {Max(T)}] \in S
      BY <2>1, <3>1 DEF Folding
    <3>3. it[T] = F[<<it[T \ {Max(T)}], Max(T)>>]
      BY <2>1, <2>2 DEF Folding
    <3> QED BY <1>4, <1>5, <2>2, <3>2, <3>3
  <2>3. it[{}] = <<>> /\ it = [T \in SUBSET (1 .. n) |-> it[T]]
    BY <2>1 DEF Folding
  <2>4. \A T \in SUBSET (1 .. n) :
          it[T] = IF T = {} THEN <<>> ELSE it[T \ {Max(T)}] \o ws[Max(T)]
    BY <2>2, <2>3
  <2> QED BY <2>3, <2>4
<1>7. Fits(It)
  BY <1>6, Zenon
<1> HIDE DEF It
<1>8. Folding(It, S, <<>>, F, n)
  <2>1. It = [T \in SUBSET (1 .. n) |-> It[T]]
    BY <1>7
  <2>2. It[{}] = <<>>
    <3>1. {} \in SUBSET (1 .. n)
      OBVIOUS
    <3> QED BY <1>7, <3>1
  <2>3. ASSUME NEW T \in SUBSET (1 .. n), T # {}, It[T \ {Max(T)}] \in S
        PROVE  It[T] = F[<<It[T \ {Max(T)}], Max(T)>>]
    <3>1. It[T] = It[T \ {Max(T)}] \o ws[Max(T)]
      BY <1>7, <2>3
    <3> QED BY <1>4, <1>5, <2>3, <3>1
  <2> HIDE DEF Fits, S
  <2> QED BY <1>1, <1>3, <2>1, <2>2, <2>3, FollowsFolding
<1>9. Running(It, S, <<>>, F, n)
  <2> HIDE DEF Fits, S
  <2> QED BY <1>1, <1>3, <1>8, FoldingValues
<1> DEFINE b == [i \in 0 .. n |-> It[1 .. i]]
<1>10. ASSUME NEW i \in 1 .. n PROVE b[i] = b[i - 1] \o ws[i]
  <2>1. i - 1 \in 0 .. n /\ i \in 0 .. n
    OBVIOUS
  <2>2. It[1 .. (i - 1)] \in S /\ It[1 .. i] = F[<<It[1 .. (i - 1)], i>>]
    BY <1>9, <2>1 DEF Running
  <2>3. It[1 .. i] = It[1 .. (i - 1)] \o ws[i]
    BY <1>4, <2>2
  <2> QED BY <2>1, <2>3
<1>11. b \in [0 .. n -> S] /\ b[0] = <<>> /\ b[n] = It[1 .. n]
  <2>1. \A i \in 0 .. n : It[1 .. i] \in S
    BY <1>9 DEF Running
  <2>2. It[1 .. 0] = <<>> /\ 0 \in 0 .. n /\ n \in 0 .. n
    BY <1>9 DEF Running
  <2> QED BY <2>1, <2>2
<1> HIDE DEF b
<1> QED BY <1>2, <1>10, <1>11 DEF Words

\* The first m words.
Firsts(ws, m) == [i \in 1 .. m |-> ws[i]]

\* w is u and x.
Joined(A, u, x, w) == u \in Seq(A) /\ x \in Seq(A) /\ w = u \o x

\* So Concat continues any sequence as the words do.
LEMMA ConcatBehind ==
  ASSUME NEW A, NEW n \in Nat, NEW b, NEW ws, Words(A, b, ws, n), NEW m \in 0 .. n
  PROVE  Joined(A, b[0], Concat(Firsts(ws, m)), b[m])
<1> DEFINE part == [i \in 1 .. m |-> ws[i]]
<1>1. part \in [1 .. m -> Seq(A)] /\ m \in Nat
  BY DEF Words
<1>2. PICK c : Words(A, c, part, m) /\ c[0] = <<>> /\ Concat(part) = c[m]
  <2> HIDE DEF part
  <2> QED BY <1>1, ConcatValues
<1>3. b[0] \in Seq(A) /\ \A k \in 0 .. m : c[k] \in Seq(A) /\ b[k] \in Seq(A)
  BY <1>2 DEF Words
<1> DEFINE Ok(k) == b[0] \o c[k] = b[k]
           S == {k \in Nat : k <= m => Ok(k)}
<1>4. 0 \in S
  <2>1. Ok(0)
    <3> DEFINE u == b[0]
    <3>1. u \in Seq(A) /\ c[0] = <<>> /\ u \o <<>> = u
      BY <1>2, <1>3
    <3> QED BY <3>1
  <2> HIDE DEF Ok
  <2> QED BY <2>1
<1>5. ASSUME NEW k \in S PROVE k + 1 \in S
  <2>1. k \in Nat /\ (k <= m => Ok(k))
    <3> HIDE DEF Ok
    <3> QED OBVIOUS
  <2>2. ASSUME k + 1 <= m PROVE Ok(k + 1)
    <3> DEFINE u == b[0]
               v == c[k]
               w == ws[k + 1]
    <3>1. /\ k + 1 \in 1 .. m /\ k + 1 \in 1 .. n /\ (k + 1) - 1 = k
          /\ k \in 0 .. m /\ k \in 0 .. n /\ k + 1 \in 0 .. n /\ k <= m
      BY <2>1, <2>2
    <3>2. part[k + 1] = w /\ w \in Seq(A) /\ u \in Seq(A) /\ v \in Seq(A)
      BY <1>3, <3>1 DEF Words
    <3>3. c[k + 1] = c[(k + 1) - 1] \o part[k + 1]
      BY <1>2, <3>1 DEF Words
    <3>4. b[k + 1] = b[(k + 1) - 1] \o w
      BY <3>1 DEF Words
    <3>5. b[k] = u \o v
      BY <2>1, <3>1
    <3> HIDE DEF part, u, v, w
    <3>6. c[k + 1] = v \o w
      BY <3>1, <3>2, <3>3 DEF v
    <3>7. b[k + 1] = (u \o v) \o w
      BY <3>1, <3>2, <3>4, <3>5
    <3>8. (u \o v) \o w = u \o (v \o w)
      BY <3>2
    <3>9. b[k + 1] = u \o c[k + 1]
      BY <3>2, <3>6, <3>7, <3>8
    <3> QED BY <3>9 DEF u
  <2> HIDE DEF Ok
  <2> QED BY <2>1, <2>2
<1> HIDE DEF Ok
<1>6. S = Nat
  <2> HIDE DEF S
  <2>1. S \in SUBSET Nat
    BY DEF S
  <2> QED BY <1>4, <1>5, <2>1, SetInduction
<1>7. Ok(m)
  <2>1. m \in S
    BY <1>6
  <2> QED BY <2>1
<1>8. b[0] \o c[m] = b[m]
  BY <1>7 DEF Ok
<1> DEFINE x == Concat(part)
<1>9. x = c[m] /\ x \in Seq(A) /\ b[0] \in Seq(A) /\ c[m] \in Seq(A)
  BY <1>2, <1>3
<1> HIDE DEF part, x
<1>10. b[0] \o x = b[m]
  BY <1>8, <1>9
<1> QED BY <1>9, <1>10 DEF x, part, Firsts, Joined

-----------------------------------------------------------------------------
(* The recursive functions of the reader.                                  *)

RowStart(pos) == [ok |-> TRUE, items |-> <<>>, pos |-> pos]
RowStep(r, inner) ==
  Then(r, LAMBDA q : Then(inner[q.pos], LAMBDA x :
         [ok |-> TRUE, items |-> Append(q.items, x), pos |-> x.pos]))

\* The values of the function in ReadRow.
RowRun(row, pos, n, inner) ==
  /\ row[0] = RowStart(pos)
  /\ \A i \in 1 .. n : row[i] = RowStep(row[i - 1], inner)

LEMMA RowIs ==
  ASSUME NEW pos, NEW n \in Nat, NEW inner
  PROVE  \E row : RowRun(row, pos, n, inner) /\ ReadRow(pos, n, inner) = row[n]
<1> DEFINE G(f, m) == [i \in 0 .. m |-> IF i = 0 THEN RowStart(pos) ELSE RowStep(f[i - 1], inner)]
           Row == CHOOSE f : f = G(f, n)
<1>1. ReadRow(pos, n, inner) = Row[n]
  BY DEF ReadRow, RowStart, RowStep
<1> DEFINE S == {m \in Nat : \E f : f = G(f, m)}
<1>2. 0 \in S
  <2> DEFINE f == [i \in 0 .. 0 |-> RowStart(pos)]
  <2>1. f = G(f, 0)
    <3>1. \A i \in 0 .. 0 : i = 0
      OBVIOUS
    <3> QED BY <3>1
  <2> HIDE DEF f, G
  <2> QED BY <2>1
<1>3. ASSUME NEW m \in S PROVE m + 1 \in S
  <2>1. m \in Nat /\ \E f : f = G(f, m)
    <3> HIDE DEF G
    <3> QED OBVIOUS
  <2>2. PICK f : f = G(f, m)
    BY <2>1
  <2> DEFINE g == [i \in 0 .. m + 1 |-> IF i <= m THEN f[i] ELSE RowStep(f[m], inner)]
  <2>3. ASSUME NEW i \in 0 .. m + 1
        PROVE  g[i] = IF i = 0 THEN RowStart(pos) ELSE RowStep(g[i - 1], inner)
    <3>1. CASE i = 0
      <4>1. i \in 0 .. m /\ i <= m
        BY <2>1, <3>1
      <4>2. g[i] = f[i]
        BY <4>1
      <4>3. f[i] = RowStart(pos)
        BY <2>2, <3>1, <4>1
      <4> HIDE DEF g
      <4> QED BY <3>1, <4>2, <4>3
    <3>2. CASE i # 0
      <4>1. i - 1 \in 0 .. m + 1 /\ i - 1 <= m
        BY <2>1, <3>2
      <4>2. g[i - 1] = f[i - 1]
        BY <4>1
      <4>3. g[i] = RowStep(f[i - 1], inner)
        <5>1. CASE i <= m
          <6>1. i \in 0 .. m /\ g[i] = f[i]
            BY <2>1, <5>1
          <6>2. f[i] = RowStep(f[i - 1], inner)
            BY <2>2, <3>2, <6>1
          <6> HIDE DEF g
          <6> QED BY <6>1, <6>2
        <5>2. CASE ~(i <= m)
          <6>1. i - 1 = m
            BY <2>1, <5>2
          <6>2. g[i] = RowStep(f[m], inner)
            BY <5>2
          <6> HIDE DEF g
          <6> QED BY <6>1, <6>2
        <5> QED BY <5>1, <5>2
      <4> HIDE DEF g
      <4> QED BY <3>2, <4>2, <4>3
    <3> QED BY <3>1, <3>2
  <2>4. g = [i \in 0 .. m + 1 |-> g[i]]
    OBVIOUS
  <2> HIDE DEF g
  <2>5. g = G(g, m + 1)
    BY <2>3, <2>4
  <2> HIDE DEF G
  <2> QED BY <2>1, <2>5
<1>4. S = Nat
  <2> HIDE DEF S
  <2>1. S \in SUBSET Nat
    BY DEF S
  <2> QED BY <1>2, <1>3, <2>1, SetInduction
<1>5. \E f : f = G(f, n)
  <2> HIDE DEF G
  <2>1. n \in S
    BY <1>4
  <2> QED BY <2>1
<1>6. Row = G(Row, n)
  <2> HIDE DEF G
  <2> QED BY <1>5, Zenon
<1> HIDE DEF Row
<1>7. ASSUME NEW i \in 0 .. n
      PROVE  Row[i] = IF i = 0 THEN RowStart(pos) ELSE RowStep(Row[i - 1], inner)
  BY <1>6
<1>8. 0 \in 0 .. n /\ \A i \in 1 .. n : i \in 0 .. n /\ i # 0
  OBVIOUS
<1> HIDE DEF G
<1> QED BY <1>1, <1>7, <1>8 DEF RowRun

\* The functions that Read is made of, for the places of a file.
Reads(inner, file, deeper) ==
  inner = [p \in 1 .. Len(file) + 1 |->
             IF p > Len(file) THEN Failed("eof") ELSE ReadFromMarker(file, p, deeper)]

\* What Read does at a marker: its parts are variants of the same file.
LEMMA ReadIs ==
  ASSUME NEW file, Len(file) \in Nat
  PROVE  \E inner, deeper :
           /\ Reads(inner, file, deeper)
           /\ \A p \in 1 .. Len(file) : Read(file, p) = ReadFromMarker(file, p, inner)
           /\ Read(file, Len(file) + 1) = Failed("eof")
<1> DEFINE n == Len(file)
           Level(d, f) == [p \in 1 .. n + 1 |->
             IF p > n THEN Failed("eof")
             ELSE ReadFromMarker(file, p, IF d = 0 THEN <<>> ELSE f[d - 1])]
           G(f, m) == [d \in 0 .. m |-> Level(d, f)]
           Reader == CHOOSE f : f = G(f, n)
<1>1. \A p : Read(file, p) = Reader[n][p]
  BY DEF Read
<1> DEFINE S == {m \in Nat : \E f : f = G(f, m)}
<1>0. n \in Nat
  OBVIOUS
<1> HIDE DEF n
<1>2. 0 \in S
  <2> DEFINE f == [d \in 0 .. 0 |-> Level(0, <<>>)]
  <2>1. f = G(f, 0)
    <3>1. \A d \in 0 .. 0 : d = 0
      OBVIOUS
    <3>2. Level(0, f) = Level(0, <<>>)
      OBVIOUS
    <3> HIDE DEF Level
    <3> QED BY <3>1, <3>2
  <2> HIDE DEF f, G
  <2> QED BY <2>1
<1>3. ASSUME NEW m \in S PROVE m + 1 \in S
  <2>1. m \in Nat /\ \E f : f = G(f, m)
    <3> HIDE DEF G
    <3> QED OBVIOUS
  <2>2. PICK f : f = G(f, m)
    BY <2>1
  <2> DEFINE g == [d \in 0 .. m + 1 |-> IF d <= m THEN f[d] ELSE Level(d, f)]
  <2>3. ASSUME NEW d \in 0 .. m + 1 PROVE g[d] = Level(d, f) /\ Level(d, f) = Level(d, g)
    <3> HIDE DEF Level
    <3>1. g[d] = Level(d, f)
      <4>1. CASE d <= m
        <5>1. d \in 0 .. m /\ g[d] = f[d]
          BY <2>1, <4>1
        <5> QED BY <2>2, <5>1
      <4>2. CASE ~(d <= m)
        BY <4>2
      <4> QED BY <4>1, <4>2
    <3>2. d # 0 => g[d - 1] = f[d - 1]
      <4>1. d # 0 => d - 1 \in 0 .. m + 1 /\ d - 1 <= m
        BY <2>1
      <4> QED BY <4>1
    <3>3. Level(d, f) = Level(d, g)
      <4>1. (IF d = 0 THEN <<>> ELSE f[d - 1]) = (IF d = 0 THEN <<>> ELSE g[d - 1])
        BY <3>2
      <4> HIDE DEF g
      <4> QED BY <4>1 DEF Level
    <3> QED BY <3>1, <3>3
  <2>4. g = [d \in 0 .. m + 1 |-> g[d]]
    <3> HIDE DEF Level
    <3> QED OBVIOUS
  <2> HIDE DEF g, Level
  <2>5. g = G(g, m + 1)
    BY <2>3, <2>4
  <2> HIDE DEF G
  <2> QED BY <2>1, <2>5
<1>4. S = Nat
  <2> HIDE DEF S
  <2>1. S \in SUBSET Nat
    BY DEF S
  <2> QED BY <1>2, <1>3, <2>1, SetInduction
<1>5. \E f : f = G(f, n)
  <2> HIDE DEF G
  <2>1. n \in S
    BY <1>0, <1>4
  <2> QED BY <2>1
<1>6. Reader = G(Reader, n)
  <2> HIDE DEF G
  <2> QED BY <1>5, Zenon
<1> HIDE DEF Reader
<1>7. \A d \in 0 .. n : Reader[d] = Level(d, Reader)
  <2> HIDE DEF Level
  <2> QED BY <1>6
<1>8. Reader[n] = Level(n, Reader)
  <2> HIDE DEF Level
  <2> QED BY <1>0, <1>7
<1>9. CASE n = 0
  <2> DEFINE inner == [p \in 1 .. n + 1 |->
                         IF p > n THEN Failed("eof") ELSE ReadFromMarker(file, p, <<>>)]
  <2>1. \A p \in 1 .. n : Read(file, p) = ReadFromMarker(file, p, inner)
    BY <1>9
  <2>2. Read(file, n + 1) = Failed("eof")
    <3>1. n + 1 \in 1 .. n + 1 /\ n + 1 > n
      BY <1>0
    <3>2. Read(file, n + 1) = Level(n, Reader)[n + 1]
      <4> HIDE DEF Level
      <4> QED BY <1>1, <1>8
    <3> QED BY <3>1, <3>2
  <2>3. inner = [p \in 1 .. n + 1 |->
                   IF p > n THEN Failed("eof") ELSE ReadFromMarker(file, p, <<>>)]
    OBVIOUS
  <2> HIDE DEF inner, Level
  <2> QED BY <2>1, <2>2, <2>3, Zenon DEF n, Reads
<1>10. CASE n # 0
  <2> DEFINE inner == Reader[n - 1]
             deeper == IF n - 1 = 0 THEN <<>> ELSE Reader[(n - 1) - 1]
  <2>1. n - 1 \in 0 .. n
    BY <1>0, <1>10
  <2>2. inner = Level(n - 1, Reader)
    <3> HIDE DEF Level
    <3> QED BY <1>7, <2>1
  <2>3. inner = [p \in 1 .. n + 1 |->
                   IF p > n THEN Failed("eof") ELSE ReadFromMarker(file, p, deeper)]
    BY <2>2
  <2>4. ASSUME NEW p \in 1 .. n + 1
        PROVE  Read(file, p) = IF p > n THEN Failed("eof") ELSE ReadFromMarker(file, p, inner)
    <3>1. Read(file, p) = Level(n, Reader)[p]
      <4> HIDE DEF Level
      <4> QED BY <1>1, <1>8
    <3> QED BY <1>10, <3>1
  <2> HIDE DEF inner, deeper, Level
  <2>5. \A p \in 1 .. n : Read(file, p) = ReadFromMarker(file, p, inner)
    <3>1. \A p \in 1 .. n : p \in 1 .. n + 1 /\ ~(p > n)
      BY <1>0
    <3> QED BY <2>4, <3>1
  <2>6. Read(file, n + 1) = Failed("eof")
    <3>1. n + 1 \in 1 .. n + 1 /\ n + 1 > n
      BY <1>0
    <3> QED BY <2>4, <3>1
  <2> QED BY <2>3, <2>5, <2>6, Zenon DEF n, Reads
<1> HIDE DEF Level
<1> QED BY <1>9, <1>10

-----------------------------------------------------------------------------
(* Words that are one value.                                               *)

\* w is the value v of a type, in its marker or behind it.
Scalar(w, type, v) ==
  \/ type = "Integer" /\ \E m \in {"FixPos", "FixNeg"} : w = <<Marker(m, v)>>
  \/ \E m \in {"U", "I", "Str", "F64"} : w = <<Marker(m, 0), Data(v)>> /\ type = FromMarker(m)
  \/ type = "Null" /\ v = 0 /\ w = <<Marker("Null", 0)>>
  \/ type = "Bool" /\ \E m \in {"True", "False"} : v = (m = "True") /\ w = <<Marker(m, 0)>>

LEMMA FromMarkerIs ==
  /\ \A m \in {"FixPos", "FixNeg", "U", "I"} : FromMarker(m) = "Integer"
  /\ FromMarker("Str") = "String"
  /\ FromMarker("F64") = "Float"
  /\ FromMarker("Null") = "Null"
  /\ \A m \in {"True", "False"} : FromMarker(m) = "Bool"
  /\ FromMarker("Array") = "Array"
  /\ FromMarker("Map") = "Map"
BY DEF FromMarker

LEMMA ScalarReads ==
  ASSUME NEW file \in Seq(Atom), NEW pos \in Nat \ {0}, NEW w, NEW type, NEW v, NEW inner,
         Scalar(w, type, v)
  PROVE  /\ Len(w) \in Nat \ {0}
         /\ type \in {"Integer", "String", "Float", "Null", "Bool"}
         /\ Holds(file, pos, w) => ReadFromMarker(file, pos, inner) = Got(type, v, pos + Len(w))
         /\ CutIn(file, pos, w) /\ pos <= Len(file) => ReadFromMarker(file, pos, inner) = Failed("value")
         /\ type = "Integer" /\ Holds(file, pos, w) => ReadRmpInt(file, pos) = Got(type, v, pos + Len(w))
         /\ type = "Integer" /\ CutIn(file, pos, w) => ReadRmpInt(file, pos) = Failed("value")
<1> DEFINE a == file[pos].m
           x == file[pos].v
           y == file[pos + 1].v
<1>0. Len(file) \in Nat
  OBVIOUS
<1>1. CASE type = "Integer" /\ \E m \in {"FixPos", "FixNeg"} : w = <<Marker(m, v)>>
  <2>1. PICK m \in {"FixPos", "FixNeg"} : w = <<Marker(m, v)>>
    BY <1>1
  <2>2. Len(w) = 1 /\ w[1] = [m |-> m, v |-> v]
    BY <2>1 DEF Marker
  <2>3. Holds(file, pos, w) => pos <= Len(file) /\ a = m /\ x = v
    <3>1. 1 \in 1 .. Len(w) /\ pos + 1 - 1 = pos
      BY <2>2
    <3>2. Holds(file, pos, w) => pos <= Len(file) /\ file[pos] = w[1]
      BY <1>0, <2>2, <3>1 DEF Holds
    <3> QED BY <2>2, <3>2
  <2>4. CutIn(file, pos, w) => pos = Len(file) + 1
    BY <1>0, <2>2 DEF CutIn
  <2>5. FromMarker(m) = "Integer"
    BY FromMarkerIs
  <2>6. a = m /\ x = v => ReadInt(file, pos) = Got(type, v, pos + 1)
    BY <1>1 DEF ReadInt
  <2>7. a = m /\ x = v => ReadFromMarker(file, pos, inner) = ReadInt(file, pos)
    BY <2>5 DEF ReadFromMarker
  <2>8. a = m /\ x = v /\ pos <= Len(file) => ReadRmpInt(file, pos) = ReadInt(file, pos)
    BY <2>5 DEF ReadRmpInt
  <2>9. CutIn(file, pos, w) => ReadRmpInt(file, pos) = Failed("value") /\ ~(pos <= Len(file))
    BY <1>0, <2>4 DEF ReadRmpInt
  <2> HIDE DEF a, x, y
  <2> QED BY <1>1, <2>2, <2>3, <2>6, <2>7, <2>8, <2>9
<1>2. CASE \E m \in {"U", "I", "Str", "F64"} : w = <<Marker(m, 0), Data(v)>> /\ type = FromMarker(m)
  <2>1. PICK m \in {"U", "I", "Str", "F64"} : w = <<Marker(m, 0), Data(v)>> /\ type = FromMarker(m)
    BY <1>2
  <2>2. Len(w) = 2 /\ w[1] = [m |-> m, v |-> 0] /\ w[2] = [m |-> "data", v |-> v]
    BY <2>1 DEF Marker, Data
  <2>3. Holds(file, pos, w) => pos + 1 <= Len(file) /\ a = m /\ y = v
    <3>1. 1 \in 1 .. Len(w) /\ pos + 1 - 1 = pos /\ 2 \in 1 .. Len(w) /\ pos + 2 - 1 = pos + 1
      BY <2>2
    <3>2. Holds(file, pos, w) => pos + 1 <= Len(file) /\ file[pos] = w[1] /\ file[pos + 1] = w[2]
      BY <1>0, <2>2, <3>1 DEF Holds
    <3> QED BY <2>2, <3>2
  <2>4. CutIn(file, pos, w) /\ pos <= Len(file) => pos = Len(file) /\ a = m
    <3>1. 1 \in 1 .. Len(w) /\ pos + 1 - 1 = pos
      BY <2>2
    <3>2. CutIn(file, pos, w) /\ pos <= Len(file) => pos = Len(file) /\ file[pos] = w[1]
      BY <1>0, <2>2, <3>1 DEF CutIn
    <3> QED BY <2>2, <3>2
  <2>5. type \in {"Integer", "String", "Float"} /\ (type = "Integer" => m \in {"U", "I"})
    BY <2>1, FromMarkerIs
  <2>6. m \notin {"FixPos", "FixNeg"}
    OBVIOUS
  <2>7. /\ pos + 1 <= Len(file) /\ y = v => ReadData(type, file, pos) = Got(type, v, pos + 2)
        /\ pos = Len(file) => ReadData(type, file, pos) = Failed("value")
    BY <1>0 DEF ReadData
  <2>8. a = m /\ type = "Integer" => ReadInt(file, pos) = ReadData(type, file, pos)
    BY <2>6 DEF ReadInt
  <2>9. a = m => ReadFromMarker(file, pos, inner) = ReadData(type, file, pos)
    BY <2>1, <2>5, <2>8 DEF ReadFromMarker
  <2>10. a = m /\ type = "Integer" /\ pos <= Len(file) => ReadRmpInt(file, pos) = ReadData(type, file, pos)
    BY <2>1, <2>8 DEF ReadRmpInt
  <2>11. ~(pos <= Len(file)) => ReadRmpInt(file, pos) = Failed("value")
    BY DEF ReadRmpInt
  <2>12. pos + 1 <= Len(file) => pos <= Len(file)
    BY <1>0
  <2> HIDE DEF a, x, y
  <2> QED BY <2>2, <2>3, <2>4, <2>5, <2>7, <2>9, <2>10, <2>11, <2>12
<1>3. CASE type = "Null" /\ v = 0 /\ w = <<Marker("Null", 0)>>
  <2>1. Len(w) = 1 /\ w[1] = [m |-> "Null", v |-> 0]
    BY <1>3 DEF Marker
  <2>2. Holds(file, pos, w) => a = "Null"
    <3>1. 1 \in 1 .. Len(w) /\ pos + 1 - 1 = pos
      BY <2>1
    <3>2. Holds(file, pos, w) => file[pos] = w[1]
      BY <2>1, <3>1 DEF Holds
    <3> QED BY <2>1, <3>2
  <2>3. CutIn(file, pos, w) => ~(pos <= Len(file))
    BY <1>0, <2>1 DEF CutIn
  <2>4. a = "Null" => ReadFromMarker(file, pos, inner) = Got("Null", 0, pos + 1)
    BY FromMarkerIs DEF ReadFromMarker
  <2> HIDE DEF a, x, y
  <2> QED BY <1>3, <2>1, <2>2, <2>3, <2>4
<1>4. CASE type = "Bool" /\ \E m \in {"True", "False"} : v = (m = "True") /\ w = <<Marker(m, 0)>>
  <2>0. PICK m \in {"True", "False"} : v = (m = "True") /\ w = <<Marker(m, 0)>>
    BY <1>4
  <2>1. Len(w) = 1 /\ w[1] = [m |-> m, v |-> 0]
    BY <2>0 DEF Marker
  <2>2. Holds(file, pos, w) => a = m
    <3>1. 1 \in 1 .. Len(w) /\ pos + 1 - 1 = pos
      BY <2>1
    <3>2. Holds(file, pos, w) => file[pos] = w[1]
      BY <2>1, <3>1 DEF Holds
    <3> QED BY <2>1, <3>2
  <2>3. CutIn(file, pos, w) => ~(pos <= Len(file))
    BY <1>0, <2>1 DEF CutIn
  <2>4. a = m => ReadFromMarker(file, pos, inner) = Got("Bool", m = "True", pos + 1)
    BY FromMarkerIs DEF ReadFromMarker
  <2>5. v = (m = "True")
    BY <2>0
  <2> HIDE DEF a, x, y
  <2> QED BY <1>4, <2>1, <2>2, <2>3, <2>4, <2>5
<1> HIDE DEF a, x, y
<1> QED BY <1>1, <1>2, <1>3, <1>4 DEF Scalar

\* Integers that are read without a variant.
LEMMA RmpIntReads ==
  ASSUME NEW file \in Seq(Atom), NEW pos \in Nat \ {0}, NEW w, NEW v, Scalar(w, "Integer", v)
  PROVE  /\ Len(w) \in Nat \ {0}
         /\ Holds(file, pos, w) => ReadRmpInt(file, pos) = Got("Integer", v, pos + Len(w))
         /\ CutIn(file, pos, w) => ReadRmpInt(file, pos) = Failed("value")
<1> DEFINE type == "Integer"
           inner == <<>>
<1>1. Scalar(w, type, v) /\ type = "Integer" /\ inner = inner
  OBVIOUS
<1> HIDE DEF type, inner
<1>2. /\ Len(w) \in Nat \ {0}
      /\ Holds(file, pos, w) => ReadFromMarker(file, pos, inner) = Got(type, v, pos + Len(w))
      /\ type = "Integer" /\ Holds(file, pos, w) => ReadRmpInt(file, pos) = Got(type, v, pos + Len(w))
      /\ type = "Integer" /\ CutIn(file, pos, w) => ReadRmpInt(file, pos) = Failed("value")
  BY <1>1, ScalarReads
<1> QED BY <1>1, <1>2

LEMMA GotIs ==
  ASSUME NEW type, NEW v, NEW pos, NEW r, r = Got(type, v, pos)
  PROVE  r.ok /\ r.type = type /\ r.v = v /\ r.pos = pos
BY DEF Got

LEMMA FailedIs ==
  ASSUME NEW err, NEW r, r = Failed(err)
  PROVE  ~r.ok /\ r.err = err
BY DEF Failed

\* What the writers make of a value.
LEMMA WritersScalar ==
  /\ \A n \in Int : /\ WriteUint(n) \in Seq(Atom) /\ Scalar(WriteUint(n), "Integer", n)
                    /\ WriteSint(n) \in Seq(Atom) /\ Scalar(WriteSint(n), "Integer", n)
                    /\ WriteInt(n) \in Seq(Atom) /\ Scalar(WriteInt(n), "Integer", n)
                    /\ WriteF64(n) \in Seq(Atom) /\ Scalar(WriteF64(n), "Float", n)
  /\ \A s \in Texts : WriteStr(s) \in Seq(Atom) /\ Scalar(WriteStr(s), "String", s)
  /\ \A b \in BOOLEAN : WriteBool(b) \in Seq(Atom) /\ Scalar(WriteBool(b), "Bool", b)
  /\ WriteNil \in Seq(Atom) /\ Scalar(WriteNil, "Null", 0)
<1> DEFINE V == Texts \cup Int
<1>0. (\A n \in Int : n \in V) /\ (\A s \in Texts : s \in V) /\ Atom = [m : Names, v : V]
  BY DEF Atom
<1> HIDE DEF V
<1>10. \A m \in Names : \A v \in V : Marker(m, v) \in Atom
  BY <1>0 DEF Marker
<1>11. \A v \in V : Data(v) \in Atom
  BY <1>0 DEF Data, Names
<1>12. \A m \in Names : \A n \in Int : Marker(m, n) \in Atom
  BY <1>0, <1>10, Zenon
<1>13. \A n \in Int : Data(n) \in Atom
  BY <1>0, <1>11, Zenon
<1>14. \A s \in Texts : Data(s) \in Atom
  BY <1>0, <1>11, Zenon
<1>15. \A m \in Names : Marker(m, 0) \in Atom
  <2>1. 0 \in Int
    OBVIOUS
  <2> QED BY <1>12, <2>1, Zenon
<1>2. /\ \A x \in Atom : <<x>> \in Seq(Atom)
      /\ \A x, y \in Atom : <<x, y>> \in Seq(Atom)
  OBVIOUS
<1>3. ASSUME NEW n \in Int
      PROVE  /\ WriteUint(n) \in Seq(Atom) /\ Scalar(WriteUint(n), "Integer", n)
             /\ WriteSint(n) \in Seq(Atom) /\ Scalar(WriteSint(n), "Integer", n)
             /\ WriteF64(n) \in Seq(Atom) /\ Scalar(WriteF64(n), "Float", n)
  <2>1. /\ \A m \in {"FixPos", "FixNeg"} : Scalar(<<Marker(m, n)>>, "Integer", n)
        /\ \A m \in {"U", "I"} : Scalar(<<Marker(m, 0), Data(n)>>, "Integer", n)
        /\ Scalar(<<Marker("F64", 0), Data(n)>>, "Float", n)
    BY FromMarkerIs DEF Scalar
  <2>2. /\ \A m \in {"FixPos", "FixNeg"} : <<Marker(m, n)>> \in Seq(Atom)
        /\ \A m \in {"U", "I", "F64"} : <<Marker(m, 0), Data(n)>> \in Seq(Atom)
    <3>2. Data(n) \in Atom
      BY <1>13
    <3>3. /\ Marker("FixPos", n) \in Atom /\ Marker("FixNeg", n) \in Atom
          /\ Marker("U", 0) \in Atom /\ Marker("I", 0) \in Atom /\ Marker("F64", 0) \in Atom
      BY <1>12, <1>15, Zenon DEF Names
    <3> QED BY <1>2, <3>2, <3>3
  <2> QED BY <2>1, <2>2 DEF WriteUint, WriteSint, WriteF64
<1>4. ASSUME NEW n \in Int PROVE WriteInt(n) \in Seq(Atom) /\ Scalar(WriteInt(n), "Integer", n)
  BY <1>3 DEF WriteInt
<1>5. ASSUME NEW s \in Texts PROVE WriteStr(s) \in Seq(Atom) /\ Scalar(WriteStr(s), "String", s)
  <2>1. Scalar(<<Marker("Str", 0), Data(s)>>, "String", s)
    BY FromMarkerIs DEF Scalar
  <2>2. Marker("Str", 0) \in Atom /\ Data(s) \in Atom
    BY <1>14, <1>15, Zenon DEF Names
  <2> QED BY <1>2, <2>1, <2>2 DEF WriteStr
<1>6. ASSUME NEW b \in BOOLEAN PROVE WriteBool(b) \in Seq(Atom) /\ Scalar(WriteBool(b), "Bool", b)
  <2>1. /\ Scalar(<<Marker("True", 0)>>, "Bool", TRUE)
        /\ Scalar(<<Marker("False", 0)>>, "Bool", FALSE)
    BY DEF Scalar
  <2>2. /\ b => WriteBool(b) = <<Marker("True", 0)>>
        /\ ~b => WriteBool(b) = <<Marker("False", 0)>>
    BY DEF WriteBool
  <2>3. Marker("True", 0) \in Atom /\ Marker("False", 0) \in Atom
    BY <1>15, Zenon DEF Names
  <2> QED BY <1>2, <2>1, <2>2, <2>3
<1>7. WriteNil \in Seq(Atom) /\ Scalar(WriteNil, "Null", 0)
  <2>1. Scalar(<<Marker("Null", 0)>>, "Null", 0)
    BY DEF Scalar
  <2>2. Marker("Null", 0) \in Atom
    BY <1>15, Zenon DEF Names
  <2> QED BY <1>2, <2>1, <2>2 DEF WriteNil
<1> QED BY <1>3, <1>4, <1>5, <1>6, <1>7

LEMMA AppendPart ==
  ASSUME NEW n \in Nat, NEW I, DOMAIN I = 1 .. n, NEW j \in Nat, j < n
  PROVE  Append([k \in 1 .. j |-> I[k]], I[j + 1]) = [k \in 1 .. j + 1 |-> I[k]]
<1> DEFINE S == {I[k] : k \in 1 .. n}
           u == [k \in 1 .. j |-> I[k]]
           w == [k \in 1 .. j + 1 |-> I[k]]
           x == I[j + 1]
<1>1. u \in Seq(S) /\ w \in Seq(S) /\ x \in S /\ Len(u) = j /\ Len(w) = j + 1
  <2>1. \A k \in 1 .. j + 1 : I[k] \in S
    OBVIOUS
  <2>2. \A k \in 1 .. j : k \in 1 .. j + 1
    OBVIOUS
  <2> HIDE DEF S
  <2>3. u \in [1 .. j -> S] /\ w \in [1 .. j + 1 -> S]
    BY <2>1, <2>2
  <2>4. j + 1 \in Nat /\ j + 1 \in 1 .. j + 1
    OBVIOUS
  <2>5. x \in S
    BY <2>1, <2>4
  <2> HIDE DEF u, w, x
  <2>6. u \in Seq(S) /\ Len(u) = j /\ w \in Seq(S) /\ Len(w) = j + 1
    BY <2>3, <2>4
  <2> QED BY <2>5, <2>6
<1>2. \A k \in 1 .. j : u[k] = w[k]
  OBVIOUS
<1>3. w[j + 1] = x
  OBVIOUS
<1> HIDE DEF S, u, w, x
<1>4. Append(u, x) = w
  BY <1>1, <1>2, <1>3
<1> QED BY <1>4 DEF u, w, x

\* The values of words one behind the other, behind what b begins with.
ScalarWords(b, ws, ty, vs, n) ==
  /\ Words(Atom, b, ws, n)
  /\ \A k \in 1 .. n : Scalar(ws[k], ty[k], vs[k])

Items(pos, b, ty, vs, n) == [k \in 1 .. n |-> Got(ty[k], vs[k], pos + Len(b[k]))]

\* A row is read up to where the file holds its words.
LEMMA RowReads ==
  ASSUME NEW file \in Seq(Atom), NEW pos \in Nat \ {0}, NEW n \in Nat,
         NEW b, NEW ws, NEW ty, NEW vs, ScalarWords(b, ws, ty, vs, n),
         NEW inner, NEW deeper, Reads(inner, file, deeper),
         NEW row, RowRun(row, pos + Len(b[0]), n, inner)
  PROVE  /\ \A j \in 0 .. n :
              Holds(file, pos, b[j]) =>
                row[j] = [ok |-> TRUE, items |-> Items(pos, b, ty, vs, j), pos |-> pos + Len(b[j])]
         /\ \A k \in 1 .. n :
              Holds(file, pos, b[k - 1]) /\ CutIn(file, pos + Len(b[k - 1]), ws[k]) =>
                row[k] \in {Failed("eof"), Failed("value")}
<1> DEFINE R(j) == [ok |-> TRUE, items |-> Items(pos, b, ty, vs, j), pos |-> pos + Len(b[j])]
           Ok(j) == Holds(file, pos, b[j]) => row[j] = R(j)
<1>0. Words(Atom, b, ws, n) /\ Len(file) \in Nat
  BY DEF ScalarWords
<1>00. row[0] = RowStart(pos + Len(b[0])) /\ \A i \in 1 .. n : row[i] = RowStep(row[i - 1], inner)
  BY DEF RowRun
<1>1. ASSUME NEW k \in 1 .. n
      PROVE  /\ k - 1 \in 0 .. n /\ k \in 0 .. n
             /\ b[k - 1] \in Seq(Atom) /\ ws[k] \in Seq(Atom) /\ b[k] = b[k - 1] \o ws[k]
             /\ Len(b[k - 1]) \in Nat /\ Len(ws[k]) \in Nat \ {0}
             /\ Len(b[k]) = Len(b[k - 1]) + Len(ws[k])
             /\ pos + Len(b[k - 1]) \in Nat \ {0}
  <2>1. k - 1 \in 0 .. n /\ k \in 0 .. n
    OBVIOUS
  <2>2. b[k - 1] \in Seq(Atom) /\ ws[k] \in Seq(Atom) /\ b[k] = b[k - 1] \o ws[k]
    BY <1>0, <2>1 DEF Words
  <2>3. Len(b[k]) = Len(b[k - 1]) + Len(ws[k]) /\ Len(b[k - 1]) \in Nat /\ Len(ws[k]) \in Nat
    BY <2>2
  <2>4. Len(ws[k]) \in Nat \ {0}
    BY ScalarReads DEF ScalarWords
  <2> QED BY <2>1, <2>2, <2>3, <2>4
<1>2. Ok(0)
  <2>1. Items(pos, b, ty, vs, 0) = <<>>
    BY DEF Items
  <2> QED BY <1>00, <2>1 DEF RowStart
<1> DEFINE I == Items(pos, b, ty, vs, n)
<1>3. DOMAIN I = 1 .. n /\ \A k \in 1 .. n : I[k] = Got(ty[k], vs[k], pos + Len(b[k]))
  BY DEF Items
<1>4. \A j \in 0 .. n : Items(pos, b, ty, vs, j) = [k \in 1 .. j |-> I[k]]
  BY DEF Items
<1> HIDE DEF I
<1>5. ASSUME NEW k \in 1 .. n, row[k - 1] = R(k - 1), pos + Len(b[k - 1]) <= Len(file) + 1
      PROVE  row[k] = LET x == inner[pos + Len(b[k - 1])] IN
                      IF x.ok THEN [ok |-> TRUE, items |-> Append(Items(pos, b, ty, vs, k - 1), x), pos |-> x.pos]
                      ELSE x
  <2>1. row[k] = RowStep(R(k - 1), inner)
    BY <1>00, <1>5
  <2> QED BY <2>1 DEF RowStep, Then
<1>6. ASSUME NEW k \in 1 .. n, Ok(k - 1) PROVE Ok(k)
  <2> SUFFICES ASSUME Holds(file, pos, b[k]) PROVE row[k] = R(k)
    OBVIOUS
  <2> DEFINE p == pos + Len(b[k - 1])
             x == inner[p]
  <2>1. Holds(file, pos, b[k - 1]) /\ Holds(file, p, ws[k])
    <3>1. Holds(file, pos, b[k - 1] \o ws[k])
      BY <1>1
    <3> QED BY <1>1, <3>1, HoldsConcat
  <2>2. p \in 1 .. Len(file)
    <3>1. p \in Nat \ {0} /\ Len(ws[k]) \in Nat \ {0}
      BY <1>1
    <3>2. p + Len(ws[k]) <= Len(file) + 1
      BY <2>1 DEF Holds
    <3> HIDE DEF p
    <3> QED BY <1>0, <3>1, <3>2
  <2>3. x = ReadFromMarker(file, p, deeper)
    <3>1. p \in 1 .. Len(file) + 1 /\ ~(p > Len(file))
      BY <1>0, <2>2
    <3> HIDE DEF p
    <3> QED BY <3>1 DEF Reads
  <2>4. ReadFromMarker(file, p, deeper) = Got(ty[k], vs[k], p + Len(ws[k]))
    <3>1. Scalar(ws[k], ty[k], vs[k]) /\ p \in Nat \ {0}
      BY <1>1 DEF ScalarWords
    <3> DEFINE w == ws[k]
               t == ty[k]
               v == vs[k]
    <3> HIDE DEF p, w, t, v
    <3>2. Scalar(w, t, v) /\ Holds(file, p, w) /\ p \in Nat \ {0}
      BY <2>1, <3>1 DEF w, t, v
    <3>3. ReadFromMarker(file, p, deeper) = Got(t, v, p + Len(w))
      BY <3>2, ScalarReads
    <3> QED BY <3>3 DEF w, t, v
  <2>5. x = Got(ty[k], vs[k], pos + Len(b[k])) /\ x = I[k]
    <3>1. p + Len(ws[k]) = pos + Len(b[k])
      <4> DEFINE q == Len(b[k - 1])
                 r == Len(ws[k])
      <4>1. q \in Nat /\ r \in Nat /\ Len(b[k]) = q + r
        BY <1>1
      <4> HIDE DEF q, r
      <4>2. (pos + q) + r = pos + Len(b[k])
        BY <4>1
      <4> QED BY <4>2 DEF q, r
    <3> HIDE DEF p, x
    <3> QED BY <1>3, <2>3, <2>4, <3>1
  <2>6. x.ok /\ x.pos = pos + Len(b[k])
    <3> HIDE DEF x
    <3> QED BY <2>5 DEF Got
  <2>7. row[k - 1] = R(k - 1) /\ p <= Len(file) + 1
    BY <1>0, <1>6, <2>1, <2>2
  <2>8. row[k] = IF x.ok THEN [ok |-> TRUE, items |-> Append(Items(pos, b, ty, vs, k - 1), x), pos |-> x.pos]
                 ELSE x
    <3> HIDE DEF R
    <3> QED BY <1>5, <2>7
  <2>9. Append(Items(pos, b, ty, vs, k - 1), x) = Items(pos, b, ty, vs, k)
    <3>1. k - 1 \in Nat /\ k - 1 < n /\ (k - 1) + 1 = k
      OBVIOUS
    <3>2. Append([i \in 1 .. k - 1 |-> I[i]], I[(k - 1) + 1]) = [i \in 1 .. (k - 1) + 1 |-> I[i]]
      BY <1>3, <3>1, AppendPart
    <3> HIDE DEF x
    <3> QED BY <1>1, <1>4, <2>5, <3>1, <3>2
  <2> HIDE DEF x
  <2> QED BY <2>6, <2>8, <2>9
<1> DEFINE S == {j \in Nat : j <= n => Ok(j)}
<1>7. S = Nat
  <2>1. 0 \in S
    BY <1>2
  <2>2. ASSUME NEW j \in S PROVE j + 1 \in S
    <3> HIDE DEF Ok
    <3>1. j \in Nat /\ (j <= n => Ok(j)) /\ (j + 1) - 1 = j
      OBVIOUS
    <3>2. j + 1 <= n => j + 1 \in 1 .. n /\ j <= n
      BY <3>1
    <3>3. j + 1 <= n => Ok(j + 1)
      BY <1>6, <3>1, <3>2
    <3> QED BY <3>1, <3>3
  <2>3. S \in SUBSET Nat
    <3> HIDE DEF Ok
    <3> QED OBVIOUS
  <2> HIDE DEF S
  <2> QED BY <2>1, <2>2, <2>3, SetInduction
<1>8. \A j \in 0 .. n : Ok(j)
  <2>1. \A j \in 0 .. n : j \in S /\ j <= n
    <3> HIDE DEF S
    <3> QED BY <1>7
  <2> HIDE DEF Ok
  <2> QED BY <2>1
<1>9. ASSUME NEW k \in 1 .. n, Holds(file, pos, b[k - 1]), CutIn(file, pos + Len(b[k - 1]), ws[k])
      PROVE  row[k] \in {Failed("eof"), Failed("value")}
  <2> DEFINE p == pos + Len(b[k - 1])
             x == inner[p]
  <2>1. row[k - 1] = R(k - 1)
    BY <1>1, <1>8, <1>9
  <2>2. p \in 1 .. Len(file) + 1
    BY <1>0, <1>1, <1>9 DEF CutIn
  <2>3. x = IF p > Len(file) THEN Failed("eof") ELSE ReadFromMarker(file, p, deeper)
    <3> HIDE DEF p
    <3> QED BY <2>2 DEF Reads
  <2>4. p <= Len(file) => ReadFromMarker(file, p, deeper) = Failed("value")
    <3>1. Scalar(ws[k], ty[k], vs[k]) /\ p \in Nat \ {0} /\ CutIn(file, p, ws[k])
      BY <1>1, <1>9 DEF ScalarWords
    <3> HIDE DEF p
    <3> QED BY <3>1, ScalarReads
  <2>5. x \in {Failed("eof"), Failed("value")}
    <3> HIDE DEF x, p
    <3> QED BY <1>0, <2>2, <2>3, <2>4
  <2>6. row[k] = IF x.ok THEN [ok |-> TRUE, items |-> Append(Items(pos, b, ty, vs, k - 1), x), pos |-> x.pos]
                 ELSE x
    <3> HIDE DEF R
    <3> QED BY <1>5, <2>1, <2>2
  <2>7. ~x.ok
    <3> HIDE DEF x
    <3> QED BY <2>5 DEF Failed
  <2> HIDE DEF x
  <2> QED BY <2>5, <2>6, <2>7
<1> HIDE DEF R
<1> QED BY <1>8, <1>9 DEF R

\* Once a variant of a row cannot be read, neither can the row.
LEMMA RowFails ==
  ASSUME NEW n \in Nat, NEW inner, NEW row, NEW pos, RowRun(row, pos, n, inner),
         NEW k \in 1 .. n, ~row[k].ok
  PROVE  row[n] = row[k]
<1> DEFINE S == {j \in Nat : k + j <= n => row[k + j] = row[k]}
<1>1. 0 \in S
  OBVIOUS
<1>2. ASSUME NEW j \in S PROVE j + 1 \in S
  <2> SUFFICES ASSUME k + (j + 1) <= n PROVE row[k + (j + 1)] = row[k]
    OBVIOUS
  <2> DEFINE l == k + (j + 1)
  <2>1. l \in 1 .. n /\ l - 1 = k + j /\ row[k + j] = row[k]
    OBVIOUS
  <2> HIDE DEF l
  <2>2. row[l] = RowStep(row[l - 1], inner)
    BY <2>1 DEF RowRun
  <2>3. row[l] = row[k]
    BY <2>1, <2>2 DEF RowStep, Then
  <2> QED BY <2>3 DEF l
<1>3. S = Nat
  <2> HIDE DEF S
  <2>1. S \in SUBSET Nat
    BY DEF S
  <2> QED BY <1>1, <1>2, <2>1, SetInduction
<1>4. n - k \in Nat /\ k + (n - k) = n
  OBVIOUS
<1>5. n - k \in S
  <2> HIDE DEF S
  <2> QED BY <1>3, <1>4
<1> QED BY <1>4, <1>5

\* A row as ReadRow reads it: all of it, or an error where the file ends.
LEMMA ReadRowIs ==
  ASSUME NEW file \in Seq(Atom), NEW pos \in Nat \ {0}, NEW n \in Nat,
         NEW b, NEW ws, NEW ty, NEW vs, ScalarWords(b, ws, ty, vs, n),
         NEW inner, NEW deeper, Reads(inner, file, deeper),
         Holds(file, pos, b[0])
  PROVE  /\ Holds(file, pos, b[n]) =>
              ReadRow(pos + Len(b[0]), n, inner)
                = [ok |-> TRUE, items |-> Items(pos, b, ty, vs, n), pos |-> pos + Len(b[n])]
         /\ CutIn(file, pos, b[n]) =>
              ReadRow(pos + Len(b[0]), n, inner) \in {Failed("eof"), Failed("value")}
<1> DEFINE p == pos + Len(b[0])
           Row == ReadRow(p, n, inner)
<1> HIDE DEF p
<1>1. PICK row : RowRun(row, p, n, inner) /\ Row = row[n]
  BY RowIs
<1> HIDE DEF Row
<1>2. /\ \A j \in 0 .. n :
           Holds(file, pos, b[j]) =>
             row[j] = [ok |-> TRUE, items |-> Items(pos, b, ty, vs, j), pos |-> pos + Len(b[j])]
      /\ \A k \in 1 .. n :
           Holds(file, pos, b[k - 1]) /\ CutIn(file, pos + Len(b[k - 1]), ws[k]) =>
             row[k] \in {Failed("eof"), Failed("value")}
  BY <1>1, RowReads DEF p
<1>3. n \in 0 .. n
  OBVIOUS
<1>4. ASSUME CutIn(file, pos, b[n]) PROVE Row \in {Failed("eof"), Failed("value")}
  <2>1. ~CutIn(file, pos, b[0])
    <3>1. pos + Len(b[0]) <= Len(file) + 1
      BY DEF Holds
    <3>2. b[0] \in Seq(Atom)
      BY DEF ScalarWords, Words
    <3> QED BY <3>1, <3>2 DEF CutIn
  <2>2. Words(Atom, b, ws, n)
    BY DEF ScalarWords
  <2>3. PICK k \in 1 .. n : Holds(file, pos, b[k - 1]) /\ CutIn(file, pos + Len(b[k - 1]), ws[k])
    BY <1>4, <2>1, <2>2, WordsCut
  <2>4. row[k] \in {Failed("eof"), Failed("value")}
    BY <1>2, <2>3
  <2>5. ~row[k].ok
    BY <2>4 DEF Failed
  <2>6. row[n] = row[k]
    BY <1>1, <2>5, RowFails
  <2> QED BY <1>1, <2>4, <2>6
<1> QED BY <1>1, <1>2, <1>3, <1>4 DEF Row, p

-----------------------------------------------------------------------------
(* The header.                                                             *)

HeaderTypes(c) ==
  <<"String", "String", "String", "Integer", "String", "Integer",
    "String", IF c.recv_llq = 0 THEN "Null" ELSE "Float", "String", "Bool">>
HeaderValues(c) ==
  <<"schema", c.schema, "version", c.version, "full_encode_secs", c.full_encode_secs,
    "recv_llq", c.recv_llq, "delta_enc", c.delta_enc>>
HeaderParts(c) ==
  <<WriteStr("schema"), WriteStr(c.schema), WriteStr("version"), WriteUint(c.version),
    WriteStr("full_encode_secs"), WriteUint(c.full_encode_secs), WriteStr("recv_llq"),
    IF c.recv_llq = 0 THEN WriteNil ELSE WriteF64(c.recv_llq),
    WriteStr("delta_enc"), WriteBool(c.delta_enc)>>

LEMMA CfgType ==
  ASSUME NEW c \in Cfgs
  PROVE  /\ c.schema \in Texts /\ c.version \in Nat /\ c.full_encode_secs \in Int
         /\ c.recv_llq \in Nat /\ c.delta_enc \in BOOLEAN
<1>1. c.schema \in {d.schema : d \in Cfgs}
  OBVIOUS
<1>2. c.version \in Nat /\ c.full_encode_secs \in Int /\ c.recv_llq \in Nat /\ c.delta_enc \in BOOLEAN
  BY CfgAssumption
<1> QED BY <1>1, <1>2, Zenon DEF Texts

LEMMA HeaderPartsScalar ==
  ASSUME NEW c \in Cfgs, NEW k \in 1 .. 10
  PROVE  HeaderParts(c)[k] \in Seq(Atom) /\ Scalar(HeaderParts(c)[k], HeaderTypes(c)[k], HeaderValues(c)[k])
<1> DEFINE ws == HeaderParts(c)
           ty == HeaderTypes(c)
           vs == HeaderValues(c)
           Good(i) == ws[i] \in Seq(Atom) /\ Scalar(ws[i], ty[i], vs[i])
<1>1. /\ "schema" \in Texts /\ "version" \in Texts /\ "full_encode_secs" \in Texts
      /\ "recv_llq" \in Texts /\ "delta_enc" \in Texts
  BY Zenon DEF Texts
<1>2. /\ c.schema \in Texts /\ c.version \in Int /\ c.full_encode_secs \in Int
      /\ c.recv_llq \in Int /\ c.delta_enc \in BOOLEAN
  BY CfgType
<1>3. /\ ws[1] = WriteStr("schema") /\ ws[2] = WriteStr(c.schema) /\ ws[3] = WriteStr("version")
      /\ ws[4] = WriteUint(c.version) /\ ws[5] = WriteStr("full_encode_secs")
      /\ ws[6] = WriteUint(c.full_encode_secs) /\ ws[7] = WriteStr("recv_llq")
      /\ ws[8] = (IF c.recv_llq = 0 THEN WriteNil ELSE WriteF64(c.recv_llq))
      /\ ws[9] = WriteStr("delta_enc") /\ ws[10] = WriteBool(c.delta_enc)
  BY DEF HeaderParts
<1>4. /\ ty[1] = "String" /\ ty[2] = "String" /\ ty[3] = "String" /\ ty[4] = "Integer"
      /\ ty[5] = "String" /\ ty[6] = "Integer" /\ ty[7] = "String"
      /\ ty[8] = (IF c.recv_llq = 0 THEN "Null" ELSE "Float")
      /\ ty[9] = "String" /\ ty[10] = "Bool"
  BY DEF HeaderTypes
<1>5. /\ vs[1] = "schema" /\ vs[2] = c.schema /\ vs[3] = "version" /\ vs[4] = c.version
      /\ vs[5] = "full_encode_secs" /\ vs[6] = c.full_encode_secs /\ vs[7] = "recv_llq"
      /\ vs[8] = c.recv_llq /\ vs[9] = "delta_enc" /\ vs[10] = c.delta_enc
  BY DEF HeaderValues
<1> HIDE DEF ws, ty, vs
<1>6. \A s \in Texts : WriteStr(s) \in Seq(Atom) /\ Scalar(WriteStr(s), "String", s)
  BY WritersScalar
<1>7. \A n \in Int : WriteUint(n) \in Seq(Atom) /\ Scalar(WriteUint(n), "Integer", n)
  BY WritersScalar
<1>8. Good(1) /\ Good(2) /\ Good(3) /\ Good(5) /\ Good(7) /\ Good(9)
  BY <1>1, <1>2, <1>3, <1>4, <1>5, <1>6, Zenon
<1>9. Good(4) /\ Good(6)
  BY <1>2, <1>3, <1>4, <1>5, <1>7, Zenon
<1>10. Good(8)
  <2>1. WriteNil \in Seq(Atom) /\ Scalar(WriteNil, "Null", 0)
    BY WritersScalar
  <2>2. WriteF64(c.recv_llq) \in Seq(Atom) /\ Scalar(WriteF64(c.recv_llq), "Float", c.recv_llq)
    BY <1>2, WritersScalar
  <2> QED BY <1>3, <1>4, <1>5, <2>1, <2>2, Zenon
<1>11. Good(10)
  <2>1. \A b \in BOOLEAN : WriteBool(b) \in Seq(Atom) /\ Scalar(WriteBool(b), "Bool", b)
    BY WritersScalar
  <2> QED BY <1>2, <1>3, <1>4, <1>5, <2>1, Zenon
<1>12. k \in {1, 2, 3, 4, 5, 6, 7, 8, 9, 10}
  OBVIOUS
<1>13. Good(k)
  <2> HIDE DEF Good
  <2> QED BY <1>8, <1>9, <1>10, <1>11, <1>12
<1> QED BY <1>13 DEF ws, ty, vs

LEMMA HeaderWords ==
  ASSUME NEW c \in Cfgs
  PROVE  \E b : /\ ScalarWords(b, HeaderParts(c), HeaderTypes(c), HeaderValues(c), 10)
                /\ b[0] = WriteMapLen(5) /\ b[10] = GetHeader(c)
<1> DEFINE ws == HeaderParts(c)
           a == WriteMapLen(5)
<1>1. a \in Seq(Atom)
  <2>1. Marker("Map", 5) \in Atom
    <3>1. 5 \in Texts \cup Int /\ "Map" \in Names
      <4>1. 5 \in Int
        OBVIOUS
      <4> QED BY <4>1, Zenon DEF Names
    <3> DEFINE V == Texts \cup Int
    <3> HIDE DEF V
    <3> QED BY <3>1 DEF Marker, Atom, V
  <2> QED BY <2>1 DEF WriteMapLen
<1>2. ws \in [1 .. 10 -> Seq(Atom)]
  <2>1. ws = [k \in 1 .. 10 |-> ws[k]]
    BY DEF HeaderParts
  <2>2. \A k \in 1 .. 10 : ws[k] \in Seq(Atom)
    BY HeaderPartsScalar
  <2> HIDE DEF ws
  <2> QED BY <2>1, <2>2
<1> HIDE DEF a
<1>3. PICK b : Words(Atom, b, ws, 10) /\ b[0] = a
  <2> DEFINE n == 10
  <2>1. n \in Nat
    OBVIOUS
  <2> HIDE DEF ws, n
  <2>2. ws \in [1 .. n -> Seq(Atom)]
    BY <1>2 DEF n
  <2>3. \E b : WordsFrom(Atom, a, b, ws, n)
    BY <1>1, <2>1, <2>2, WordsExist
  <2> QED BY <2>3 DEF n, WordsFrom
<1>4. ScalarWords(b, HeaderParts(c), HeaderTypes(c), HeaderValues(c), 10)
  BY <1>3, HeaderPartsScalar DEF ScalarWords
<1>5. \A k \in 1 .. 10 : b[k] = b[k - 1] \o ws[k]
  <2> HIDE DEF ws
  <2> QED BY <1>3 DEF Words
<1>6. /\ b[1] = b[0] \o ws[1] /\ b[2] = b[1] \o ws[2] /\ b[3] = b[2] \o ws[3]
      /\ b[4] = b[3] \o ws[4] /\ b[5] = b[4] \o ws[5] /\ b[6] = b[5] \o ws[6]
      /\ b[7] = b[6] \o ws[7] /\ b[8] = b[7] \o ws[8] /\ b[9] = b[8] \o ws[9]
      /\ b[10] = b[9] \o ws[10]
  <2>1. /\ b[1] = b[1 - 1] \o ws[1] /\ b[2] = b[2 - 1] \o ws[2] /\ b[3] = b[3 - 1] \o ws[3]
        /\ b[4] = b[4 - 1] \o ws[4] /\ b[5] = b[5 - 1] \o ws[5] /\ b[6] = b[6 - 1] \o ws[6]
        /\ b[7] = b[7 - 1] \o ws[7] /\ b[8] = b[8 - 1] \o ws[8] /\ b[9] = b[9 - 1] \o ws[9]
        /\ b[10] = b[10 - 1] \o ws[10]
    <3>1. /\ 1 \in 1 .. 10 /\ 2 \in 1 .. 10 /\ 3 \in 1 .. 10 /\ 4 \in 1 .. 10 /\ 5 \in 1 .. 10
          /\ 6 \in 1 .. 10 /\ 7 \in 1 .. 10 /\ 8 \in 1 .. 10 /\ 9 \in 1 .. 10 /\ 10 \in 1 .. 10
      OBVIOUS
    <3> HIDE DEF ws
    <3> QED BY <1>5, <3>1, Zenon
  <2>2. /\ 1 - 1 = 0 /\ 2 - 1 = 1 /\ 3 - 1 = 2 /\ 4 - 1 = 3 /\ 5 - 1 = 4
        /\ 6 - 1 = 5 /\ 7 - 1 = 6 /\ 8 - 1 = 7 /\ 9 - 1 = 8 /\ 10 - 1 = 9
    OBVIOUS
  <2> HIDE DEF ws
  <2> QED BY <2>1, <2>2, Zenon
<1>7. /\ ws[1] = WriteStr("schema") /\ ws[2] = WriteStr(c.schema) /\ ws[3] = WriteStr("version")
      /\ ws[4] = WriteUint(c.version) /\ ws[5] = WriteStr("full_encode_secs")
      /\ ws[6] = WriteUint(c.full_encode_secs) /\ ws[7] = WriteStr("recv_llq")
      /\ ws[8] = (IF c.recv_llq = 0 THEN WriteNil ELSE WriteF64(c.recv_llq))
      /\ ws[9] = WriteStr("delta_enc") /\ ws[10] = WriteBool(c.delta_enc)
  BY DEF HeaderParts
<1>8. b[10] = GetHeader(c)
  <2> HIDE DEF ws
  <2> QED BY <1>3, <1>6, <1>7, Zenon DEF GetHeader, a
<1> QED BY <1>3, <1>4, <1>8, Zenon DEF a

\* What a header says of a configuration.
Says(h, c) ==
  /\ DOMAIN h = {"schema", "version", "full_encode_secs", "recv_llq", "delta_enc"}
  /\ h["schema"].type = "String" /\ h["schema"].v = c.schema
  /\ h["version"].type = "Integer" /\ h["version"].v = c.version
  /\ h["full_encode_secs"].type = "Integer" /\ h["full_encode_secs"].v = c.full_encode_secs
  /\ h["recv_llq"].type = (IF c.recv_llq = 0 THEN "Null" ELSE "Float") /\ h["recv_llq"].v = c.recv_llq
  /\ h["delta_enc"].type = "Bool" /\ h["delta_enc"].v = c.delta_enc

\* The map of m keys and values.
MapOf(items, m) ==
  LET Key(i) == items[2 * i - 1].v IN
    [k \in {Key(i) : i \in 1 .. m} |-> items[2 * Max({i \in 1 .. m : Key(i) = k})]]

\* The map in a row of a key and a value each.
LEMMA HeaderMap ==
  ASSUME NEW c \in Cfgs, NEW pos, NEW b, NEW items,
         items = Items(pos, b, HeaderTypes(c), HeaderValues(c), 10)
  PROVE  Says(MapOf(items, 5), c)
<1> DEFINE Key(i) == items[2 * i - 1].v
           H == [k \in {Key(i) : i \in 1 .. 5} |-> items[2 * Max({i \in 1 .. 5 : Key(i) = k})]]
           ty == HeaderTypes(c)
           vs == HeaderValues(c)
<1>1. \A k \in 1 .. 10 : items[k].type = ty[k] /\ items[k].v = vs[k]
  BY DEF Items, Got
<1>2. /\ Key(1) = "schema" /\ Key(2) = "version" /\ Key(3) = "full_encode_secs"
      /\ Key(4) = "recv_llq" /\ Key(5) = "delta_enc"
  <2>1. /\ vs[1] = "schema" /\ vs[3] = "version" /\ vs[5] = "full_encode_secs"
        /\ vs[7] = "recv_llq" /\ vs[9] = "delta_enc"
    BY DEF HeaderValues
  <2>2. /\ 2 * 1 - 1 = 1 /\ 2 * 2 - 1 = 3 /\ 2 * 3 - 1 = 5 /\ 2 * 4 - 1 = 7 /\ 2 * 5 - 1 = 9
        /\ 1 \in 1 .. 10 /\ 3 \in 1 .. 10 /\ 5 \in 1 .. 10 /\ 7 \in 1 .. 10 /\ 9 \in 1 .. 10
    OBVIOUS
  <2> HIDE DEF vs, ty
  <2>3. /\ items[1].v = vs[1] /\ items[3].v = vs[3] /\ items[5].v = vs[5]
        /\ items[7].v = vs[7] /\ items[9].v = vs[9]
    BY <1>1, <2>2
  <2> QED BY <2>1, <2>2, <2>3, Zenon
<1>3. /\ items[2].type = "String" /\ items[2].v = c.schema
      /\ items[4].type = "Integer" /\ items[4].v = c.version
      /\ items[6].type = "Integer" /\ items[6].v = c.full_encode_secs
      /\ items[8].type = (IF c.recv_llq = 0 THEN "Null" ELSE "Float") /\ items[8].v = c.recv_llq
      /\ items[10].type = "Bool" /\ items[10].v = c.delta_enc
  <2>1. /\ ty[2] = "String" /\ ty[4] = "Integer" /\ ty[6] = "Integer"
        /\ ty[8] = (IF c.recv_llq = 0 THEN "Null" ELSE "Float") /\ ty[10] = "Bool"
    BY DEF HeaderTypes
  <2>2. /\ vs[2] = c.schema /\ vs[4] = c.version /\ vs[6] = c.full_encode_secs
        /\ vs[8] = c.recv_llq /\ vs[10] = c.delta_enc
    BY DEF HeaderValues
  <2>3. 2 \in 1 .. 10 /\ 4 \in 1 .. 10 /\ 6 \in 1 .. 10 /\ 8 \in 1 .. 10 /\ 10 \in 1 .. 10
    OBVIOUS
  <2> HIDE DEF vs, ty
  <2> QED BY <1>1, <2>1, <2>2, <2>3, Zenon
<1>4. {Key(i) : i \in 1 .. 5} = {"schema", "version", "full_encode_secs", "recv_llq", "delta_enc"}
  <2>1. 1 .. 5 = {1, 2, 3, 4, 5}
    OBVIOUS
  <2>2. {Key(i) : i \in 1 .. 5} = {Key(1), Key(2), Key(3), Key(4), Key(5)}
    <3> HIDE DEF Key
    <3> QED BY <2>1
  <2> QED BY <1>2, <2>2
<1> HIDE DEF Key
<1>5. ASSUME NEW j \in 1 .. 5 PROVE Key(j) \in DOMAIN H /\ H[Key(j)] = items[2 * j]
  <2>1. {i \in 1 .. 5 : Key(i) = Key(j)} = {j}
    <3>1. j \in {1, 2, 3, 4, 5} /\ 1 .. 5 = {1, 2, 3, 4, 5}
      OBVIOUS
    <3>2. \A i, l \in {1, 2, 3, 4, 5} : Key(i) = Key(l) => i = l
      BY <1>2
    <3> QED BY <3>1, <3>2
  <2>2. Max({j}) = j
    <3>1. {j} \in SUBSET Int /\ j \in {j} /\ \A y \in {j} : j >= y
      OBVIOUS
    <3> QED BY <3>1, MaxIs
  <2> QED BY <2>1, <2>2
<1>6. DOMAIN H = {"schema", "version", "full_encode_secs", "recv_llq", "delta_enc"}
  BY <1>4
<1> HIDE DEF H
<1>7. /\ H["schema"] = items[2] /\ H["version"] = items[4] /\ H["full_encode_secs"] = items[6]
      /\ H["recv_llq"] = items[8] /\ H["delta_enc"] = items[10]
  <2>1. /\ H[Key(1)] = items[2 * 1] /\ H[Key(2)] = items[2 * 2] /\ H[Key(3)] = items[2 * 3]
        /\ H[Key(4)] = items[2 * 4] /\ H[Key(5)] = items[2 * 5]
    <3>1. 1 \in 1 .. 5 /\ 2 \in 1 .. 5 /\ 3 \in 1 .. 5 /\ 4 \in 1 .. 5 /\ 5 \in 1 .. 5
      OBVIOUS
    <3> QED BY <1>5, <3>1, Zenon
  <2>2. 2 * 1 = 2 /\ 2 * 2 = 4 /\ 2 * 3 = 6 /\ 2 * 4 = 8 /\ 2 * 5 = 10
    OBVIOUS
  <2> QED BY <1>2, <2>1, <2>2, Zenon
<1>8. Says(H, c)
  BY <1>3, <1>6, <1>7, Zenon DEF Says
<1> QED BY <1>8, Zenon DEF H, Key, MapOf

LEMMA HeaderReads ==
  ASSUME NEW c \in Cfgs, NEW file \in Seq(Atom)
  PROVE  /\ Holds(file, 1, GetHeader(c)) =>
              \E h : Read(file, 1) = Got("Map", h, Len(GetHeader(c)) + 1) /\ Says(h, c)
         /\ CutIn(file, 1, GetHeader(c)) => ~Read(file, 1).ok
<1> DEFINE ty == HeaderTypes(c)
           vs == HeaderValues(c)
           w == GetHeader(c)
<1>1. PICK b : /\ ScalarWords(b, HeaderParts(c), ty, vs, 10)
               /\ b[0] = WriteMapLen(5) /\ b[10] = w
  BY HeaderWords
<1>2. Words(Atom, b, HeaderParts(c), 10) /\ b[0] \in Seq(Atom) /\ b[10] \in Seq(Atom)
  <2>1. Words(Atom, b, HeaderParts(c), 10)
    BY <1>1 DEF ScalarWords
  <2>2. \A k \in 0 .. 10 : b[k] \in Seq(Atom)
    BY <2>1 DEF Words
  <2>3. 0 \in 0 .. 10 /\ 10 \in 0 .. 10
    OBVIOUS
  <2> QED BY <2>1, <2>2, <2>3, Zenon
<1>3. Len(b[0]) = 1 /\ b[0][1].m = "Map" /\ b[0][1].v = 5
  BY <1>1 DEF WriteMapLen, Marker
<1>4. Len(file) \in Nat
  OBVIOUS
<1>5. PICK inner, deeper :
        /\ Reads(inner, file, deeper)
        /\ \A p \in 1 .. Len(file) : Read(file, p) = ReadFromMarker(file, p, inner)
        /\ Read(file, Len(file) + 1) = Failed("eof")
  BY <1>4, ReadIs
<1> HIDE DEF ty, vs, w
<1> DEFINE Row == ReadRow(2, 10, inner)
           Map(items) == MapOf(items, 5)
<1>6. ASSUME Holds(file, 1, b[0])
      PROVE  Read(file, 1) = IF Row.ok THEN Got("Map", Map(Row.items), Row.pos) ELSE Row
  <2>1. 1 \in 1 .. Len(file) /\ file[1] = b[0][1]
    <3>1. 1 \in 1 .. Len(b[0]) /\ 1 + 1 - 1 = 1
      BY <1>3
    <3> QED BY <1>3, <1>4, <1>6, <3>1 DEF Holds
  <2>2. file[1].m = "Map" /\ file[1].v = 5
    BY <1>3, <2>1
  <2>3. Read(file, 1) = ReadMap(file, 1, inner)
    <3>1. ReadFromMarker(file, 1, inner) = ReadMap(file, 1, inner)
      BY <2>2, FromMarkerIs DEF ReadFromMarker
    <3> QED BY <1>5, <2>1, <3>1
  <2>4. 1 + 1 = 2 /\ 2 * 5 = 10
    OBVIOUS
  <2>5. ReadMap(file, 1, inner) =
          LET row == ReadRow(1 + 1, 2 * 5, inner) IN
          IF row.ok THEN Got("Map", MapOf(row.items, 5), row.pos) ELSE row
    <3>1. ReadMap(file, 1, inner) =
            LET row == ReadRow(1 + 1, 2 * file[1].v, inner) IN
            IF row.ok THEN Got("Map", MapOf(row.items, file[1].v), row.pos) ELSE row
      BY Zenon DEF ReadMap, MapOf, Then
    <3> QED BY <2>2, <3>1, Zenon
  <2> QED BY <2>3, <2>4, <2>5, Zenon
<1>7. ASSUME Holds(file, 1, b[0])
      PROVE  /\ Holds(file, 1, w) =>
                  Row = [ok |-> TRUE, items |-> Items(1, b, ty, vs, 10), pos |-> 1 + Len(w)]
             /\ CutIn(file, 1, w) => Row \in {Failed("eof"), Failed("value")}
  <2> DEFINE n == 10
             pos == 1
  <2>1. n \in Nat /\ pos \in Nat \ {0} /\ pos + Len(b[0]) = 2
    BY <1>3
  <2>2. ScalarWords(b, HeaderParts(c), ty, vs, n) /\ Holds(file, pos, b[0])
    BY <1>1, <1>7
  <2> HIDE DEF n, pos
  <2>3. /\ Holds(file, pos, b[n]) =>
             ReadRow(pos + Len(b[0]), n, inner)
               = [ok |-> TRUE, items |-> Items(pos, b, ty, vs, n), pos |-> pos + Len(b[n])]
        /\ CutIn(file, pos, b[n]) =>
             ReadRow(pos + Len(b[0]), n, inner) \in {Failed("eof"), Failed("value")}
    BY <1>5, <2>1, <2>2, ReadRowIs
  <2> QED BY <1>1, <2>1, <2>3 DEF n, pos
<1> HIDE DEF Row
<1>8. ASSUME Holds(file, 1, w)
      PROVE  \E h : Read(file, 1) = Got("Map", h, Len(w) + 1) /\ Says(h, c)
  <2>1. Holds(file, 1, b[0])
    <3> DEFINE n == 10
               z == 0
               pos == 1
               ps == HeaderParts(c)
    <3>1. /\ n \in Nat /\ Words(Atom, b, ps, n) /\ Holds(file, pos, b[n]) /\ z \in 0 .. n
          /\ pos \in Nat \ {0}
      BY <1>1, <1>2, <1>8
    <3> HIDE DEF n, z, pos, ps
    <3>2. \A k \in 0 .. n : Holds(file, pos, b[k])
      BY <3>1, WordsHeld
    <3>3. Holds(file, pos, b[z])
      BY <3>1, <3>2
    <3> QED BY <3>3 DEF z, pos
  <2>2. Row.ok /\ Row.items = Items(1, b, ty, vs, 10) /\ Row.pos = 1 + Len(w)
    BY <1>7, <1>8, <2>1
  <2>3. Says(Map(Row.items), c)
    BY <2>2, HeaderMap DEF ty, vs
  <2>4. Len(w) \in Nat
    BY <1>1, <1>2
  <2>5. Row.pos = Len(w) + 1
    BY <2>2, <2>4
  <2> HIDE DEF Map
  <2> QED BY <1>6, <2>1, <2>2, <2>3, <2>5, Zenon
<1>9. ASSUME CutIn(file, 1, w) PROVE ~Read(file, 1).ok
  <2>1. CASE Len(file) = 0
    BY <1>5, <2>1 DEF Failed
  <2>2. CASE Len(file) # 0
    <3>1. Holds(file, 1, b[0])
      <4>1. ~CutIn(file, 1, b[0])
        BY <1>3, <1>4, <2>2 DEF CutIn
      <4>2. \A i \in 1 .. 1 : i = 1
        OBVIOUS
      <4>3. w[1] = b[0][1] /\ 1 <= Len(w) /\ Len(w) \in Nat
        <5> DEFINE n == 10
        <5>1. n \in Nat /\ Words(Atom, b, HeaderParts(c), n) /\ b[n] = w /\ 0 \in 0 .. n /\ n \in 0 .. n
          BY <1>1, <1>2
        <5>2. Len(b[0]) <= Len(b[n]) /\ \A i \in 1 .. Len(b[0]) : b[n][i] = b[0][i]
          <6> DEFINE z == 0
          <6>1. z \in 0 .. n /\ n \in z .. n
            OBVIOUS
          <6> HIDE DEF n, z
          <6>2. Begins(b[z], b[n])
            BY <5>1, <6>1, WordsGrow
          <6> QED BY <6>2 DEF z, Begins
        <5> HIDE DEF n
        <5>3. 1 \in 1 .. Len(b[0])
          BY <1>3
        <5>4. Len(w) \in Nat
          BY <1>1, <1>2
        <5> QED BY <1>3, <5>1, <5>2, <5>3, <5>4
      <4>4. file[1] = w[1]
        <5>1. 1 \in 1 .. Len(w) /\ 1 + 1 - 1 = 1 /\ 1 <= Len(file)
          BY <1>4, <2>2, <4>3
        <5> QED BY <1>9, <5>1 DEF CutIn
      <4>5. \A i \in 1 .. Len(b[0]) : file[1 + i - 1] = b[0][i]
        BY <1>3, <4>2, <4>3, <4>4
      <4> QED BY <1>3, <1>4, <2>2, <4>5 DEF Holds
    <3>2. Row \in {Failed("eof"), Failed("value")}
      BY <1>7, <1>9, <3>1
    <3>3. ~Row.ok
      BY <3>2 DEF Failed
    <3> HIDE DEF Map
    <3> QED BY <1>6, <3>1, <3>3
  <2> QED BY <2>1, <2>2
<1> QED BY <1>8, <1>9 DEF w

\* try_from_header: of a header of this program or an older one, the
\* configuration; of another one, or where it is cut, an error.
LEMMA HeaderTried ==
  ASSUME NEW c \in Cfgs, NEW file \in Seq(Atom)
  PROVE  /\ Holds(file, 1, GetHeader(c)) /\ c.schema = Schema /\ c.version <= Version =>
              TryFromHeader(file) =
                [ok |-> TRUE, pos |-> Len(GetHeader(c)) + 1, full_encode_secs |-> c.full_encode_secs,
                 recv_llq |-> c.recv_llq, delta_enc |-> c.delta_enc]
         /\ Holds(file, 1, GetHeader(c)) /\ ~(c.schema = Schema /\ c.version <= Version) =>
              ~TryFromHeader(file).ok
         /\ CutIn(file, 1, GetHeader(c)) => ~TryFromHeader(file).ok
<1> DEFINE w == GetHeader(c)
           n == Len(w) + 1
<1>1. ASSUME Holds(file, 1, w)
      PROVE  /\ c.schema = Schema /\ c.version <= Version =>
                  TryFromHeader(file) =
                    [ok |-> TRUE, pos |-> n, full_encode_secs |-> c.full_encode_secs,
                     recv_llq |-> c.recv_llq, delta_enc |-> c.delta_enc]
             /\ ~(c.schema = Schema /\ c.version <= Version) => ~TryFromHeader(file).ok
  <2>1. PICK h : Read(file, 1) = Got("Map", h, n) /\ Says(h, c)
    BY <1>1, HeaderReads
  <2> HIDE DEF n, w
  <2>2. Supported(h) <=> c.schema = Schema /\ c.version <= Version
    <3>1. /\ "schema" \in DOMAIN h /\ "version" \in DOMAIN h /\ "full_encode_secs" \in DOMAIN h
          /\ "recv_llq" \in DOMAIN h /\ "delta_enc" \in DOMAIN h
      BY <2>1 DEF Says
    <3>2. /\ Is(h, "schema", "String") /\ Is(h, "version", "Integer")
          /\ Is(h, "full_encode_secs", "Integer") /\ Is(h, "delta_enc", "Bool")
      BY <2>1, <3>1, Zenon DEF Says, Is
    <3>3. Is(h, "recv_llq", "Null") \/ Is(h, "recv_llq", "Float")
      BY <2>1, <3>1, Zenon DEF Says, Is
    <3>4. h["schema"].v = c.schema /\ h["version"].v = c.version
      BY <2>1, Zenon DEF Says
    <3> QED BY <3>2, <3>3, <3>4, Zenon DEF Supported
  <2>3. TryFromHeader(file) =
          IF ~Supported(h) THEN Failed("header")
          ELSE [ok |-> TRUE, pos |-> n,
                full_encode_secs |-> h["full_encode_secs"].v,
                recv_llq |-> h["recv_llq"].v,
                delta_enc |-> h["delta_enc"].v]
    <3> DEFINE r == Read(file, 1)
    <3>1. r.ok /\ r.type = "Map" /\ r.v = h /\ r.pos = n
      <4> HIDE DEF r
      <4>1. r = Got("Map", h, n)
        BY <2>1 DEF r
      <4> QED BY <4>1, GotIs
    <3> QED BY <3>1, Zenon DEF TryFromHeader, Then
  <2>4. /\ h["full_encode_secs"].v = c.full_encode_secs /\ h["recv_llq"].v = c.recv_llq
        /\ h["delta_enc"].v = c.delta_enc
    BY <2>1, Zenon DEF Says
  <2>5. ~Failed("header").ok
    BY DEF Failed
  <2> QED BY <2>2, <2>3, <2>4, <2>5, Zenon
<1>2. ASSUME CutIn(file, 1, w) PROVE ~TryFromHeader(file).ok
  <2>1. ~Read(file, 1).ok
    BY <1>2, HeaderReads
  <2> QED BY <2>1 DEF TryFromHeader, Then
<1> QED BY <1>1, <1>2

-----------------------------------------------------------------------------
(* The parts of a frame.                                                   *)

LEMMA FrameType ==
  ASSUME NEW f \in EncodedFrame
  PROVE  /\ f.timestamp \in Nat \cup {NoTime} /\ f.subsec_ms \in Nat
         /\ f.inflight \in Nat /\ f.lost_packets \in Nat /\ f.recv_us_len \in Nat
         /\ f.recv_us \in [1 .. NumRecv -> Int]
         /\ f.recv_us_len = 0 => f.recv_us = [i \in 1 .. NumRecv |-> -1]
         /\ Rounded(f.inflight) \in Nat /\ Rounded(f.lost_packets) \in Nat
BY DEF EncodedFrame, Rounded

TimePart(f) == IF f.timestamp = NoTime THEN WriteNil ELSE WriteUint(f.timestamp)
MissingPart(f) ==
  IF IsIdle(f) THEN WriteSint(-1)
  ELSE WriteUint(Rounded(f.inflight)) \o WriteUint(Rounded(f.lost_packets))
RecvPart(f) ==
  IF f.recv_us_len = 0 THEN <<>>
  ELSE WriteArrayLen(NumRecv)
         \o Concat([i \in DOMAIN Steps(f.recv_us) |-> WriteInt(Steps(f.recv_us)[i])])

LEMMA TimeReads ==
  ASSUME NEW file \in Seq(Atom), NEW p \in Nat \ {0}, NEW f \in EncodedFrame
  PROVE  /\ TimePart(f) \in Seq(Atom) /\ Len(TimePart(f)) # 0
         /\ Holds(file, p, TimePart(f)) =>
              /\ Timestamp(file, p).ok
              /\ Timestamp(file, p).pos = p + Len(TimePart(f))
              /\ (IF Timestamp(file, p).type = "Null" THEN NoTime ELSE Timestamp(file, p).v) = f.timestamp
         /\ CutIn(file, p, TimePart(f)) /\ p <= Len(file) => Timestamp(file, p) = Failed("value")
         /\ p = Len(file) + 1 => Timestamp(file, p) = Failed("EOF")
<1> DEFINE w == TimePart(f)
           type == IF f.timestamp = NoTime THEN "Null" ELSE "Integer"
           v == IF f.timestamp = NoTime THEN 0 ELSE f.timestamp
<1>1. w \in Seq(Atom) /\ Scalar(w, type, v)
  <2>1. CASE f.timestamp = NoTime
    <3>1. WriteNil \in Seq(Atom) /\ Scalar(WriteNil, "Null", 0)
      BY WritersScalar
    <3> QED BY <2>1, <3>1 DEF TimePart
  <2>2. CASE f.timestamp # NoTime
    <3>1. f.timestamp \in Int
      BY <2>2, FrameType
    <3>2. WriteUint(f.timestamp) \in Seq(Atom) /\ Scalar(WriteUint(f.timestamp), "Integer", f.timestamp)
      BY <3>1, WritersScalar
    <3> QED BY <2>2, <3>2 DEF TimePart
  <2> QED BY <2>1, <2>2
<1>2. Len(file) \in Nat
  OBVIOUS
<1>3. PICK inner, deeper :
        /\ Reads(inner, file, deeper)
        /\ \A q \in 1 .. Len(file) : Read(file, q) = ReadFromMarker(file, q, inner)
        /\ Read(file, Len(file) + 1) = Failed("eof")
  BY <1>2, ReadIs
<1>4. type \in {"Null", "Integer"} /\ (IF type = "Null" THEN NoTime ELSE v) = f.timestamp
  OBVIOUS
<1> HIDE DEF w, type, v
<1>5. /\ Len(w) \in Nat \ {0}
      /\ Holds(file, p, w) => ReadFromMarker(file, p, inner) = Got(type, v, p + Len(w))
      /\ CutIn(file, p, w) /\ p <= Len(file) => ReadFromMarker(file, p, inner) = Failed("value")
  BY <1>1, ScalarReads
<1>6. p <= Len(file) => Read(file, p) = ReadFromMarker(file, p, inner)
  BY <1>2, <1>3
<1>7. ASSUME Holds(file, p, w)
      PROVE  Timestamp(file, p) = Got(type, v, p + Len(w))
  <2>1. p <= Len(file)
    BY <1>2, <1>5, <1>7 DEF Holds
  <2>2. Read(file, p) = Got(type, v, p + Len(w))
    BY <1>5, <1>6, <1>7, <2>1
  <2> QED BY <1>4, <2>2 DEF Timestamp, Got
<1>8. ASSUME CutIn(file, p, w), p <= Len(file) PROVE Timestamp(file, p) = Failed("value")
  <2> DEFINE r == Read(file, p)
  <2>1. r = Failed("value")
    BY <1>5, <1>6, <1>8
  <2>2. ~r.ok /\ r.err = "value"
    <3> HIDE DEF r
    <3> QED BY <2>1, FailedIs
  <2>3. "value" # "eof"
    OBVIOUS
  <2> QED BY <2>1, <2>2, <2>3, Zenon DEF Timestamp
<1>9. ASSUME p = Len(file) + 1 PROVE Timestamp(file, p) = Failed("EOF")
  <2> DEFINE r == Read(file, p)
  <2>1. r = Failed("eof")
    BY <1>3, <1>9
  <2>2. ~r.ok /\ r.err = "eof"
    <3> HIDE DEF r
    <3> QED BY <2>1, FailedIs
  <2> QED BY <2>2, Zenon DEF Timestamp
<1>10. Holds(file, p, w) =>
         /\ Timestamp(file, p).ok /\ Timestamp(file, p).pos = p + Len(w)
         /\ Timestamp(file, p).type = type /\ Timestamp(file, p).v = v
  BY <1>7 DEF Got
<1> QED BY <1>1, <1>4, <1>5, <1>8, <1>9, <1>10 DEF w

LEMMA MissingReads ==
  ASSUME NEW file \in Seq(Atom), NEW p \in Nat \ {0}, NEW f \in EncodedFrame
  PROVE  /\ MissingPart(f) \in Seq(Atom)
         /\ Holds(file, p, MissingPart(f)) =>
              Missing(file, p) = [ok |-> TRUE, inflight |-> 2 * Rounded(f.inflight),
                                  lost_packets |-> 2 * Rounded(f.lost_packets),
                                  pos |-> p + Len(MissingPart(f))]
         /\ CutIn(file, p, MissingPart(f)) => Missing(file, p) = Failed("value")
<1> DEFINE x == Rounded(f.inflight)
           y == Rounded(f.lost_packets)
<1>1. x \in Nat /\ y \in Nat
  BY FrameType
<1> HIDE DEF x, y
<1>2. CASE IsIdle(f)
  <2> DEFINE w == WriteSint(-1)
  <2>1. w \in Seq(Atom) /\ Scalar(w, "Integer", -1)
    <3>1. -1 \in Int
      OBVIOUS
    <3> QED BY <3>1, WritersScalar
  <2>2. MissingPart(f) = w
    BY <1>2 DEF MissingPart
  <2>3. x = 0 /\ y = 0
    BY <1>1, <1>2 DEF IsIdle, x, y
  <2> HIDE DEF w
  <2>4. /\ Holds(file, p, w) => ReadRmpInt(file, p) = Got("Integer", -1, p + Len(w))
        /\ CutIn(file, p, w) => ReadRmpInt(file, p) = Failed("value")
    <3> DEFINE v == -1
    <3> HIDE DEF v
    <3>1. Scalar(w, "Integer", v)
      BY <2>1 DEF v
    <3>2. /\ Holds(file, p, w) => ReadRmpInt(file, p) = Got("Integer", v, p + Len(w))
          /\ CutIn(file, p, w) => ReadRmpInt(file, p) = Failed("value")
      BY <3>1, RmpIntReads
    <3> QED BY <3>2 DEF v
  <2>5. Holds(file, p, w) => Missing(file, p) = [ok |-> TRUE, inflight |-> 0, lost_packets |-> 0, pos |-> p + Len(w)]
    <3> SUFFICES ASSUME Holds(file, p, w)
                 PROVE  Missing(file, p) = [ok |-> TRUE, inflight |-> 0, lost_packets |-> 0, pos |-> p + Len(w)]
      OBVIOUS
    <3> DEFINE r == ReadRmpInt(file, p)
    <3>1. r.ok /\ r.v = -1 /\ r.pos = p + Len(w)
      <4> HIDE DEF r
      <4>1. r = Got("Integer", -1, p + Len(w))
        BY <2>4 DEF r
      <4> QED BY <4>1 DEF Got
    <3> QED BY <3>1, Zenon DEF Missing, Then
  <2>6. CutIn(file, p, w) => Missing(file, p) = Failed("value")
    BY <2>4 DEF Missing, Then, Failed
  <2>7. 2 * x = 0 /\ 2 * y = 0
    BY <2>3
  <2> QED BY <2>1, <2>2, <2>5, <2>6, <2>7 DEF x, y
<1>3. CASE ~IsIdle(f)
  <2> DEFINE u == WriteUint(x)
             w == WriteUint(y)
  <2>1. /\ u \in Seq(Atom) /\ Scalar(u, "Integer", x)
        /\ w \in Seq(Atom) /\ Scalar(w, "Integer", y)
    BY <1>1, WritersScalar
  <2>2. MissingPart(f) = u \o w
    BY <1>3 DEF MissingPart, x, y
  <2> HIDE DEF u, w
  <2>3. Len(u \o w) = Len(u) + Len(w) /\ u \o w \in Seq(Atom) /\ Len(u) \in Nat /\ Len(w) \in Nat
    BY <2>1
  <2> DEFINE q == p + Len(u)
  <2>4. q \in Nat \ {0} /\ q + Len(w) = p + Len(u \o w)
    BY <2>3
  <2>5. /\ Holds(file, p, u) => ReadRmpInt(file, p) = Got("Integer", x, q)
        /\ CutIn(file, p, u) => ReadRmpInt(file, p) = Failed("value")
    BY <2>1, RmpIntReads
  <2> HIDE DEF q
  <2>6. /\ Holds(file, q, w) => ReadRmpInt(file, q) = Got("Integer", y, q + Len(w))
        /\ CutIn(file, q, w) => ReadRmpInt(file, q) = Failed("value")
    BY <2>1, <2>4, RmpIntReads
  <2>7. x # -1
    BY <1>1
  <2>8. ASSUME Holds(file, p, u), Holds(file, q, w)
        PROVE  Missing(file, p) = [ok |-> TRUE, inflight |-> 2 * x, lost_packets |-> 2 * y, pos |-> q + Len(w)]
    <3>1. ReadRmpInt(file, p) = Got("Integer", x, q) /\ ReadRmpInt(file, q) = Got("Integer", y, q + Len(w))
      BY <2>5, <2>6, <2>8
    <3> DEFINE r == ReadRmpInt(file, p)
               t == ReadRmpInt(file, q)
    <3>2. r.ok /\ r.v = x /\ r.pos = q /\ t.ok /\ t.v = y /\ t.pos = q + Len(w)
      <4> HIDE DEF r, t
      <4>1. r = Got("Integer", x, q) /\ t = Got("Integer", y, q + Len(w))
        BY <3>1 DEF r, t
      <4> QED BY <4>1 DEF Got
    <3> QED BY <2>7, <3>2, Zenon DEF Missing, Then
  <2>9. ASSUME CutIn(file, p, u) PROVE Missing(file, p) = Failed("value")
    BY <2>5, <2>9 DEF Missing, Then, Failed
  <2>10. ASSUME Holds(file, p, u), CutIn(file, q, w) PROVE Missing(file, p) = Failed("value")
    <3>1. ReadRmpInt(file, p) = Got("Integer", x, q) /\ ReadRmpInt(file, q) = Failed("value")
      BY <2>5, <2>6, <2>10
    <3> QED BY <2>7, <3>1 DEF Missing, Then, Got, Failed
  <2>11. Holds(file, p, u \o w) => Holds(file, p, u) /\ Holds(file, q, w)
    BY <2>1, HoldsConcat DEF q
  <2>12. CutIn(file, p, u \o w) => CutIn(file, p, u) \/ (Holds(file, p, u) /\ CutIn(file, q, w))
    BY <2>1, CutConcat DEF q
  <2> QED BY <2>2, <2>3, <2>4, <2>8, <2>9, <2>10, <2>11, <2>12 DEF x, y
<1> QED BY <1>2, <1>3

\* The sums take the differences back.
LEMMA SumsOfSteps ==
  ASSUME NEW v \in [1 .. NumRecv -> Int]
  PROVE  Steps(v) \in [1 .. NumRecv -> Int] /\ Sums(Steps(v)) = v
<1> DEFINE n == NumRecv
           s == Steps(v)
<1>1. n \in Nat
  BY NumRecvAssumption
<1> HIDE DEF n
<1>2. s = [i \in 1 .. n |-> v[i] - (IF i = 1 THEN 0 ELSE v[i - 1])]
  BY DEF Steps, n
<1> HIDE DEF s
<1>3. /\ v \in [1 .. n -> Int]
      /\ \A i \in 1 .. n : v[i] \in Int /\ (i # 1 => i - 1 \in 1 .. n /\ v[i - 1] \in Int)
  BY <1>1 DEF n
<1>4. ASSUME NEW i \in 1 .. n PROVE s[i] \in Int /\ v[i] = (IF i = 1 THEN 0 ELSE v[i - 1]) + s[i]
  <2> DEFINE x == IF i = 1 THEN 0 ELSE v[i - 1]
  <2>1. x \in Int /\ v[i] \in Int
    BY <1>3
  <2>2. s[i] = v[i] - x
    BY <1>2
  <2> HIDE DEF x
  <2>3. s[i] \in Int /\ v[i] = x + s[i]
    BY <2>1, <2>2
  <2> QED BY <2>3 DEF x
<1>5. s \in [1 .. n -> Int] /\ s \in Seq(Int) /\ Len(s) = n
  <2>1. s \in [1 .. n -> Int]
    BY <1>2, <1>4
  <2> QED BY <1>1, <2>1
<1>6. ASSUME NEW m \in 1 .. n PROVE Sum(SubSeq(s, 1, m)) = v[m]
  <2> DEFINE t == SubSeq(s, 1, m)
  <2>1. t \in Seq(Int) /\ Len(t) = m /\ m \in Nat /\ \A i \in 1 .. m : t[i] = s[i]
    BY <1>1, <1>5
  <2> HIDE DEF t
  <2>2. PICK q : PartialSums(q, t) /\ Sum(t) = q[Len(t)]
    BY <2>1, SumPrefixes
  <2>3. q[0] = 0 /\ \A i \in 1 .. m : q[i] = q[i - 1] + t[i]
    BY <2>1, <2>2 DEF PartialSums
  <2> DEFINE S == {i \in Nat : i <= m => q[i] = IF i = 0 THEN 0 ELSE v[i]}
  <2>4. 0 \in S
    BY <2>3
  <2>5. ASSUME NEW i \in S PROVE i + 1 \in S
    <3> SUFFICES ASSUME i + 1 <= m PROVE q[i + 1] = v[i + 1]
      OBVIOUS
    <3>1. i \in Nat /\ i + 1 \in 1 .. m /\ i + 1 \in 1 .. n /\ (i + 1) - 1 = i
      BY <1>1
    <3>2. q[i] = IF i + 1 = 1 THEN 0 ELSE v[(i + 1) - 1]
      <4>1. q[i] = IF i = 0 THEN 0 ELSE v[i]
        BY <3>1
      <4>2. i + 1 = 1 <=> i = 0
        BY <3>1
      <4> QED BY <3>1, <4>1, <4>2
    <3>3. q[i + 1] = q[i] + s[i + 1]
      BY <2>1, <2>3, <3>1
    <3>4. v[i + 1] = (IF i + 1 = 1 THEN 0 ELSE v[(i + 1) - 1]) + s[i + 1]
      BY <1>4, <3>1
    <3> HIDE DEF S
    <3> QED BY <3>2, <3>3, <3>4
  <2>6. S = Nat
    <3> HIDE DEF S
    <3>1. S \in SUBSET Nat
      BY DEF S
    <3> QED BY <2>4, <2>5, <3>1, SetInduction
  <2>7. q[m] = v[m]
    <3>1. m \in S /\ m # 0
      BY <2>1, <2>6
    <3> QED BY <2>1, <3>1
  <2> QED BY <2>1, <2>2, <2>7 DEF t
<1>7. Sums(s) = v
  <2>1. Sums(s) = [m \in 1 .. n |-> Sum(SubSeq(s, 1, m))]
    <3>1. DOMAIN s = 1 .. n
      BY <1>5
    <3> QED BY <3>1, Zenon DEF Sums, Sum
  <2>2. v = [m \in 1 .. n |-> v[m]]
    BY <1>3
  <2> QED BY <1>6, <2>1, <2>2, Zenon
<1> QED BY <1>5, <1>7 DEF n, s

\* The words of the percentiles.
LEMMA RecvWords ==
  ASSUME NEW f \in EncodedFrame, f.recv_us_len # 0
  PROVE  \E b, ws :
           /\ ScalarWords(b, ws, [i \in 1 .. NumRecv |-> "Integer"], Steps(f.recv_us), NumRecv)
           /\ b[0] = WriteArrayLen(NumRecv)
           /\ b[NumRecv] = RecvPart(f)
<1> DEFINE n == NumRecv
           s == Steps(f.recv_us)
           ws == [i \in 1 .. n |-> WriteInt(s[i])]
           a == WriteArrayLen(n)
           ty == [i \in 1 .. n |-> "Integer"]
<1>1. n \in Nat /\ s \in [1 .. n -> Int]
  BY NumRecvAssumption, FrameType, SumsOfSteps
<1> HIDE DEF n, s
<1>2. a \in Seq(Atom)
  <2>1. Marker("Array", n) \in Atom
    <3>1. n \in Texts \cup Int /\ "Array" \in Names
      <4>1. n \in Int
        BY <1>1
      <4> QED BY <4>1, Zenon DEF Names
    <3> DEFINE V == Texts \cup Int
    <3> HIDE DEF V
    <3> QED BY <3>1 DEF Marker, Atom, V
  <2> QED BY <2>1 DEF WriteArrayLen
<1>3. ASSUME NEW i \in 1 .. n PROVE ws[i] \in Seq(Atom) /\ Scalar(ws[i], "Integer", s[i])
  <2>1. s[i] \in Int
    BY <1>1
  <2>2. WriteInt(s[i]) \in Seq(Atom) /\ Scalar(WriteInt(s[i]), "Integer", s[i])
    BY <2>1, WritersScalar
  <2> QED BY <2>2
<1>4. ws \in [1 .. n -> Seq(Atom)]
  BY <1>3
<1>5. DOMAIN s = 1 .. n
  BY <1>1
<1>6. RecvPart(f) = a \o Concat(ws)
  BY <1>5, Zenon DEF RecvPart, n, s
<1>7. ws = [i \in 1 .. n |-> ws[i]]
  OBVIOUS
<1> HIDE DEF ws, a
<1>8. PICK b : WordsFrom(Atom, a, b, ws, n)
  BY <1>1, <1>2, <1>4, WordsExist
<1>9. Words(Atom, b, ws, n) /\ b[0] = a /\ n \in 0 .. n
  BY <1>1, <1>8 DEF WordsFrom
<1>10. Joined(Atom, b[0], Concat(Firsts(ws, n)), b[n])
  BY <1>1, <1>9, ConcatBehind
<1>11. b[n] = RecvPart(f)
  <2>1. Firsts(ws, n) = ws
    BY <1>7, Zenon DEF Firsts
  <2> QED BY <1>6, <1>9, <1>10, <2>1, Zenon DEF Joined
<1>12. \A i \in 1 .. n : ty[i] = "Integer"
  OBVIOUS
<1>13. ScalarWords(b, ws, ty, s, n)
  <2> HIDE DEF ty
  <2> QED BY <1>3, <1>9, <1>12 DEF ScalarWords
<1> HIDE DEF ty
<1> QED BY <1>9, <1>11, <1>13, Zenon DEF n, s, ty, a

LEMMA RecvReads ==
  ASSUME NEW file \in Seq(Atom), NEW p \in Nat \ {0}, NEW f \in EncodedFrame
  PROVE  LET r == Percentiles(file, p, f.recv_us_len) IN
         /\ RecvPart(f) \in Seq(Atom)
         /\ Holds(file, p, RecvPart(f)) =>
              r.ok /\ r.v = f.recv_us /\ r.pos = p + Len(RecvPart(f))
         /\ CutIn(file, p, RecvPart(f)) => ~r.ok /\ r.err \in {"eof", "value"}
<1> DEFINE r == Percentiles(file, p, f.recv_us_len)
           w == RecvPart(f)
<1>0. Len(file) \in Nat
  OBVIOUS
<1>1. CASE f.recv_us_len = 0
  <2>1. w = <<>> /\ Len(w) = 0
    BY <1>1 DEF RecvPart
  <2>2. r.ok /\ r.v = [i \in 1 .. NumRecv |-> -1] /\ r.pos = p
    BY <1>1 DEF Percentiles
  <2>3. f.recv_us = [i \in 1 .. NumRecv |-> -1]
    BY <1>1, FrameType
  <2>4. ~CutIn(file, p, w)
    BY <1>0, <2>1 DEF CutIn
  <2>5. p = p + Len(w) /\ w \in Seq(Atom)
    BY <2>1
  <2> HIDE DEF r, w
  <2>6. r.ok /\ r.v = f.recv_us /\ r.pos = p + Len(w)
    BY <2>2, <2>3, <2>5
  <2> QED BY <2>4, <2>5, <2>6 DEF r, w
<1>2. CASE f.recv_us_len # 0
  <2> DEFINE n == NumRecv
             s == Steps(f.recv_us)
             ty == [i \in 1 .. n |-> "Integer"]
  <2>1. PICK b, ws : ScalarWords(b, ws, ty, s, n) /\ b[0] = WriteArrayLen(n) /\ b[n] = w
    BY <1>2, RecvWords
  <2>2. n \in Nat /\ s \in [1 .. n -> Int] /\ Sums(s) = f.recv_us
    BY NumRecvAssumption, FrameType, SumsOfSteps
  <2> HIDE DEF w, r
  <2>3. Words(Atom, b, ws, n) /\ b[0] \in Seq(Atom) /\ w \in Seq(Atom)
    <3>1. 0 \in 0 .. n /\ n \in 0 .. n
      BY <2>2
    <3>2. Words(Atom, b, ws, n)
      BY <2>1 DEF ScalarWords
    <3>3. \A k \in 0 .. n : b[k] \in Seq(Atom)
      BY <3>2 DEF Words
    <3> QED BY <2>1, <3>1, <3>2, <3>3, Zenon
  <2> HIDE DEF n, s, ty
  <2>4. Len(b[0]) = 1 /\ b[0][1].m = "Array" /\ b[0][1].v = n
    BY <2>1 DEF WriteArrayLen, Marker
  <2>5. PICK inner, deeper :
          /\ Reads(inner, file, deeper)
          /\ \A q \in 1 .. Len(file) : Read(file, q) = ReadFromMarker(file, q, inner)
          /\ Read(file, Len(file) + 1) = Failed("eof")
    BY <1>0, ReadIs
  <2> DEFINE Row == ReadRow(p + 1, n, inner)
             x == Read(file, p)
  <2>6. r = Then(x, LAMBDA q : IF q.type # "Array" THEN Failed("recv_var slice") ELSE [q EXCEPT !.v = Sums(q.v)])
    BY <1>2, Zenon DEF Percentiles, r
  <2>7. ASSUME Holds(file, p, b[0])
        PROVE  x = IF Row.ok THEN Got("Array", [i \in DOMAIN Row.items |-> Row.items[i].v], Row.pos) ELSE Row
    <3>1. p \in 1 .. Len(file) /\ file[p] = b[0][1]
      <4>1. 1 \in 1 .. Len(b[0]) /\ p + 1 - 1 = p
        BY <2>4
      <4> QED BY <1>0, <2>4, <2>7, <4>1 DEF Holds
    <3>2. file[p].m = "Array" /\ file[p].v = n
      BY <2>4, <3>1
    <3>3. x = ReadArray(file, p, inner)
      <4>1. ReadFromMarker(file, p, inner) = ReadArray(file, p, inner)
        BY <3>2, FromMarkerIs DEF ReadFromMarker
      <4> QED BY <2>5, <3>1, <4>1
    <3> QED BY <3>2, <3>3, Zenon DEF ReadArray, Then
  <2>8. ASSUME Holds(file, p, b[0])
        PROVE  /\ Holds(file, p, w) =>
                    Row = [ok |-> TRUE, items |-> Items(p, b, ty, s, n), pos |-> p + Len(w)]
               /\ CutIn(file, p, w) => Row \in {Failed("eof"), Failed("value")}
    <3>1. p + Len(b[0]) = p + 1
      BY <2>4
    <3>2. /\ Holds(file, p, b[n]) =>
               ReadRow(p + Len(b[0]), n, inner)
                 = [ok |-> TRUE, items |-> Items(p, b, ty, s, n), pos |-> p + Len(b[n])]
          /\ CutIn(file, p, b[n]) =>
               ReadRow(p + Len(b[0]), n, inner) \in {Failed("eof"), Failed("value")}
      BY <2>1, <2>2, <2>5, <2>8, ReadRowIs
    <3> QED BY <2>1, <3>1, <3>2
  <2> HIDE DEF Row, x
  <2>9. ASSUME Holds(file, p, w) PROVE r.ok /\ r.v = f.recv_us /\ r.pos = p + Len(w)
    <3>1. Holds(file, p, b[0])
      <4>1. Holds(file, p, b[n])
        BY <2>1, <2>9
      <4>2. \A k \in 0 .. n : Holds(file, p, b[k])
        BY <2>2, <2>3, <4>1, WordsHeld
      <4>3. 0 \in 0 .. n
        BY <2>2
      <4> QED BY <4>2, <4>3
    <3>2. Row.ok /\ Row.items = Items(p, b, ty, s, n) /\ Row.pos = p + Len(w)
      BY <2>8, <2>9, <3>1
    <3>3. [i \in DOMAIN Row.items |-> Row.items[i].v] = s
      <4>1. DOMAIN Row.items = 1 .. n /\ \A i \in 1 .. n : Row.items[i].v = s[i]
        BY <3>2 DEF Items, Got
      <4> QED BY <2>2, <4>1
    <3>4. x = Got("Array", s, p + Len(w))
      BY <2>7, <3>1, <3>2, <3>3
    <3>5. x.ok /\ x.type = "Array" /\ x = [ok |-> TRUE, type |-> "Array", v |-> s, pos |-> p + Len(w)]
      BY <3>4 DEF Got
    <3>6. r = [x EXCEPT !.v = Sums(x.v)]
      BY <2>6, <3>5, Zenon DEF Then
    <3>7. x.v = s
      BY <3>5
    <3>8. r.ok /\ r.v = Sums(s) /\ r.pos = p + Len(w)
      BY <3>5, <3>6, <3>7
    <3> QED BY <2>2, <3>8
  <2>10. ASSUME CutIn(file, p, w) PROVE ~r.ok /\ r.err \in {"eof", "value"}
    <3>1. x \in {Failed("eof"), Failed("value")}
      <4>1. CASE p = Len(file) + 1
        BY <2>5, <4>1 DEF x
      <4>2. CASE p # Len(file) + 1
        <5>1. Begins(b[0], w)
          <6> DEFINE z == 0
          <6>1. z \in 0 .. n /\ n \in z .. n
            BY <2>2
          <6> HIDE DEF z
          <6>2. Begins(b[z], b[n])
            BY <2>2, <2>3, <6>1, WordsGrow
          <6> QED BY <2>1, <6>2 DEF z
        <5>2. w[1] = b[0][1] /\ 1 <= Len(w) /\ Len(w) \in Nat
          <6>1. 1 \in 1 .. Len(b[0])
            BY <2>4
          <6> QED BY <2>3, <2>4, <5>1, <6>1 DEF Begins
        <5>3. p <= Len(file)
          BY <1>0, <2>10, <4>2 DEF CutIn
        <5>4. file[p] = w[1]
          <6>1. 1 \in 1 .. Len(w) /\ p + 1 - 1 = p
            BY <5>2
          <6> QED BY <2>10, <5>3, <6>1 DEF CutIn
        <5>5. \A i \in 1 .. Len(b[0]) : file[p + i - 1] = b[0][i]
          <6>1. \A i \in 1 .. 1 : i = 1 /\ p + i - 1 = p
            OBVIOUS
          <6> QED BY <2>4, <5>2, <5>4, <6>1
        <5>6. Holds(file, p, b[0])
          BY <1>0, <2>4, <5>3, <5>5 DEF Holds
        <5>7. Row \in {Failed("eof"), Failed("value")}
          BY <2>8, <2>10, <5>6
        <5>8. ~Row.ok
          BY <5>7 DEF Failed
        <5> QED BY <2>7, <5>6, <5>7, <5>8
      <4> QED BY <4>1, <4>2
    <3>2. ~x.ok /\ x.err \in {"eof", "value"}
      BY <3>1 DEF Failed
    <3> QED BY <2>6, <3>2, Zenon DEF Then
  <2> QED BY <2>3, <2>9, <2>10 DEF r, w
<1> HIDE DEF r, w
<1> QED BY <1>1, <1>2 DEF r, w

-----------------------------------------------------------------------------
(* A frame.                                                                *)

LEMMA FrameParts ==
  ASSUME NEW f
  PROVE  TryToRmp(f) = (((TimePart(f) \o WriteUint(f.subsec_ms)) \o MissingPart(f))
                          \o WriteUint(f.recv_us_len)) \o RecvPart(f)
BY Zenon DEF TryToRmp, TimePart, MissingPart, RecvPart

LEMMA AsHeldIs ==
  ASSUME NEW f \in EncodedFrame
  PROVE  AsHeld(f) = [timestamp |-> f.timestamp, subsec_ms |-> f.subsec_ms,
                      inflight |-> 2 * Rounded(f.inflight),
                      lost_packets |-> 2 * Rounded(f.lost_packets),
                      recv_us_len |-> f.recv_us_len, recv_us |-> f.recv_us]
<1> DEFINE i == 2 * Rounded(f.inflight)
           l == 2 * Rounded(f.lost_packets)
<1>1. f \in [timestamp : Nat \cup {NoTime}, subsec_ms : Nat, inflight : Nat,
             lost_packets : Nat, recv_us_len : Nat, recv_us : [1 .. NumRecv -> Int]]
  BY DEF EncodedFrame
<1>2. AsHeld(f) = [f EXCEPT !.inflight = i, !.lost_packets = l]
  BY <1>1 DEF AsHeld
<1> HIDE DEF i, l
<1> DEFINE x == [f EXCEPT !.inflight = i, !.lost_packets = l]
           y == [timestamp |-> f.timestamp, subsec_ms |-> f.subsec_ms, inflight |-> i,
                 lost_packets |-> l, recv_us_len |-> f.recv_us_len, recv_us |-> f.recv_us]
           Fields == {"timestamp", "subsec_ms", "inflight", "lost_packets", "recv_us_len", "recv_us"}
<1>4. x = [k \in DOMAIN x |-> x[k]] /\ DOMAIN x = Fields
  BY <1>1
<1>5. y = [k \in DOMAIN y |-> y[k]] /\ DOMAIN y = Fields
  OBVIOUS
<1>6. \A k \in Fields : x[k] = y[k]
  <2>1. x["timestamp"] = y["timestamp"] /\ x["subsec_ms"] = y["subsec_ms"]
    BY <1>1
  <2>2. x["inflight"] = y["inflight"]
    BY <1>1
  <2>3. x["lost_packets"] = y["lost_packets"]
    BY <1>1
  <2>4. x["recv_us_len"] = y["recv_us_len"] /\ x["recv_us"] = y["recv_us"]
    BY <1>1
  <2> HIDE DEF x, y
  <2> QED BY <2>1, <2>2, <2>3, <2>4 DEF Fields
<1> HIDE DEF Fields
<1>3. x = y
  <2> HIDE DEF x, y
  <2> QED BY <1>4, <1>5, <1>6
<1> QED BY <1>2, <1>3 DEF i, l

\* try_from_rmp undoes try_to_rmp; where the file ends inside of a frame it is
\* an error, and another one than where it ends before it.
LEMMA FrameReads ==
  ASSUME NEW file \in Seq(Atom), NEW p \in Nat \ {0}, NEW f \in EncodedFrame
  PROVE  /\ TryToRmp(f) \in Seq(Atom) /\ Len(TryToRmp(f)) \in Nat \ {0}
         /\ Holds(file, p, TryToRmp(f)) =>
              TryFromRmp(file, p) = [ok |-> TRUE, pos |-> p + Len(TryToRmp(f)), v |-> AsHeld(f)]
         /\ CutIn(file, p, TryToRmp(f)) /\ p <= Len(file) =>
              ~TryFromRmp(file, p).ok /\ TryFromRmp(file, p).err # "EOF"
         /\ p = Len(file) + 1 => TryFromRmp(file, p) = Failed("EOF")
<1> DEFINE t == TimePart(f)
           u == WriteUint(f.subsec_ms)
           m == MissingPart(f)
           l == WriteUint(f.recv_us_len)
           v == RecvPart(f)
           w == TryToRmp(f)
           front1 == t \o u
           front2 == front1 \o m
           front3 == front2 \o l
<1>0. Len(file) \in Nat /\ f.subsec_ms \in Int /\ f.recv_us_len \in Int
  BY FrameType
<1>1. /\ t \in Seq(Atom) /\ u \in Seq(Atom) /\ m \in Seq(Atom) /\ l \in Seq(Atom) /\ v \in Seq(Atom)
      /\ Scalar(u, "Integer", f.subsec_ms) /\ Scalar(l, "Integer", f.recv_us_len)
      /\ Len(t) # 0
  BY <1>0, TimeReads, MissingReads, RecvReads, WritersScalar
<1>2. w = front3 \o v
  BY FrameParts, Zenon
<1> HIDE DEF t, u, m, l, v, w
<1>3. /\ front1 \in Seq(Atom) /\ Len(front1) = Len(t) + Len(u)
      /\ front2 \in Seq(Atom) /\ Len(front2) = Len(front1) + Len(m)
      /\ front3 \in Seq(Atom) /\ Len(front3) = Len(front2) + Len(l)
      /\ w \in Seq(Atom) /\ Len(w) = Len(front3) + Len(v)
      /\ Len(t) \in Nat \ {0} /\ Len(u) \in Nat /\ Len(m) \in Nat /\ Len(l) \in Nat /\ Len(v) \in Nat
  <2>1. front1 = t \o u /\ front2 = front1 \o m /\ front3 = front2 \o l /\ w = front3 \o v
    BY <1>2
  <2> HIDE DEF front1, front2, front3
  <2>2. /\ front1 \in Seq(Atom) /\ Len(front1) = Len(t) + Len(u)
        /\ front2 \in Seq(Atom) /\ Len(front2) = Len(front1) + Len(m)
        /\ front3 \in Seq(Atom) /\ Len(front3) = Len(front2) + Len(l)
        /\ w \in Seq(Atom) /\ Len(w) = Len(front3) + Len(v)
    <3>1. t \in Seq(Atom) /\ u \in Seq(Atom) /\ m \in Seq(Atom) /\ l \in Seq(Atom) /\ v \in Seq(Atom)
      BY <1>1
    <3> QED BY <2>1, <3>1, FiveLengths
  <2>5. Len(t) \in Nat \ {0} /\ Len(u) \in Nat /\ Len(m) \in Nat /\ Len(l) \in Nat /\ Len(v) \in Nat
    BY <1>1
  <2> QED BY <2>2, <2>5
<1> DEFINE p1 == p + Len(t)
           p2 == p + Len(front1)
           p3 == p + Len(front2)
           p4 == p + Len(front3)
<1>4. /\ p1 \in Nat \ {0} /\ p2 \in Nat \ {0} /\ p3 \in Nat \ {0} /\ p4 \in Nat \ {0}
      /\ p2 = p1 + Len(u) /\ p3 = p2 + Len(m) /\ p4 = p3 + Len(l) /\ p + Len(w) = p4 + Len(v)
      /\ Len(w) \in Nat \ {0}
  <2> HIDE DEF front1, front2, front3
  <2> QED BY <1>3
<1>5. Holds(file, p, w) =>
        /\ Holds(file, p, t) /\ Holds(file, p1, u) /\ Holds(file, p2, m)
        /\ Holds(file, p3, l) /\ Holds(file, p4, v)
  <2>1. Holds(file, p, w) => Holds(file, p, front3) /\ Holds(file, p4, v)
    <3> HIDE DEF front3
    <3> QED BY <1>1, <1>2, <1>3, HoldsConcat
  <2>2. Holds(file, p, front3) => Holds(file, p, front2) /\ Holds(file, p3, l)
    <3> HIDE DEF front2
    <3> QED BY <1>1, <1>3, HoldsConcat
  <2>3. Holds(file, p, front2) => Holds(file, p, front1) /\ Holds(file, p2, m)
    <3> HIDE DEF front1
    <3> QED BY <1>1, <1>3, HoldsConcat
  <2>4. Holds(file, p, front1) => Holds(file, p, t) /\ Holds(file, p1, u)
    BY <1>1, HoldsConcat
  <2> HIDE DEF front1, front2, front3, p1, p2, p3, p4
  <2> QED BY <2>1, <2>2, <2>3, <2>4
<1>6. CutIn(file, p, w) =>
        \/ CutIn(file, p, t)
        \/ Holds(file, p, t) /\ CutIn(file, p1, u)
        \/ Holds(file, p, t) /\ Holds(file, p1, u) /\ CutIn(file, p2, m)
        \/ Holds(file, p, t) /\ Holds(file, p1, u) /\ Holds(file, p2, m) /\ CutIn(file, p3, l)
        \/ /\ Holds(file, p, t) /\ Holds(file, p1, u) /\ Holds(file, p2, m) /\ Holds(file, p3, l)
           /\ CutIn(file, p4, v)
  <2>1. CutIn(file, p, w) => CutIn(file, p, front3) \/ (Holds(file, p, front3) /\ CutIn(file, p4, v))
    <3> HIDE DEF front3
    <3> QED BY <1>1, <1>2, <1>3, CutConcat
  <2>2. /\ CutIn(file, p, front3) => CutIn(file, p, front2) \/ (Holds(file, p, front2) /\ CutIn(file, p3, l))
        /\ Holds(file, p, front3) => Holds(file, p, front2) /\ Holds(file, p3, l)
    <3> HIDE DEF front2
    <3> QED BY <1>1, <1>3, HoldsConcat, CutConcat
  <2>3. /\ CutIn(file, p, front2) => CutIn(file, p, front1) \/ (Holds(file, p, front1) /\ CutIn(file, p2, m))
        /\ Holds(file, p, front2) => Holds(file, p, front1) /\ Holds(file, p2, m)
    <3> HIDE DEF front1
    <3> QED BY <1>1, <1>3, HoldsConcat, CutConcat
  <2>4. /\ CutIn(file, p, front1) => CutIn(file, p, t) \/ (Holds(file, p, t) /\ CutIn(file, p1, u))
        /\ Holds(file, p, front1) => Holds(file, p, t) /\ Holds(file, p1, u)
    BY <1>1, HoldsConcat, CutConcat
  <2> HIDE DEF front1, front2, front3, p1, p2, p3, p4
  <2> QED BY <2>1, <2>2, <2>3, <2>4
<1> HIDE DEF front1, front2, front3, p1, p2, p3, p4
<1> DEFINE T == Timestamp(file, p)
           S == ReadRmpInt(file, T.pos)
           M == Missing(file, S.pos)
           L == ReadRmpInt(file, M.pos)
           R == Percentiles(file, L.pos, L.v)
           F == [ok |-> TRUE, pos |-> R.pos,
                 v |-> [timestamp |-> IF T.type = "Null" THEN NoTime ELSE T.v,
                        subsec_ms |-> S.v,
                        inflight |-> M.inflight, lost_packets |-> M.lost_packets,
                        recv_us_len |-> L.v, recv_us |-> R.v]]
           r == TryFromRmp(file, p)
<1>7. r = IF T.ok THEN IF S.ok THEN IF M.ok THEN IF L.ok THEN IF R.ok THEN F ELSE R
          ELSE L ELSE M ELSE S ELSE T
  BY Zenon DEF TryFromRmp, Then
<1> HIDE DEF r, F
<1>8. /\ Holds(file, p, t) =>
           /\ T.ok /\ T.pos = p1
           /\ (IF T.type = "Null" THEN NoTime ELSE T.v) = f.timestamp
      /\ CutIn(file, p, t) /\ p <= Len(file) => T = Failed("value")
      /\ p = Len(file) + 1 => T = Failed("EOF")
  BY TimeReads, Zenon DEF t, p1
<1>9. /\ Holds(file, p1, u) => ReadRmpInt(file, p1) = Got("Integer", f.subsec_ms, p2)
      /\ CutIn(file, p1, u) => ReadRmpInt(file, p1) = Failed("value")
  BY <1>1, <1>4, RmpIntReads
<1>10. /\ Holds(file, p2, m) =>
            Missing(file, p2) = [ok |-> TRUE, inflight |-> 2 * Rounded(f.inflight),
                                 lost_packets |-> 2 * Rounded(f.lost_packets), pos |-> p3]
       /\ CutIn(file, p2, m) => Missing(file, p2) = Failed("value")
  BY <1>4, MissingReads DEF m
<1>11. /\ Holds(file, p3, l) => ReadRmpInt(file, p3) = Got("Integer", f.recv_us_len, p4)
       /\ CutIn(file, p3, l) => ReadRmpInt(file, p3) = Failed("value")
  BY <1>1, <1>4, RmpIntReads
<1> DEFINE q == Percentiles(file, p4, f.recv_us_len)
<1>12. /\ Holds(file, p4, v) => q.ok /\ q.v = f.recv_us /\ q.pos = p4 + Len(v)
       /\ CutIn(file, p4, v) => ~q.ok /\ q.err \in {"eof", "value"}
  BY <1>4, RecvReads DEF v
<1> HIDE DEF q
<1>13. Holds(file, p, t) /\ Holds(file, p1, u) =>
         S.ok /\ S.pos = p2 /\ S.v = f.subsec_ms
  BY <1>8, <1>9 DEF Got
<1>14. Holds(file, p, t) /\ Holds(file, p1, u) /\ Holds(file, p2, m) =>
         /\ M.ok /\ M.pos = p3 /\ M.inflight = 2 * Rounded(f.inflight)
         /\ M.lost_packets = 2 * Rounded(f.lost_packets)
  <2> HIDE DEF S
  <2> QED BY <1>10, <1>13
<1>15. Holds(file, p, t) /\ Holds(file, p1, u) /\ Holds(file, p2, m) /\ Holds(file, p3, l) =>
         L.ok /\ L.pos = p4 /\ L.v = f.recv_us_len /\ R = q
  <2> HIDE DEF M
  <2> QED BY <1>11, <1>14 DEF Got, q
<1>16. ASSUME Holds(file, p, w) PROVE r = [ok |-> TRUE, pos |-> p + Len(w), v |-> AsHeld(f)]
  <2>1. /\ T.ok /\ S.ok /\ M.ok /\ L.ok /\ R.ok
        /\ R.pos = p + Len(w) /\ R.v = f.recv_us
        /\ S.v = f.subsec_ms /\ L.v = f.recv_us_len
        /\ M.inflight = 2 * Rounded(f.inflight) /\ M.lost_packets = 2 * Rounded(f.lost_packets)
        /\ (IF T.type = "Null" THEN NoTime ELSE T.v) = f.timestamp
    <3>1. Holds(file, p, t) /\ Holds(file, p1, u) /\ Holds(file, p2, m) /\ Holds(file, p3, l) /\ Holds(file, p4, v)
      BY <1>5, <1>16
    <3>2. R = q
      BY <1>15, <3>1
    <3>3. q.pos = p + Len(w)
      BY <1>4, <1>12, <3>1
    <3> HIDE DEF T, S, M, L, R
    <3> QED BY <1>8, <1>12, <1>13, <1>14, <1>15, <3>1, <3>2, <3>3
  <2> HIDE DEF T, S, M, L, R
  <2>2. r = F
    BY <1>7, <2>1
  <2> DEFINE g == [timestamp |-> f.timestamp, subsec_ms |-> f.subsec_ms,
                   inflight |-> 2 * Rounded(f.inflight), lost_packets |-> 2 * Rounded(f.lost_packets),
                   recv_us_len |-> f.recv_us_len, recv_us |-> f.recv_us]
  <2>3. F = [ok |-> TRUE, pos |-> p + Len(w), v |-> g]
    BY <2>1, Zenon DEF F
  <2>5. g = AsHeld(f)
    BY AsHeldIs, Zenon
  <2> HIDE DEF g
  <2> QED BY <2>2, <2>3, <2>5
<1>17. ASSUME CutIn(file, p, w), p <= Len(file) PROVE ~r.ok /\ r.err # "EOF"
  <2> DEFINE Bad(y) == ~y.ok /\ y.err \in {"eof", "value"}
  <2>0. Bad(Failed("value"))
    BY DEF Failed
  <2> HIDE DEF Bad, T, S, M, L, R
  <2>1. CASE CutIn(file, p, t)
    <3>1. T = Failed("value")
      BY <1>8, <1>17, <2>1
    <3>2. r = T
      BY <1>7, <2>0, <3>1 DEF Bad
    <3> QED BY <2>0, <3>1, <3>2 DEF Bad
  <2>2. CASE Holds(file, p, t) /\ CutIn(file, p1, u)
    <3>1. T.ok /\ S = Failed("value")
      BY <1>8, <1>9, <2>2 DEF S
    <3>2. r = S
      BY <1>7, <2>0, <3>1 DEF Bad
    <3> QED BY <2>0, <3>1, <3>2 DEF Bad
  <2>3. CASE Holds(file, p, t) /\ Holds(file, p1, u) /\ CutIn(file, p2, m)
    <3>1. T.ok /\ S.ok /\ M = Failed("value")
      BY <1>8, <1>10, <1>13, <2>3 DEF M
    <3>2. r = M
      BY <1>7, <2>0, <3>1 DEF Bad
    <3> QED BY <2>0, <3>1, <3>2 DEF Bad
  <2>4. CASE Holds(file, p, t) /\ Holds(file, p1, u) /\ Holds(file, p2, m) /\ CutIn(file, p3, l)
    <3>1. T.ok /\ S.ok /\ M.ok /\ L = Failed("value")
      BY <1>8, <1>11, <1>13, <1>14, <2>4 DEF L
    <3>2. r = L
      BY <1>7, <2>0, <3>1 DEF Bad
    <3> QED BY <2>0, <3>1, <3>2 DEF Bad
  <2>5. CASE /\ Holds(file, p, t) /\ Holds(file, p1, u) /\ Holds(file, p2, m) /\ Holds(file, p3, l)
             /\ CutIn(file, p4, v)
    <3>1. T.ok /\ S.ok /\ M.ok /\ L.ok /\ R = q /\ Bad(q)
      BY <1>8, <1>12, <1>13, <1>14, <1>15, <2>5 DEF Bad
    <3>2. r = R
      BY <1>7, <3>1 DEF Bad
    <3> QED BY <3>1, <3>2 DEF Bad
  <2> QED BY <1>6, <1>17, <2>1, <2>2, <2>3, <2>4, <2>5
<1>18. ASSUME p = Len(file) + 1 PROVE r = Failed("EOF")
  <2> HIDE DEF S, M, L, R
  <2>1. T = Failed("EOF")
    BY <1>8, <1>18
  <2> HIDE DEF T
  <2>2. ~T.ok
    BY <2>1 DEF Failed
  <2> QED BY <1>7, <2>1, <2>2
<1> QED BY <1>3, <1>4, <1>16, <1>17, <1>18 DEF r, w

\* Where the file has ended there is no frame.
LEMMA EndOfFrames ==
  ASSUME NEW file \in Seq(Atom), NEW p \in Nat \ {0}, p = Len(file) + 1
  PROVE  TryFromRmp(file, p) = Failed("EOF")
<1> DEFINE f == [timestamp |-> 0, subsec_ms |-> 0, inflight |-> 0, lost_packets |-> 0,
                 recv_us_len |-> 0, recv_us |-> [i \in 1 .. NumRecv |-> -1]]
<1>1. f \in EncodedFrame
  <2> DEFINE v == [i \in 1 .. NumRecv |-> -1]
  <2>1. v \in [1 .. NumRecv -> Int]
    OBVIOUS
  <2>2. f.recv_us = v /\ f.recv_us = [i \in 1 .. NumRecv |-> -1]
    OBVIOUS
  <2>3. f \in [timestamp : Nat \cup {NoTime}, subsec_ms : Nat, inflight : Nat, lost_packets : Nat,
               recv_us_len : Nat, recv_us : [1 .. NumRecv -> Int]]
    <3> HIDE DEF v
    <3>1. 0 \in Nat \cup {NoTime} /\ 0 \in Nat
      OBVIOUS
    <3>2. f = [timestamp |-> 0, subsec_ms |-> 0, inflight |-> 0, lost_packets |-> 0,
               recv_us_len |-> 0, recv_us |-> v]
      BY DEF v
    <3> HIDE DEF f
    <3> QED BY <2>1, <3>1, <3>2
  <2> HIDE DEF f
  <2> QED BY <2>2, <2>3 DEF EncodedFrame
<1> HIDE DEF f
<1> QED BY <1>1, FrameReads

-----------------------------------------------------------------------------
(* The output.                                                             *)

\* What is fixed before the threads start.
InputsOk == cfg \in Cfgs /\ log \in [Inputs -> Logs] /\ missing \subseteq Inputs

\* The output with the first n inputs, and with the first k frames of them.
OutputOf(n) == Header \o Concat([i \in 1 .. n |-> Encoded(i)])
OutputUpTo(k) == Header \o Concat([i \in 1 .. k |-> TryToRmp(AllFrames[i])])

LEMMA FrameWords ==
  ASSUME NEW fs \in Seq(EncodedFrame)
  PROVE  [k \in 1 .. Len(fs) |-> TryToRmp(fs[k])] \in [1 .. Len(fs) -> Seq(Atom)]
<1>1. \A f \in EncodedFrame : TryToRmp(f) \in Seq(Atom)
  <2> TAKE f \in EncodedFrame
  <2> DEFINE file == <<>>
             p == 1
  <2>1. file \in Seq(Atom) /\ p \in Nat \ {0}
    OBVIOUS
  <2> HIDE DEF file, p
  <2> QED BY <2>1, FrameReads
<1>2. \A k \in 1 .. Len(fs) : fs[k] \in EncodedFrame
  OBVIOUS
<1> QED BY <1>1, <1>2

\* read_inputfile returns atoms.
LEMMA EncodedType ==
  ASSUME InputsOk
  PROVE  [i \in Inputs |-> Encoded(i)] \in [Inputs -> Seq(Atom)]
<1> SUFFICES ASSUME NEW i \in Inputs PROVE Encoded(i) \in Seq(Atom)
  OBVIOUS
<1> DEFINE fs == log[i]
           n == Len(fs)
           ws == [k \in 1 .. n |-> TryToRmp(fs[k])]
<1>1. fs \in Seq(EncodedFrame) /\ n \in Nat /\ DOMAIN fs = 1 .. n
  BY InputAssumption DEF InputsOk
<1>2. ws \in [1 .. n -> Seq(Atom)]
  BY <1>1, FrameWords
<1>3. Encoded(i) = Concat(ws)
  BY <1>1, Zenon DEF Encoded
<1> HIDE DEF ws, n, fs
<1>4. PICK b : Words(Atom, b, ws, n) /\ b[0] = <<>> /\ Concat(ws) = b[n]
  BY <1>1, <1>2, ConcatValues
<1>5. b[n] \in Seq(Atom)
  BY <1>1, <1>4 DEF Words
<1> QED BY <1>3, <1>4, <1>5

LEMMA HeaderType ==
  ASSUME InputsOk
  PROVE  Header \in Seq(Atom)
<1>1. PICK c \in Cfgs : c = cfg
  BY DEF InputsOk
<1>2. PICK b : /\ ScalarWords(b, HeaderParts(c), HeaderTypes(c), HeaderValues(c), 10)
               /\ b[0] = WriteMapLen(5) /\ b[10] = GetHeader(c)
  BY HeaderWords
<1>3. Words(Atom, b, HeaderParts(c), 10)
  BY <1>2, Zenon DEF ScalarWords
<1>4. b[10] \in Seq(Atom)
  BY <1>3 DEF Words
<1> QED BY <1>1, <1>2, <1>4, Zenon DEF Header

\* The outputs are the header and the inputs as words.
Outputs(e) == WordsFrom(Atom, Header, e, [i \in Inputs |-> Encoded(i)], NumInputs)

LEMMA OutputsExist ==
  ASSUME InputsOk
  PROVE  \E e : Outputs(e)
<1> DEFINE E == [i \in Inputs |-> Encoded(i)]
           a == Header
<1>1. E \in [1 .. NumInputs -> Seq(Atom)] /\ a \in Seq(Atom) /\ NumInputs \in Nat
  BY EncodedType, HeaderType, InputAssumption DEF Inputs
<1> HIDE DEF E, a
<1>2. \E e : WordsFrom(Atom, a, e, E, NumInputs)
  BY <1>1, WordsExist
<1> QED BY <1>2 DEF E, a, Outputs

LEMMA OutputsAre ==
  ASSUME InputsOk, NEW e, Outputs(e), NEW n \in 0 .. NumInputs
  PROVE  e[n] = OutputOf(n) /\ e[n] \in Seq(Atom)
<1> DEFINE E == [i \in Inputs |-> Encoded(i)]
           F == Firsts(E, n)
<1>1. Words(Atom, e, E, NumInputs) /\ e[0] = Header
  BY DEF Outputs, WordsFrom
<1>2. F = [i \in 1 .. n |-> Encoded(i)]
  <2>1. \A i \in 1 .. n : i \in Inputs
    BY InputAssumption DEF Inputs
  <2> QED BY <2>1, Zenon DEF Firsts
<1> HIDE DEF E
<1>3. Joined(Atom, e[0], Concat(Firsts(E, n)), e[n])
  BY <1>1, ConcatBehind, InputAssumption
<1> HIDE DEF F
<1>4. e[n] = Header \o Concat(F)
  BY <1>1, <1>3 DEF Joined, F
<1>5. e[n] \in Seq(Atom)
  BY <1>1, InputAssumption DEF Words
<1> QED BY <1>2, <1>4, <1>5, Zenon DEF OutputOf

\* The next input behind.
LEMMA OutputGrows ==
  ASSUME InputsOk, NEW n \in 0 .. NumInputs - 1
  PROVE  Joined(Atom, OutputOf(n), Encoded(n + 1), OutputOf(n + 1))
<1>1. PICK e : Outputs(e)
  BY OutputsExist
<1> DEFINE E == [i \in Inputs |-> Encoded(i)]
           k == n + 1
<1>2. k \in 1 .. NumInputs /\ k - 1 = n /\ n \in 0 .. NumInputs /\ k \in 0 .. NumInputs /\ k \in Inputs
  BY InputAssumption DEF Inputs
<1>3. E[k] = Encoded(k)
  BY <1>2, Zenon
<1>4. E \in [Inputs -> Seq(Atom)]
  BY EncodedType
<1>5. Words(Atom, e, E, NumInputs)
  BY <1>1 DEF Outputs, WordsFrom
<1> HIDE DEF E, k
<1>6. e[k] = e[k - 1] \o E[k]
  BY <1>2, <1>5 DEF Words
<1>7. e[n] = OutputOf(n) /\ e[n] \in Seq(Atom) /\ e[k] = OutputOf(k)
  BY <1>1, <1>2, OutputsAre
<1>8. E[k] \in Seq(Atom)
  BY <1>2, <1>4
<1>9. Joined(Atom, e[n], E[k], e[k])
  BY <1>2, <1>6, <1>7, <1>8 DEF Joined
<1>10. Joined(Atom, OutputOf(n), Encoded(k), OutputOf(k))
  BY <1>3, <1>7, <1>9, Zenon
<1> QED BY <1>10 DEF k

LEMMA OutputOfNone ==
  ASSUME InputsOk
  PROVE  OutputOf(0) = Header
<1> DEFINE n == 0
<1>1. n \in 0 .. NumInputs
  BY InputAssumption
<1>2. PICK e : Outputs(e)
  BY OutputsExist
<1> HIDE DEF n
<1>3. e[n] = OutputOf(n)
  BY <1>1, <1>2, OutputsAre
<1>4. e[0] = Header
  BY <1>2 DEF Outputs, WordsFrom
<1> QED BY <1>3, <1>4 DEF n

-----------------------------------------------------------------------------
(* The threads and main: n inputs are written, the threads of the first s  *)
(* were started.                                                           *)

Handles(n, s) == [k \in 1 .. s - n |-> n + k]

MainWrote(n, s) ==
  /\ handles = Handles(n, s)
  /\ \A i \in Inputs : thread[i] # "none" <=> i <= s
  /\ obuffer = OutputOf(n)
  /\ \A i \in Inputs : auto[i] = IF i <= n THEN Header \o Encoded(i) ELSE <<>>
  /\ main = "done" => n = NumInputs
  /\ main = "panicked" => n + 1 \in missing

OrderInv ==
  /\ InputsOk
  /\ thread \in [Inputs -> {"none", "running", "ended", "panicked"}]
  /\ \A i \in Inputs : thread[i] = "panicked" => i \in missing
  /\ DOMAIN auto = Inputs
  /\ main \in {"running", "done", "panicked", "killed"}
  /\ \E n \in 0 .. NumInputs : \E s \in n .. NumInputs : MainWrote(n, s)
  /\ main \in {"done", "panicked"} => disk = obuffer

LEMMA StartedIs ==
  ASSUME NEW s \in 0 .. NumInputs, \A i \in Inputs : thread[i] # "none" <=> i <= s
  PROVE  Started = s
<1>1. {i \in Inputs : thread[i] # "none"} = 1 .. s
  BY InputAssumption DEF Inputs
<1> DEFINE one == 1
<1>2. one \in Int /\ s \in Int /\ (IF one > s THEN 0 ELSE s - one + 1) = s
  BY InputAssumption
<1>3. Cardinality(one .. s) = s
  <2> HIDE DEF one
  <2> QED BY <1>2, FS_Interval
<1> QED BY <1>1, <1>3 DEF Started

LEMMA HandlesAre ==
  ASSUME NEW n \in Nat, NEW s \in Nat, n <= s
  PROVE  /\ Handles(n, s) \in Seq(Nat) /\ Len(Handles(n, s)) = s - n
         /\ Handles(n, s) = <<>> <=> n = s
         /\ n < s => /\ Handles(n, s)[1] = n + 1
                     /\ RemoveAt(Handles(n, s), 1) = Handles(n + 1, s)
         /\ Append(Handles(n, s), s + 1) = Handles(n, s + 1)
<1> DEFINE h == Handles(n, s)
           d == s - n
<1>1. /\ h \in Seq(Nat) /\ Len(h) = d /\ d \in Nat /\ DOMAIN h = 1 .. d
      /\ \A k \in 1 .. d : h[k] = n + k
  BY DEF Handles
<1>2. h = <<>> <=> n = s
  <2> HIDE DEF h
  <2> QED BY <1>1
<1>3. ASSUME n < s PROVE h[1] = n + 1 /\ RemoveAt(h, 1) = Handles(n + 1, s)
  <2>1. h[1] = n + 1
    BY <1>1, <1>3
  <2> DEFINE t == SubSeq(h, 2, d)
             g == Handles(n + 1, s)
  <2>2. RemoveAt(h, 1) = SubSeq(h, 1, 0) \o t
    <3> HIDE DEF h
    <3>1. 1 - 1 = 0 /\ 1 + 1 = 2
      OBVIOUS
    <3> QED BY <1>1, <3>1 DEF RemoveAt
  <2>3. SubSeq(h, 1, 0) = <<>> /\ t \in Seq(Nat)
    <3> HIDE DEF h
    <3> QED BY <1>1
  <2>4. <<>> \o t = t
    <3> HIDE DEF t
    <3> QED BY <2>3
  <2>5. t = g
    <3>1. Len(t) = d - 1 /\ \A k \in 1 .. d - 1 : t[k] = h[k + 1]
      <4> HIDE DEF h
      <4> QED BY <1>1, <1>3
    <3>2. \A k \in 1 .. d - 1 : t[k] = n + (k + 1)
      <4> HIDE DEF t
      <4>1. \A k \in 1 .. d - 1 : k + 1 \in 1 .. d
        BY <1>1
      <4> HIDE DEF h
      <4> QED BY <1>1, <3>1, <4>1
    <3>3. g \in Seq(Nat) /\ Len(g) = d - 1 /\ \A k \in 1 .. d - 1 : g[k] = (n + 1) + k
      BY <1>3 DEF Handles
    <3> HIDE DEF t, g
    <3>4. \A k \in 1 .. Len(g) : t[k] = g[k]
      BY <1>1, <3>1, <3>2, <3>3
    <3>5. t \in Seq(Nat) /\ Len(t) = Len(g)
      BY <2>3, <3>1, <3>3
    <3> QED BY <3>3, <3>4, <3>5
  <2> HIDE DEF h, t, g
  <2>6. RemoveAt(h, 1) = g
    BY <2>2, <2>3, <2>4, <2>5
  <2> QED BY <2>1, <2>6 DEF g
<1>4. Append(h, s + 1) = Handles(n, s + 1)
  <2> DEFINE g == Handles(n, s + 1)
             a == Append(h, s + 1)
  <2>1. g \in Seq(Nat) /\ Len(g) = d + 1 /\ \A k \in 1 .. d + 1 : g[k] = n + k
    BY DEF Handles
  <2>2. a \in Seq(Nat) /\ Len(a) = d + 1 /\ a[d + 1] = s + 1 /\ \A k \in 1 .. d : a[k] = n + k
    <3> HIDE DEF h
    <3> QED BY <1>1
  <2> HIDE DEF h, g, a
  <2>3. \A k \in 1 .. d + 1 : k \in 1 .. d \/ k = d + 1
    BY <1>1
  <2>4. \A k \in 1 .. d + 1 : a[k] = g[k]
    BY <2>1, <2>2, <2>3
  <2>5. Len(a) = Len(g) /\ \A k \in 1 .. Len(g) : a[k] = g[k]
    BY <2>1, <2>2, <2>4
  <2>6. a = g
    BY <2>1, <2>2, <2>5
  <2> QED BY <2>6 DEF a, g
<1> HIDE DEF h
<1> QED BY <1>1, <1>2, <1>3, <1>4 DEF h

LEMMA SameInputs ==
  ASSUME UNCHANGED inputs
  PROVE  /\ InputsOk' = InputsOk /\ Header' = Header /\ AllFrames' = AllFrames
         /\ \A i : Encoded(i)' = Encoded(i)
         /\ \A n : OutputOf(n)' = OutputOf(n)
         /\ \A n : OutputUpTo(n)' = OutputUpTo(n)
BY DEF inputs, InputsOk, Header, AllFrames, Encoded, OutputOf, OutputUpTo

LEMMA OrderInitially ==
  ASSUME Init
  PROVE  OrderInv
<1>1. InputsOk
  BY DEF Init, InputsOk
<1>2. OutputOf(0) = Header
  BY <1>1, OutputOfNone
<1>3. MainWrote(0, 0)
  <2>1. Handles(0, 0) = <<>>
    <3> DEFINE n == 0
    <3>1. n \in Nat /\ n <= n
      OBVIOUS
    <3> HIDE DEF n
    <3>2. Handles(n, n) = <<>>
      BY <3>1, HandlesAre
    <3> QED BY <3>2 DEF n
  <2>2. \A i \in Inputs : ~(i <= 0) /\ thread[i] = "none" /\ auto[i] = <<>>
    BY InputAssumption DEF Init, Inputs
  <2>3. handles = <<>> /\ obuffer = Header /\ main = "running"
    BY DEF Init
  <2> QED BY <1>2, <2>1, <2>2, <2>3 DEF MainWrote
<1>4. 0 \in 0 .. NumInputs /\ 0 \in 0 .. NumInputs
  BY InputAssumption
<1>5. \E n \in 0 .. NumInputs : \E s \in n .. NumInputs : MainWrote(n, s)
  BY <1>3, <1>4
<1> QED BY <1>1, <1>5 DEF OrderInv, Init

LEMMA OrderStep ==
  ASSUME OrderInv, [Next]_vars
  PROVE  OrderInv'
<1>1. PICK n \in 0 .. NumInputs : \E s \in n .. NumInputs : MainWrote(n, s)
  BY DEF OrderInv
<1>2. PICK s \in n .. NumInputs : MainWrote(n, s)
  BY <1>1
<1>3. /\ InputsOk
      /\ thread \in [Inputs -> {"none", "running", "ended", "panicked"}]
      /\ \A i \in Inputs : thread[i] = "panicked" => i \in missing
      /\ DOMAIN auto = Inputs
      /\ main \in {"running", "done", "panicked", "killed"}
      /\ main \in {"done", "panicked"} => disk = obuffer
  BY DEF OrderInv
<1>4. UNCHANGED inputs
  BY DEF Next, MainThread, Spawn, Join, JoinPanics, Finish, ReadInputfile, Kill, Open, NextFrame, vars
<1>5. /\ InputsOk' /\ Header' = Header
      /\ \A i : Encoded(i)' = Encoded(i)
      /\ \A k : OutputOf(k)' = OutputOf(k)
      /\ missing' = missing
  BY <1>3, <1>4, SameInputs DEF inputs
<1>6. /\ n \in Nat /\ s \in Nat /\ n <= s /\ s <= NumInputs /\ NumInputs \in Nat
      /\ s \in 0 .. NumInputs /\ s \in n .. NumInputs /\ n \in 0 .. NumInputs
  BY InputAssumption
<1>7. /\ handles = Handles(n, s)
      /\ \A i \in Inputs : thread[i] # "none" <=> i <= s
      /\ obuffer = OutputOf(n)
      /\ \A i \in Inputs : auto[i] = IF i <= n THEN Header \o Encoded(i) ELSE <<>>
      /\ main = "done" => n = NumInputs
      /\ main = "panicked" => n + 1 \in missing
  BY <1>2 DEF MainWrote
<1>8. Started = s
  BY <1>6, <1>7, StartedIs
<1>9. /\ Len(handles) = s - n /\ (handles = <<>> <=> n = s)
      /\ n < s => handles[1] = n + 1 /\ RemoveAt(handles, 1) = Handles(n + 1, s)
      /\ Append(handles, s + 1) = Handles(n, s + 1)
  BY <1>6, <1>7, HandlesAre
<1>10. Joins => n < s /\ NextHandle = n + 1 /\ n + 1 \in Inputs
  BY <1>6, <1>8, <1>9, InputAssumption DEF Joins, NextHandle, FirstHandle, Inputs
<1> DEFINE Rest(k, t) ==
             /\ handles' = Handles(k, t)
             /\ \A i \in Inputs : thread'[i] # "none" <=> i <= t
             /\ obuffer' = OutputOf(k)
             /\ \A i \in Inputs : auto'[i] = IF i <= k THEN Header \o Encoded(i) ELSE <<>>
             /\ main' = "done" => k = NumInputs
             /\ main' = "panicked" => k + 1 \in missing
           Types ==
             /\ thread' \in [Inputs -> {"none", "running", "ended", "panicked"}]
             /\ \A i \in Inputs : thread'[i] = "panicked" => i \in missing
             /\ DOMAIN auto' = Inputs
             /\ main' \in {"running", "done", "panicked", "killed"}
             /\ main' \in {"done", "panicked"} => disk' = obuffer'
<1>11. SUFFICES \E k \in 0 .. NumInputs : \E t \in k .. NumInputs : Rest(k, t) /\ Types
  BY <1>5, Zenon DEF OrderInv, MainWrote
<1>12. CASE Spawn
  <2>1. s < NumInputs /\ s + 1 \in n .. NumInputs /\ s + 1 \in Inputs
    BY <1>6, <1>8, <1>12 DEF Spawn, Inputs
  <2>2. thread' = [thread EXCEPT ![s + 1] = "running"] /\ handles' = Append(handles, s + 1)
    BY <1>8, <1>12 DEF Spawn
  <2>3. UNCHANGED <<obuffer, auto, main, disk>>
    BY <1>12 DEF Spawn, written
  <2>4. \A i \in Inputs : thread'[i] # "none" <=> i <= s + 1
    BY <1>3, <1>6, <1>7, <2>1, <2>2 DEF Inputs
  <2>5. Types
    BY <1>3, <2>1, <2>2, <2>3
  <2>6. Rest(n, s + 1)
    BY <1>7, <1>9, <2>2, <2>3, <2>4
  <2> HIDE DEF Rest, Types
  <2> QED BY <1>6, <2>1, <2>5, <2>6
<1>13. CASE Join
  <2>1. n < s /\ NextHandle = n + 1 /\ n + 1 \in Inputs /\ main = "running"
    BY <1>10, <1>13 DEF Join
  <2>2. /\ handles' = RemoveAt(handles, 1)
        /\ auto' = [auto EXCEPT ![n + 1] = Header \o Encoded(n + 1)]
        /\ obuffer' = obuffer \o Encoded(n + 1)
        /\ UNCHANGED <<thread, main, disk>>
    BY <1>13, <2>1 DEF Join, FirstHandle
  <2>3. n \in 0 .. NumInputs - 1 /\ n + 1 \in 0 .. NumInputs /\ s \in n + 1 .. NumInputs
    BY <1>6, <2>1
  <2>4. obuffer' = OutputOf(n + 1)
    <3>1. Joined(Atom, OutputOf(n), Encoded(n + 1), OutputOf(n + 1))
      BY <1>3, <2>3, OutputGrows
    <3> QED BY <1>7, <2>2, <3>1 DEF Joined
  <2>5. \A i \in Inputs : auto'[i] = IF i <= n + 1 THEN Header \o Encoded(i) ELSE <<>>
    <3> TAKE i \in Inputs
    <3>1. CASE i = n + 1
      BY <1>3, <2>1, <2>2, <3>1, <1>6
    <3>2. CASE i # n + 1
      <4>1. auto'[i] = auto[i] /\ (i <= n + 1 <=> i <= n)
        BY <1>3, <2>1, <2>2, <3>2, <1>6 DEF Inputs
      <4> QED BY <1>7, <4>1, Zenon
    <3> QED BY <3>1, <3>2
  <2>6. Types
    BY <1>3, <2>1, <2>2
  <2>7. Rest(n + 1, s)
    BY <1>7, <1>9, <2>1, <2>2, <2>4, <2>5
  <2> HIDE DEF Rest, Types
  <2> QED BY <2>3, <2>6, <2>7
<1>14. CASE JoinPanics
  <2>1. n < s /\ NextHandle = n + 1 /\ n + 1 \in Inputs /\ thread[n + 1] = "panicked"
    BY <1>10, <1>14 DEF JoinPanics, Ended
  <2>2. main' = "panicked" /\ disk' = obuffer /\ UNCHANGED <<thread, handles, obuffer, auto>>
    BY <1>14 DEF JoinPanics, threads, written
  <2>3. Types
    BY <1>3, <2>2
  <2>4. Rest(n, s)
    BY <1>3, <1>7, <2>1, <2>2
  <2> HIDE DEF Rest, Types
  <2> QED BY <1>6, <2>3, <2>4
<1>15. CASE Finish
  <2>1. n = NumInputs
    BY <1>8, <1>9, <1>15 DEF Finish
  <2>2. main' = "done" /\ disk' = obuffer /\ UNCHANGED <<thread, handles, obuffer, auto>>
    BY <1>15 DEF Finish, threads, written
  <2>3. Types
    BY <1>3, <2>2
  <2>4. Rest(n, s)
    BY <1>7, <2>1, <2>2
  <2> HIDE DEF Rest, Types
  <2> QED BY <1>6, <2>3, <2>4
<1>16. ASSUME NEW j \in Inputs, ReadInputfile(j) PROVE \E k \in 0 .. NumInputs : \E t \in k .. NumInputs : Rest(k, t) /\ Types
  <2>1. /\ thread[j] = "running"
        /\ thread' = [thread EXCEPT ![j] = IF j \in missing THEN "panicked" ELSE "ended"]
        /\ UNCHANGED <<handles, obuffer, auto, main, disk>>
    BY <1>16 DEF ReadInputfile, written
  <2>2. \A i \in Inputs : thread'[i] # "none" <=> thread[i] # "none"
    BY <1>3, <2>1
  <2>3. Types
    BY <1>3, <2>1
  <2>4. Rest(n, s)
    BY <1>7, <2>1, <2>2
  <2> HIDE DEF Rest, Types
  <2> QED BY <1>6, <2>3, <2>4
<1>17. CASE Kill
  <2>1. main' = "killed" /\ UNCHANGED <<thread, handles, obuffer, auto>>
    BY <1>17 DEF Kill, threads, written
  <2>2. Types
    BY <1>3, <2>1
  <2>3. Rest(n, s)
    BY <1>7, <2>1
  <2> HIDE DEF Rest, Types
  <2> QED BY <1>6, <2>2, <2>3
<1>18. CASE Open \/ NextFrame \/ UNCHANGED vars
  <2>1. UNCHANGED <<thread, handles, obuffer, auto, main, disk>>
    BY <1>18 DEF Open, NextFrame, vars, threads, written
  <2>2. Types
    BY <1>3, <2>1
  <2>3. Rest(n, s)
    BY <1>7, <2>1
  <2> HIDE DEF Rest, Types
  <2> QED BY <1>6, <2>2, <2>3
<1> HIDE DEF Rest, Types
<1> QED BY <1>12, <1>13, <1>14, <1>15, <1>16, <1>17, <1>18 DEF Next, MainThread

LEMMA OrderIsOrder ==
  ASSUME OrderInv
  PROVE  InArgumentOrder
<1>1. PICK n \in 0 .. NumInputs : \E s \in n .. NumInputs : MainWrote(n, s)
  BY DEF OrderInv
<1>2. /\ obuffer = OutputOf(n)
      /\ \A i \in Inputs : auto[i] = IF i <= n THEN Header \o Encoded(i) ELSE <<>>
      /\ main = "done" => n = NumInputs
      /\ main = "panicked" => n + 1 \in missing
  BY <1>1 DEF MainWrote
<1>3. main \in {"done", "panicked"} => disk = obuffer
  BY DEF OrderInv
<1> QED BY <1>2, <1>3, Zenon DEF InArgumentOrder, OutputOf

\* The output is the header and the inputs in the order of the arguments,
\* whichever of their threads ends first, up to an input that cannot be opened.
THEOREM InputsInOrder == Spec => []InArgumentOrder
<1>1. Init => OrderInv
  BY OrderInitially
<1>2. OrderInv /\ [Next]_vars => OrderInv'
  BY OrderStep
<1>3. OrderInv => InArgumentOrder
  BY OrderIsOrder
<1> QED BY <1>1, <1>2, <1>3, PTL DEF Spec

-----------------------------------------------------------------------------
(* The frames of all inputs in the output.                                 *)

\* la[n]: the frames of the first n inputs. bf[k]: the header and the first k
\* of all frames.
Layout(la, bf, ws) ==
  /\ WordsFrom(EncodedFrame, <<>>, la, log, NumInputs)
  /\ AllFrames = la[NumInputs] /\ AllFrames \in Seq(EncodedFrame)
  /\ ws = [k \in 1 .. Len(AllFrames) |-> TryToRmp(AllFrames[k])]
  /\ WordsFrom(Atom, Header, bf, ws, Len(AllFrames))

LEMMA LayoutExists ==
  ASSUME InputsOk
  PROVE  \E la, bf, ws : Layout(la, bf, ws)
<1>1. log \in [1 .. NumInputs -> Seq(EncodedFrame)] /\ NumInputs \in Nat
  BY InputAssumption DEF InputsOk, Inputs
<1>2. PICK la : /\ Words(EncodedFrame, la, log, NumInputs) /\ la[0] = <<>>
                /\ Concat(log) = la[NumInputs]
  BY <1>1, ConcatValues
<1>3. AllFrames = la[NumInputs] /\ la[NumInputs] \in Seq(EncodedFrame)
  BY <1>1, <1>2 DEF AllFrames, Words
<1> DEFINE fs == AllFrames
           n == Len(fs)
           ws == [k \in 1 .. Len(fs) |-> TryToRmp(fs[k])]
           a == Header
<1>4. fs \in Seq(EncodedFrame) /\ n \in Nat
  BY <1>3
<1>5. ws \in [1 .. n -> Seq(Atom)]
  BY <1>4, FrameWords
<1>6. a \in Seq(Atom)
  BY HeaderType
<1>7. \E bf : WordsFrom(Atom, a, bf, ws, n)
  <2> HIDE DEF fs, n, ws, a
  <2> QED BY <1>4, <1>5, <1>6, WordsExist
<1>8. WordsFrom(EncodedFrame, <<>>, la, log, NumInputs)
  BY <1>2 DEF WordsFrom
<1> QED BY <1>3, <1>7, <1>8 DEF Layout

LEMMA LayoutIs ==
  ASSUME InputsOk, NEW la, NEW bf, NEW ws, Layout(la, bf, ws), NEW k \in 0 .. Len(AllFrames)
  PROVE  /\ bf[k] = OutputUpTo(k) /\ bf[k] \in Seq(Atom) /\ Len(AllFrames) \in Nat
         /\ Words(Atom, bf, ws, Len(AllFrames)) /\ bf[0] = Header
<1> DEFINE n == Len(AllFrames)
           F == Firsts(ws, k)
<1>1. Words(Atom, bf, ws, n) /\ bf[0] = Header /\ n \in Nat
      /\ ws = [i \in 1 .. n |-> TryToRmp(AllFrames[i])]
  BY DEF Layout, WordsFrom
<1> HIDE DEF n
<1>2. F = [i \in 1 .. k |-> TryToRmp(AllFrames[i])]
  <2>1. \A i \in 1 .. k : i \in 1 .. n
    BY <1>1 DEF n
  <2> QED BY <1>1, <2>1, Zenon DEF Firsts
<1>3. Joined(Atom, bf[0], Concat(Firsts(ws, k)), bf[k])
  BY <1>1, ConcatBehind DEF n
<1> HIDE DEF F
<1>4. bf[k] = Header \o Concat(F)
  BY <1>1, <1>3 DEF Joined, F
<1>5. bf[k] \in Seq(Atom)
  BY <1>1 DEF Words, n
<1>6. bf[k] = OutputUpTo(k)
  BY <1>2, <1>4, Zenon DEF OutputUpTo
<1> QED BY <1>1, <1>5, <1>6 DEF n

\* What main has written ends between two frames.
LEMMA InputsAreFrames ==
  ASSUME InputsOk, NEW la, NEW bf, NEW ws, Layout(la, bf, ws), NEW n \in 0 .. NumInputs
  PROVE  Len(la[n]) \in 0 .. Len(AllFrames) /\ OutputOf(n) = bf[Len(la[n])]
<1> DEFINE N == Len(AllFrames)
           I == NumInputs
<1>1. /\ Words(EncodedFrame, la, log, I) /\ la[0] = <<>> /\ AllFrames = la[I]
      /\ N \in Nat /\ I \in Nat
      /\ Words(Atom, bf, ws, N) /\ bf[0] = Header
      /\ ws = [k \in 1 .. N |-> TryToRmp(AllFrames[k])]
  BY InputAssumption DEF Layout, WordsFrom
<1>2. \A j \in 0 .. I : la[j] \in Seq(EncodedFrame) /\ Len(la[j]) \in Nat
  BY <1>1 DEF Words
<1>3. \A j \in 0 .. I : Len(la[j]) <= N /\ \A i \in 1 .. Len(la[j]) : AllFrames[i] = la[j][i]
  <2> TAKE j \in 0 .. I
  <2>1. I \in j .. I
    BY <1>1
  <2>2. Begins(la[j], la[I])
    <3> HIDE DEF I
    <3> QED BY <1>1, <2>1, WordsGrow
  <2> QED BY <1>1, <2>2 DEF Begins
<1> DEFINE Ok(j) == OutputOf(j) = bf[Len(la[j])]
           S == {j \in Nat : j <= I => Ok(j)}
<1>4. 0 \in S
  <2>1. Len(la[0]) = 0
    BY <1>1
  <2>2. OutputOf(0) = Header
    BY OutputOfNone
  <2>3. Ok(0)
    BY <1>1, <2>1, <2>2
  <2> HIDE DEF Ok
  <2> QED BY <2>3
<1>5. ASSUME NEW j \in S PROVE j + 1 \in S
  <2> SUFFICES ASSUME j + 1 <= I PROVE Ok(j + 1)
    <3> HIDE DEF Ok
    <3> QED OBVIOUS
  <2> DEFINE i == j + 1
             L == Len(la[j])
             fs == log[i]
             K == Len(fs)
             us == [k \in 1 .. K |-> TryToRmp(fs[k])]
             c == [k \in 0 .. K |-> bf[L + k]]
  <2>1. j \in Nat /\ Ok(j) /\ j \in 0 .. I /\ i \in 1 .. I /\ i - 1 = j /\ i \in Inputs /\ i \in 0 .. I
    <3>1. j \in Nat /\ (j <= I => Ok(j))
      <4> HIDE DEF Ok
      <4> QED OBVIOUS
    <3>2. j <= I /\ j \in 0 .. I /\ i \in 1 .. I /\ i - 1 = j /\ i \in Inputs /\ i \in 0 .. I
      BY <1>1, <3>1 DEF Inputs
    <3> HIDE DEF Ok
    <3> QED BY <3>1, <3>2
  <2> HIDE DEF i
  <2>2. /\ la[i] = la[j] \o fs /\ la[j] \in Seq(EncodedFrame) /\ fs \in Seq(EncodedFrame)
        /\ L \in Nat /\ K \in Nat
    <3>1. la[i] = la[i - 1] \o fs /\ fs \in Seq(EncodedFrame)
      BY <1>1, <2>1 DEF Words
    <3>2. L \in Nat /\ la[j] \in Seq(EncodedFrame)
      BY <1>2, <2>1
    <3>3. la[i] = la[j] \o fs
      BY <2>1, <3>1, Zenon
    <3> HIDE DEF fs, L
    <3>4. K \in Nat
      BY <3>1
    <3> HIDE DEF K
    <3> QED BY <3>1, <3>2, <3>3, <3>4
  <2>3. Len(la[i]) = L + K /\ \A k \in 1 .. K : la[i][L + k] = fs[k]
    <3> DEFINE u == la[j]
               w == la[i]
    <3>1. u \in Seq(EncodedFrame) /\ fs \in Seq(EncodedFrame) /\ w = u \o fs
      BY <2>2
    <3> HIDE DEF fs, u, w
    <3>2. Len(w) = Len(u) + Len(fs) /\ \A k \in 1 .. Len(fs) : w[Len(u) + k] = fs[k]
      BY <3>1, ConcatLen
    <3> QED BY <3>2 DEF u, w
  <2>4. L + K <= N /\ \A k \in 1 .. K : AllFrames[L + k] = fs[k]
    <3>1. \A k \in 1 .. K : L + k \in 1 .. Len(la[i])
      <4> HIDE DEF fs, K, L
      <4> QED BY <2>2, <2>3
    <3> HIDE DEF fs, K, L, N
    <3> QED BY <1>3, <2>1, <2>3, <3>1 DEF N
  <2>5. us \in [1 .. K -> Seq(Atom)]
    BY <2>2, FrameWords
  <2> HIDE DEF fs, K, L
  <2>6. c \in [0 .. K -> Seq(Atom)]
    <3>1. \A k \in 0 .. K : L + k \in 0 .. N
      BY <1>1, <2>2, <2>4
    <3> HIDE DEF N
    <3> QED BY <1>1, <3>1 DEF Words
  <2>7. \A k \in 1 .. K : c[k] = c[k - 1] \o us[k]
    <3> TAKE k \in 1 .. K
    <3>1. L + k \in 1 .. N /\ (L + k) - 1 = L + (k - 1) /\ k - 1 \in 0 .. K /\ k \in 0 .. K
      BY <1>1, <2>2, <2>4
    <3>2. bf[L + k] = bf[(L + k) - 1] \o ws[L + k]
      <4> DEFINE z == L + k
      <4>1. z \in 1 .. N
        BY <3>1
      <4> HIDE DEF z, N
      <4>2. bf[z] = bf[z - 1] \o ws[z]
        BY <1>1, <4>1 DEF Words
      <4> QED BY <4>2 DEF z
    <3>3. ws[L + k] = TryToRmp(AllFrames[L + k])
      BY <1>1, <3>1, Zenon
    <3>4. TryToRmp(AllFrames[L + k]) = us[k]
      BY <2>4, Zenon
    <3>5. c[k] = bf[L + k] /\ c[k - 1] = bf[L + (k - 1)]
      BY <3>1, Zenon
    <3> HIDE DEF c, us
    <3> QED BY <3>1, <3>2, <3>3, <3>4, <3>5, Zenon
  <2>8. Words(Atom, c, us, K)
    BY <2>5, <2>6, <2>7, Zenon DEF Words
  <2>9. Joined(Atom, c[0], Concat(Firsts(us, K)), c[K])
    <3>1. K \in 0 .. K
      BY <2>2
    <3> HIDE DEF c, us
    <3> QED BY <2>2, <2>8, <3>1, ConcatBehind
  <2>10. Firsts(us, K) = us
    BY Zenon DEF Firsts
  <2>11. Encoded(i) = Concat(us)
    <3>1. DOMAIN log[i] = 1 .. K
      BY <2>2 DEF fs, K
    <3> QED BY <3>1, Zenon DEF Encoded, fs
  <2>12. c[0] = bf[L] /\ c[K] = bf[L + K]
    BY <2>2
  <2>13. Joined(Atom, OutputOf(j), Encoded(i), OutputOf(i))
    <3>1. j \in 0 .. I - 1 /\ j + 1 = i
      BY <1>1, <2>1
    <3> QED BY <3>1, OutputGrows
  <2>14. OutputOf(j) = bf[L]
    BY <2>1 DEF L
  <2>15. OutputOf(i) = bf[L + K]
    BY <2>9, <2>10, <2>11, <2>12, <2>13, <2>14, Zenon DEF Joined
  <2> HIDE DEF Ok
  <2>16. Ok(i)
    BY <2>3, <2>15, Zenon DEF Ok
  <2> QED BY <2>16 DEF i
<1> HIDE DEF Ok
<1>6. S = Nat
  <2> HIDE DEF S
  <2>1. S \in SUBSET Nat
    BY DEF S
  <2> QED BY <1>4, <1>5, <2>1, SetInduction
<1>7. Ok(n)
  <2>1. n \in S /\ n <= I
    BY <1>1, <1>6
  <2> QED BY <2>1
<1>8. Len(la[n]) \in 0 .. N
  BY <1>1, <1>2, <1>3
<1> QED BY <1>7, <1>8 DEF Ok

-----------------------------------------------------------------------------
(* The reader: it has returned the first k frames.                         *)

\* The disk has what was written, or a part of it.
OnDisk(d, m) ==
  /\ d \in Seq(Atom)
  /\ \E k \in 0 .. Len(AllFrames) :
       Begins(d, OutputUpTo(k)) /\ (m # "killed" => d = OutputUpTo(k))

Readable == cfg.schema = Schema /\ cfg.version <= Version /\ Holds(disk, 1, Header)

ReadTo(k) ==
  /\ got = [i \in 1 .. k |-> AsHeld(AllFrames[i])]
  /\ reader = "closed" => k = 0
  /\ reader \in {"reading", "ended"} => Readable
  /\ reader = "reading" => /\ rpos = Len(OutputUpTo(k)) + 1
                           /\ Holds(disk, 1, OutputUpTo(k))
  /\ reader = "ended" => disk = OutputUpTo(k)
  /\ reader = "panicked" => \/ cfg.schema # Schema \/ cfg.version > Version
                            \/ main = "killed" /\ disk # OutputUpTo(k)

ReadInv ==
  /\ reader \in {"closed", "reading", "ended", "panicked"}
  /\ main = "running" => reader = "closed"
  /\ main # "running" => OnDisk(disk, main)
  /\ \E k \in 0 .. Len(AllFrames) : ReadTo(k)

LEMMA BeginsItself ==
  ASSUME NEW A, NEW u \in Seq(A)
  PROVE  Begins(u, u) /\ \A m \in 0 .. Len(u) : SubSeq(u, 1, m) \in Seq(A) /\ Begins(SubSeq(u, 1, m), u)
<1>1. Begins(u, u)
  BY DEF Begins
<1>2. ASSUME NEW m \in 0 .. Len(u)
      PROVE  SubSeq(u, 1, m) \in Seq(A) /\ Begins(SubSeq(u, 1, m), u)
  <2> DEFINE s == SubSeq(u, 1, m)
  <2>1. s \in Seq(A) /\ Len(s) = m /\ \A i \in 1 .. m : s[i] = u[i]
    OBVIOUS
  <2> HIDE DEF s
  <2>2. Len(s) <= Len(u)
    BY <2>1
  <2> QED BY <2>1, <2>2 DEF Begins, s
<1> QED BY <1>1, <1>2

LEMMA WrittenOnDisk ==
  ASSUME OrderInv
  PROVE  /\ \A m : m # "killed" => OnDisk(obuffer, m)
         /\ \A n \in 0 .. Len(obuffer) : OnDisk(SubSeq(obuffer, 1, n), "killed")
<1>1. PICK n \in 0 .. NumInputs : obuffer = OutputOf(n)
  BY DEF OrderInv, MainWrote
<1>2. InputsOk
  BY DEF OrderInv
<1>3. PICK la, bf, ws : Layout(la, bf, ws)
  BY <1>2, LayoutExists
<1> DEFINE k == Len(la[n])
<1>4. k \in 0 .. Len(AllFrames) /\ obuffer = bf[k]
  BY <1>1, <1>2, <1>3, InputsAreFrames
<1> HIDE DEF k
<1>5. obuffer = OutputUpTo(k) /\ obuffer \in Seq(Atom)
  BY <1>2, <1>3, <1>4, LayoutIs
<1>6. Begins(obuffer, OutputUpTo(k))
      /\ \A m \in 0 .. Len(obuffer) : /\ SubSeq(obuffer, 1, m) \in Seq(Atom)
                                      /\ Begins(SubSeq(obuffer, 1, m), OutputUpTo(k))
  BY <1>5, BeginsItself
<1> QED BY <1>4, <1>5, <1>6 DEF OnDisk

\* A file that begins like the first n words goes on behind the first k with
\* nothing, with the next one or with a part of it.
LEMMA WordsOnDisk ==
  ASSUME NEW N \in Nat, NEW b, NEW ws, Words(Atom, b, ws, N), NEW n \in 0 .. N, NEW k \in 0 .. N,
         NEW d \in Seq(Atom), Begins(d, b[n]), Holds(d, 1, b[k])
  PROVE  \/ d = b[k]
         \/ /\ k + 1 \in 1 .. N /\ Holds(d, 1, b[k + 1])
            /\ Holds(d, 1 + Len(b[k]), ws[k + 1])
         \/ /\ k + 1 \in 1 .. N /\ k < n /\ Len(b[k]) < Len(d) /\ d # b[n]
            /\ CutIn(d, 1 + Len(b[k]), ws[k + 1])
<1>1. \A j \in 0 .. N : b[j] \in Seq(Atom) /\ Len(b[j]) \in Nat
  BY DEF Words
<1>2. Len(d) \in Nat
  OBVIOUS
<1>3. Len(d) >= Len(b[k]) /\ \A i \in 1 .. Len(b[k]) : d[i] = b[k][i]
  <2>1. \A i \in 1 .. Len(b[k]) : 1 + i - 1 = i
    BY <1>1
  <2> QED BY <1>1, <1>2, <2>1 DEF Holds
<1>4. CASE Len(d) = Len(b[k])
  <2> DEFINE w == b[k]
  <2>1. w \in Seq(Atom) /\ Len(d) = Len(w) /\ \A i \in 1 .. Len(d) : d[i] = w[i]
    BY <1>1, <1>3, <1>4
  <2> HIDE DEF w
  <2>2. d = w
    BY <2>1
  <2> QED BY <2>2 DEF w
<1>5. CASE Len(d) # Len(b[k])
  <2>1. Len(d) > Len(b[k])
    BY <1>1, <1>2, <1>3, <1>5
  <2>2. k < n
    <3> SUFFICES ASSUME n <= k PROVE FALSE
      OBVIOUS
    <3>1. k \in n .. N
      OBVIOUS
    <3>2. Begins(b[n], b[k])
      BY <3>1, WordsGrow
    <3> QED BY <1>1, <1>2, <2>1, <3>2 DEF Begins
  <2> DEFINE j == k + 1
             v == b[j]
  <2>3. j \in 1 .. N /\ j \in 0 .. N /\ n \in j .. N /\ j - 1 = k
    BY <2>2
  <2>4. Begins(v, b[n])
    <3> HIDE DEF j
    <3> QED BY <2>3, WordsGrow
  <2>5. /\ v = b[k] \o ws[j] /\ b[k] \in Seq(Atom) /\ ws[j] \in Seq(Atom)
        /\ Len(v) = Len(b[k]) + Len(ws[j]) /\ Len(ws[j]) \in Nat /\ v \in Seq(Atom)
    <3> HIDE DEF j
    <3>1. v = b[j - 1] \o ws[j]
      BY <2>3 DEF Words
    <3>2. /\ b[j - 1] \in Seq(Atom) /\ ws[j] \in Seq(Atom) /\ v \in Seq(Atom)
          /\ Len(v) = Len(b[j - 1]) + Len(ws[j]) /\ Len(ws[j]) \in Nat
      <4> HIDE DEF v
      <4>1. /\ b[j - 1] \in Seq(Atom) /\ ws[j] \in Seq(Atom) /\ b[j] \in Seq(Atom)
            /\ Len(b[j]) = Len(b[j - 1]) + Len(ws[j]) /\ Len(ws[j]) \in Nat
        <5>1. \A i \in 1 .. N :
                /\ b[i - 1] \in Seq(Atom) /\ ws[i] \in Seq(Atom) /\ b[i] \in Seq(Atom)
                /\ Len(b[i]) = Len(b[i - 1]) + Len(ws[i])
                /\ Len(b[i - 1]) \in Nat /\ Len(ws[i]) \in Nat
          BY WordsLengths
        <5> QED BY <2>3, <5>1
      <4> QED BY <4>1 DEF v
    <3> HIDE DEF v
    <3> QED BY <2>3, <3>1, <3>2, Zenon
  <2> HIDE DEF j, v
  <2> DEFINE t == b[n]
             lk == Len(b[k])
             lw == Len(ws[j])
  <2>9. t \in Seq(Atom) /\ Len(t) \in Nat /\ Len(v) \in Nat /\ Len(v) = lk + lw /\ lk \in Nat /\ lw \in Nat
    <3>1. t \in Seq(Atom) /\ Len(t) \in Nat /\ lk \in Nat
      BY <1>1
    <3>2. Len(v) = lk + lw /\ lw \in Nat
      BY <2>5
    <3> HIDE DEF t, lk, lw
    <3> QED BY <3>1, <3>2
  <2>6. /\ \A i \in 1 .. Len(d) : d[i] = b[n][i]
        /\ \A i \in 1 .. Len(v) : v[i] = b[n][i]
        /\ Len(d) <= Len(b[n]) /\ Len(v) <= Len(b[n])
    BY <2>4 DEF Begins
  <2>10. /\ \A i \in 1 .. Len(d) : d[i] = t[i]
         /\ \A i \in 1 .. Len(v) : v[i] = t[i]
         /\ Len(d) <= Len(t) /\ Len(v) <= Len(t)
    BY <2>6
  <2> HIDE DEF t, lk, lw
  <2>7. CASE Len(v) <= Len(d)
    <3>1. Holds(d, 1, v)
      <4>1. \A i \in 1 .. Len(v) : i \in 1 .. Len(d) /\ 1 + i - 1 = i
        BY <1>2, <2>9, <2>7
      <4>2. \A i \in 1 .. Len(v) : d[i] = v[i]
        BY <2>10, <4>1
      <4> QED BY <1>2, <2>9, <2>7, <4>1, <4>2 DEF Holds
    <3>2. Holds(d, 1 + Len(b[k]), ws[j])
      <4> DEFINE u == b[k]
                 w == ws[j]
                 p == 1
      <4>1. u \in Seq(Atom) /\ w \in Seq(Atom) /\ Holds(d, p, u \o w) /\ p \in Nat \ {0}
        BY <2>5, <3>1
      <4> HIDE DEF u, w, p
      <4>2. Holds(d, p + Len(u), w)
        BY <4>1, HoldsConcat
      <4> QED BY <4>2 DEF u, w, p
    <3> QED BY <2>3, <3>1, <3>2 DEF j, v
  <2>8. CASE Len(v) > Len(d)
    <3>1. CutIn(d, 1, v)
      <4>1. \A i \in 1 .. Len(v) : 1 + i - 1 = i
        BY <2>9
      <4>2. \A i \in 1 .. Len(v) : i <= Len(d) => d[i] = v[i]
        <5> TAKE i \in 1 .. Len(v)
        <5> SUFFICES ASSUME i <= Len(d) PROVE d[i] = v[i]
          OBVIOUS
        <5>1. i \in 1 .. Len(d)
          BY <1>2, <2>9
        <5> QED BY <2>10, <5>1
      <4> QED BY <1>2, <2>9, <2>8, <4>1, <4>2 DEF CutIn
    <3>2. ~CutIn(d, 1, b[k])
      BY <1>1, <1>2, <2>1 DEF CutIn
    <3>3. CutIn(d, 1 + Len(b[k]), ws[j])
      <4> DEFINE u == b[k]
                 w == ws[j]
                 p == 1
      <4>1. u \in Seq(Atom) /\ w \in Seq(Atom) /\ CutIn(d, p, u \o w) /\ p \in Nat \ {0} /\ ~CutIn(d, p, u)
        BY <2>5, <3>1, <3>2
      <4> HIDE DEF u, w, p
      <4>2. CutIn(d, p + Len(u), w)
        BY <4>1, CutConcat
      <4> QED BY <4>2 DEF u, w, p
    <3>4. d # b[n]
      <4>1. d # t
        BY <1>2, <2>8, <2>9, <2>10
      <4> QED BY <4>1 DEF t
    <3> QED BY <2>1, <2>2, <2>3, <3>3, <3>4 DEF j
  <2> QED BY <1>2, <2>9, <2>7, <2>8
<1> QED BY <1>4, <1>5

LEMMA ReadInitially ==
  ASSUME Init
  PROVE  ReadInv
<1>1. InputsOk
  BY DEF Init, InputsOk
<1>2. PICK la, bf, ws : Layout(la, bf, ws)
  BY <1>1, LayoutExists
<1>3. AllFrames \in Seq(EncodedFrame)
  BY <1>2 DEF Layout
<1>4. 0 \in 0 .. Len(AllFrames)
  BY <1>3
<1>5. <<>> = [i \in 1 .. 0 |-> AsHeld(AllFrames[i])]
  OBVIOUS
<1>6. ReadTo(0)
  BY <1>5 DEF Init, ReadTo
<1> QED BY <1>4, <1>6 DEF Init, ReadInv

\* Whether the header is there, of this program, decides what FDCodecIter::new
\* does.
LEMMA OpenIs ==
  ASSUME InputsOk, OnDisk(disk, main)
  PROVE  /\ TryFromHeader(disk).ok => /\ Readable
                                      /\ TryFromHeader(disk).pos = Len(OutputUpTo(0)) + 1
                                      /\ Holds(disk, 1, OutputUpTo(0))
         /\ ~TryFromHeader(disk).ok => \/ cfg.schema # Schema \/ cfg.version > Version
                                       \/ main = "killed" /\ disk # OutputUpTo(0)
<1>1. PICK la, bf, ws : Layout(la, bf, ws)
  BY LayoutExists
<1> DEFINE N == Len(AllFrames)
           z == 0
<1>2. N \in Nat /\ z \in 0 .. N
  <2>1. N \in Nat
    BY <1>1 DEF Layout
  <2> QED BY <2>1
<1>3. PICK n \in 0 .. N : /\ Begins(disk, OutputUpTo(n))
                          /\ main # "killed" => disk = OutputUpTo(n)
  BY DEF OnDisk
<1> HIDE DEF N, z
<1>4. /\ bf[n] = OutputUpTo(n) /\ bf[z] = OutputUpTo(z) /\ bf[0] = Header
      /\ Words(Atom, bf, ws, N) /\ bf[n] \in Seq(Atom)
  BY <1>1, <1>2, <1>3, LayoutIs DEF N
<1>5. OutputUpTo(0) = Header
  BY <1>4 DEF z
<1>6. Begins(Header, OutputUpTo(n))
  <2>1. n \in z .. N
    BY <1>2, <1>3 DEF z
  <2>2. Begins(bf[z], bf[n])
    BY <1>2, <1>4, <2>1, WordsGrow
  <2> QED BY <1>4, <2>2 DEF z
<1> DEFINE o == OutputUpTo(n)
           h == Header
           c == cfg
           r == TryFromHeader(disk)
<1>7. /\ o \in Seq(Atom) /\ h \in Seq(Atom) /\ disk \in Seq(Atom) /\ c \in Cfgs
      /\ Begins(disk, o) /\ Begins(h, o) /\ h = GetHeader(c)
  BY <1>3, <1>4, <1>6, HeaderType DEF OnDisk, InputsOk, Header
<1>8. c.version \in Nat /\ Version \in Nat
  BY <1>7, CfgType, CfgAssumption
<1>9. /\ Holds(disk, 1, h) /\ c.schema = Schema /\ c.version <= Version =>
           r = [ok |-> TRUE, pos |-> Len(h) + 1, full_encode_secs |-> c.full_encode_secs,
                recv_llq |-> c.recv_llq, delta_enc |-> c.delta_enc]
      /\ Holds(disk, 1, h) /\ ~(c.schema = Schema /\ c.version <= Version) => ~r.ok
      /\ CutIn(disk, 1, h) => ~r.ok
  BY <1>7, HeaderTried
<1> HIDE DEF o, h, c, r
<1>10. Holds(disk, 1, h) \/ (CutIn(disk, 1, h) /\ Len(disk) < Len(h))
  <2>1. /\ Len(disk) <= Len(o) /\ \A i \in 1 .. Len(disk) : o[i] = disk[i]
        /\ Len(h) <= Len(o) /\ \A i \in 1 .. Len(h) : o[i] = h[i]
        /\ Len(disk) \in Nat /\ Len(h) \in Nat /\ Len(o) \in Nat
    BY <1>7 DEF Begins
  <2>2. \A i \in 1 .. Len(h) : 1 + i - 1 = i
    BY <2>1
  <2>3. CASE Len(h) <= Len(disk)
    <3>1. \A i \in 1 .. Len(h) : i \in 1 .. Len(disk)
      BY <2>1, <2>3
    <3> QED BY <2>1, <2>2, <2>3, <3>1 DEF Holds
  <2>4. CASE Len(h) > Len(disk)
    <3>1. \A i \in 1 .. Len(h) : i <= Len(disk) => i \in 1 .. Len(disk)
      BY <2>1
    <3> QED BY <2>1, <2>2, <2>4, <3>1 DEF CutIn
  <2> QED BY <2>1, <2>3, <2>4
<1>11. CASE Holds(disk, 1, h) /\ c.schema = Schema /\ c.version <= Version
  <2>1. r.ok /\ r.pos = Len(h) + 1
    BY <1>9, <1>11
  <2> QED BY <1>5, <1>11, <2>1 DEF Readable, r, h, c
<1>12. CASE Holds(disk, 1, h) /\ ~(c.schema = Schema /\ c.version <= Version)
  <2>1. ~r.ok
    BY <1>9, <1>12
  <2>2. c.schema # Schema \/ c.version > Version
    BY <1>8, <1>12
  <2> QED BY <2>1, <2>2 DEF r, c
<1>13. CASE CutIn(disk, 1, h) /\ Len(disk) < Len(h)
  <2>1. ~r.ok
    BY <1>9, <1>13
  <2>2. disk # h
    BY <1>7, <1>13
  <2>3. disk # o
    <3>1. Len(h) <= Len(o) /\ Len(disk) \in Nat /\ Len(h) \in Nat /\ Len(o) \in Nat
      BY <1>7 DEF Begins
    <3> QED BY <1>13, <3>1
  <2>4. main = "killed"
    BY <1>3, <2>3 DEF o
  <2> QED BY <1>5, <2>1, <2>2, <2>4 DEF r, h
<1> QED BY <1>10, <1>11, <1>12, <1>13

\* What a call of next finds behind the first k frames.
LEMMA NextFrameIs ==
  ASSUME InputsOk, OnDisk(disk, main), NEW k \in 0 .. Len(AllFrames),
         rpos = Len(OutputUpTo(k)) + 1, Holds(disk, 1, OutputUpTo(k))
  PROVE  \/ /\ k + 1 \in 1 .. Len(AllFrames)
            /\ TryFromRmp(disk, rpos).ok
            /\ TryFromRmp(disk, rpos).v = AsHeld(AllFrames[k + 1])
            /\ TryFromRmp(disk, rpos).pos = Len(OutputUpTo(k + 1)) + 1
            /\ Holds(disk, 1, OutputUpTo(k + 1))
         \/ /\ ~TryFromRmp(disk, rpos).ok /\ TryFromRmp(disk, rpos).err = "EOF"
            /\ disk = OutputUpTo(k)
         \/ /\ ~TryFromRmp(disk, rpos).ok /\ TryFromRmp(disk, rpos).err # "EOF"
            /\ main = "killed" /\ disk # OutputUpTo(k)
<1>1. PICK la, bf, ws : Layout(la, bf, ws)
  BY LayoutExists
<1> DEFINE N == Len(AllFrames)
           j == k + 1
<1>2. N \in Nat /\ AllFrames \in Seq(EncodedFrame) /\ k \in 0 .. N /\ j \in Nat /\ j - 1 = k
      /\ ws = [i \in 1 .. N |-> TryToRmp(AllFrames[i])]
  <2>1. AllFrames \in Seq(EncodedFrame) /\ ws = [i \in 1 .. N |-> TryToRmp(AllFrames[i])]
    BY <1>1 DEF Layout
  <2>2. N \in Nat
    BY <2>1
  <2> QED BY <2>1, <2>2
<1>3. PICK n \in 0 .. N : /\ Begins(disk, OutputUpTo(n))
                          /\ main # "killed" => disk = OutputUpTo(n)
  BY DEF OnDisk
<1> DEFINE b == bf[k]
           w == ws[j]
           d == disk
           r == TryFromRmp(disk, rpos)
<1>4. \A i \in 0 .. N : bf[i] = OutputUpTo(i) /\ bf[i] \in Seq(Atom)
  BY <1>1, LayoutIs
<1>5. Words(Atom, bf, ws, N)
  BY <1>1, <1>2, LayoutIs
<1>6. d \in Seq(Atom) /\ Begins(d, bf[n]) /\ Holds(d, 1, bf[k]) /\ rpos = 1 + Len(bf[k])
  <2>1. bf[n] = OutputUpTo(n) /\ bf[k] = OutputUpTo(k) /\ bf[k] \in Seq(Atom)
    BY <1>2, <1>3, <1>4
  <2>2. Len(OutputUpTo(k)) \in Nat
    BY <2>1
  <2>3. rpos = 1 + Len(OutputUpTo(k))
    BY <2>2
  <2> QED BY <1>3, <2>1, <2>3, Zenon DEF OnDisk
<1> HIDE DEF N, j, d
<1>7. \/ d = bf[k]
      \/ j \in 1 .. N /\ Holds(d, 1, bf[j]) /\ Holds(d, 1 + Len(bf[k]), w)
      \/ /\ j \in 1 .. N /\ k < n /\ Len(bf[k]) < Len(d) /\ d # bf[n]
         /\ CutIn(d, 1 + Len(bf[k]), w)
  BY <1>2, <1>3, <1>5, <1>6, WordsOnDisk DEF j
<1>8. rpos \in Nat \ {0} /\ b \in Seq(Atom) /\ Len(b) \in Nat /\ Len(d) \in Nat
  <2>1. b \in Seq(Atom) /\ Len(b) \in Nat
    BY <1>2, <1>4
  <2>2. Len(d) \in Nat
    BY <1>6
  <2> QED BY <1>6, <2>1, <2>2
<1>9. ASSUME j \in 1 .. N
      PROVE  /\ AllFrames[j] \in EncodedFrame /\ w = TryToRmp(AllFrames[j])
             /\ Len(bf[j]) = Len(b) + Len(w) /\ bf[j] = OutputUpTo(j)
  <2>1. AllFrames[j] \in EncodedFrame
    BY <1>2, <1>9 DEF N
  <2>2. w = TryToRmp(AllFrames[j])
    BY <1>2, <1>9, Zenon
  <2>3. Len(bf[j]) = Len(bf[j - 1]) + Len(ws[j])
    <3>1. \A i \in 1 .. N :
            /\ bf[i - 1] \in Seq(Atom) /\ ws[i] \in Seq(Atom) /\ bf[i] \in Seq(Atom)
            /\ Len(bf[i]) = Len(bf[i - 1]) + Len(ws[i])
            /\ Len(bf[i - 1]) \in Nat /\ Len(ws[i]) \in Nat
      <4>1. N \in Nat
        BY <1>2
      <4> QED BY <1>5, <4>1, WordsLengths
    <3> QED BY <1>9, <3>1
  <2>4. j \in 0 .. N
    BY <1>2, <1>9
  <2> QED BY <1>2, <1>4, <2>1, <2>2, <2>3, <2>4, Zenon
<1> DEFINE f == AllFrames[j]
<1> HIDE DEF b, w, r, f
<1>10. CASE d = bf[k]
  <2>1. rpos = Len(disk) + 1
    BY <1>6, <1>8, <1>10 DEF d, b
  <2>2. Failed("EOF").err = "EOF" /\ ~Failed("EOF").ok
    BY DEF Failed
  <2>3. TryFromRmp(disk, rpos) = Failed("EOF")
    <3> DEFINE p == rpos
    <3>1. disk \in Seq(Atom) /\ p \in Nat \ {0} /\ p = Len(disk) + 1
      BY <1>6, <1>8, <2>1 DEF d
    <3> HIDE DEF p
    <3>2. TryFromRmp(disk, p) = Failed("EOF")
      BY <3>1, EndOfFrames
    <3> QED BY <3>2 DEF p
  <2>4. disk = OutputUpTo(k)
    BY <1>2, <1>4, <1>10 DEF d
  <2> QED BY <2>2, <2>3, <2>4, Zenon
<1>11. CASE j \in 1 .. N /\ Holds(d, 1, bf[j]) /\ Holds(d, 1 + Len(bf[k]), w)
  <2>1. /\ f \in EncodedFrame /\ w = TryToRmp(f)
        /\ Len(bf[j]) = Len(b) + Len(w) /\ bf[j] = OutputUpTo(j)
    BY <1>9, <1>11 DEF f
  <2>2. Holds(d, rpos, TryToRmp(f))
    BY <1>6, <1>11, <2>1
  <2>3. r = [ok |-> TRUE, pos |-> rpos + Len(w), v |-> AsHeld(f)] /\ Len(w) \in Nat
    BY <1>6, <1>8, <2>1, <2>2, FrameReads DEF r, d
  <2>4. rpos + Len(w) = Len(bf[j]) + 1
    <3> DEFINE x == Len(bf[j])
               y == Len(b)
               z == Len(w)
    <3>1. rpos = 1 + y /\ x = y + z /\ y \in Nat /\ z \in Nat
      BY <1>6, <1>8, <2>1, <2>3 DEF b
    <3> HIDE DEF x, y, z
    <3>2. rpos + z = x + 1
      BY <3>1
    <3> QED BY <3>2 DEF x, z
  <2>5. r.ok /\ r.v = AsHeld(f) /\ r.pos = rpos + Len(w)
    BY <2>3
  <2>6. r.pos = Len(OutputUpTo(j)) + 1 /\ Holds(d, 1, OutputUpTo(j))
    BY <1>11, <2>1, <2>4, <2>5
  <2> QED BY <1>11, <2>5, <2>6 DEF r, d, f, j, N
<1>12. CASE /\ j \in 1 .. N /\ k < n /\ Len(bf[k]) < Len(d) /\ d # bf[n]
            /\ CutIn(d, 1 + Len(bf[k]), w)
  <2>1. f \in EncodedFrame /\ w = TryToRmp(f)
    BY <1>9, <1>12 DEF f
  <2>2. CutIn(d, rpos, TryToRmp(f)) /\ rpos <= Len(d)
    BY <1>6, <1>8, <1>12, <2>1 DEF b
  <2>3. ~r.ok /\ r.err # "EOF"
    BY <1>6, <1>8, <2>1, <2>2, FrameReads DEF r, d
  <2>4. main = "killed"
    BY <1>3, <1>4, <1>12 DEF d
  <2>5. d # bf[k]
    BY <1>8, <1>12 DEF b
  <2>6. disk # OutputUpTo(k)
    BY <1>2, <1>4, <2>5 DEF d
  <2> QED BY <2>3, <2>4, <2>6 DEF r
<1> QED BY <1>7, <1>10, <1>11, <1>12

LEMMA ReadStep ==
  ASSUME OrderInv, ReadInv, [Next]_vars
  PROVE  ReadInv'
<1>1. InputsOk
  BY DEF OrderInv
<1>2. PICK k \in 0 .. Len(AllFrames) : ReadTo(k)
  BY DEF ReadInv
<1> DEFINE N == Len(AllFrames)
           O(i) == OutputUpTo(i)
<1>3. /\ reader \in {"closed", "reading", "ended", "panicked"}
      /\ main = "running" => reader = "closed"
      /\ main # "running" => OnDisk(disk, main)
      /\ main \in {"running", "done", "panicked", "killed"}
  BY DEF ReadInv, OrderInv
<1>4. /\ got = [i \in 1 .. k |-> AsHeld(AllFrames[i])]
      /\ reader = "closed" => k = 0
      /\ reader \in {"reading", "ended"} => Readable
      /\ reader = "reading" => rpos = Len(O(k)) + 1 /\ Holds(disk, 1, O(k))
      /\ reader = "ended" => disk = O(k)
      /\ reader = "panicked" => \/ cfg.schema # Schema \/ cfg.version > Version
                                \/ main = "killed" /\ disk # O(k)
  BY <1>2 DEF ReadTo
<1>5. UNCHANGED inputs
  BY DEF Next, MainThread, Spawn, Join, JoinPanics, Finish, ReadInputfile, Kill, Open, NextFrame, vars
<1>6. /\ Header' = Header /\ AllFrames' = AllFrames /\ cfg' = cfg
      /\ \A i : OutputUpTo(i)' = OutputUpTo(i)
  BY <1>5, SameInputs DEF inputs
<1>7. N \in Nat
  <2>1. PICK la, bf, ws : Layout(la, bf, ws)
    BY <1>1, LayoutExists
  <2> QED BY <2>1 DEF Layout
<1> DEFINE Fine(d) == cfg.schema = Schema /\ cfg.version <= Version /\ Holds(d, 1, Header)
           Rest(n) ==
             /\ got' = [i \in 1 .. n |-> AsHeld(AllFrames[i])]
             /\ reader' = "closed" => n = 0
             /\ reader' \in {"reading", "ended"} => Fine(disk')
             /\ reader' = "reading" => rpos' = Len(O(n)) + 1 /\ Holds(disk', 1, O(n))
             /\ reader' = "ended" => disk' = O(n)
             /\ reader' = "panicked" => \/ cfg.schema # Schema \/ cfg.version > Version
                                        \/ main' = "killed" /\ disk' # O(n)
           Types ==
             /\ reader' \in {"closed", "reading", "ended", "panicked"}
             /\ main' = "running" => reader' = "closed"
             /\ main' # "running" => OnDisk(disk', main')
<1>8. SUFFICES Types /\ \E n \in 0 .. N : Rest(n)
  <2>1. Types => (/\ reader \in {"closed", "reading", "ended", "panicked"}
                  /\ main = "running" => reader = "closed"
                  /\ main # "running" => OnDisk(disk, main))'
    BY <1>6 DEF OnDisk
  <2>2. \A n : Rest(n) => ReadTo(n)'
    BY <1>6, Zenon DEF ReadTo, Readable
  <2> HIDE DEF Rest, Types
  <2>3. ASSUME NEW n \in 0 .. N, Rest(n) PROVE (\E i \in 0 .. Len(AllFrames) : ReadTo(i))'
    <3>1. ReadTo(n)'
      BY <2>2, <2>3
    <3> QED BY <1>6, <3>1, Zenon
  <2> QED BY <2>1, <2>3 DEF ReadInv
<1>9. CASE Spawn \/ Join \/ (\E i \in Inputs : ReadInputfile(i)) \/ UNCHANGED vars
  <2>1. UNCHANGED <<main, disk, reader, rpos, got>>
    BY <1>9 DEF Spawn, Join, ReadInputfile, vars, iter
  <2>2. Types
    BY <1>3, <2>1
  <2>3. Rest(k)
    BY <1>4, <2>1 DEF Readable
  <2> HIDE DEF Rest, Types
  <2> QED BY <2>2, <2>3
<1>10. CASE JoinPanics \/ Finish \/ Kill
  <2>1. reader = "closed" /\ UNCHANGED <<reader, rpos, got>>
    BY <1>3, <1>10 DEF JoinPanics, Finish, Kill, iter
  <2>2. main' # "running" /\ OnDisk(disk', main')
    <3>1. CASE JoinPanics \/ Finish
      <4>1. main' # "killed" /\ main' # "running" /\ disk' = obuffer
        BY <3>1 DEF JoinPanics, Finish
      <4>2. OnDisk(obuffer, main')
        BY <4>1, WrittenOnDisk
      <4> QED BY <4>1, <4>2
    <3>2. CASE Kill
      <4>1. PICK n \in 0 .. Len(obuffer) : disk' = SubSeq(obuffer, 1, n)
        BY <3>2 DEF Kill
      <4>2. OnDisk(SubSeq(obuffer, 1, n), "killed") /\ main' = "killed"
        BY <3>2, WrittenOnDisk DEF Kill
      <4> QED BY <4>1, <4>2
    <3> QED BY <1>10, <3>1, <3>2
  <2>3. Types
    BY <2>1, <2>2
  <2>4. Rest(k)
    BY <1>4, <2>1
  <2> HIDE DEF Rest, Types
  <2> QED BY <2>3, <2>4
<1>11. CASE Open
  <2>1. /\ main # "running" /\ reader = "closed" /\ UNCHANGED <<main, disk, got>>
        /\ IF TryFromHeader(disk).ok
           THEN reader' = "reading" /\ rpos' = TryFromHeader(disk).pos
           ELSE reader' = "panicked"
    BY <1>11 DEF Open
  <2>2. OnDisk(disk, main) /\ k = 0
    BY <1>3, <1>4, <2>1
  <2>3. Types
    BY <1>3, <2>1
  <2>4. Rest(k)
    <3>1. CASE TryFromHeader(disk).ok
      <4>1. /\ reader' = "reading" /\ rpos' = Len(O(0)) + 1
            /\ Holds(disk, 1, O(0)) /\ Readable
        BY <1>1, <2>1, <2>2, <3>1, OpenIs
      <4> QED BY <1>4, <2>1, <2>2, <4>1 DEF Readable
    <3>2. CASE ~TryFromHeader(disk).ok
      <4>1. /\ reader' = "panicked"
            /\ \/ cfg.schema # Schema \/ cfg.version > Version
               \/ main = "killed" /\ disk # O(0)
        BY <1>1, <2>1, <2>2, <3>2, OpenIs
      <4> QED BY <1>4, <2>1, <2>2, <4>1
    <3> QED BY <3>1, <3>2
  <2> HIDE DEF Rest, Types
  <2> QED BY <2>3, <2>4
<1>12. CASE NextFrame
  <2> DEFINE frame == TryFromRmp(disk, rpos)
  <2>1. /\ reader = "reading" /\ UNCHANGED <<main, disk>>
        /\ IF frame.ok
           THEN got' = Append(got, frame.v) /\ rpos' = frame.pos /\ reader' = reader
           ELSE /\ reader' = IF frame.err = "EOF" THEN "ended" ELSE "panicked"
                /\ UNCHANGED <<rpos, got>>
    BY <1>12 DEF NextFrame, EndsFrames
  <2>2. main # "running" /\ OnDisk(disk, main)
    BY <1>3, <2>1
  <2>3. /\ rpos = Len(O(k)) + 1 /\ Holds(disk, 1, O(k)) /\ Readable
    BY <1>4, <2>1
  <2>4. \/ /\ k + 1 \in 1 .. N
           /\ frame.ok /\ frame.v = AsHeld(AllFrames[k + 1])
           /\ frame.pos = Len(O(k + 1)) + 1 /\ Holds(disk, 1, O(k + 1))
        \/ ~frame.ok /\ frame.err = "EOF" /\ disk = O(k)
        \/ ~frame.ok /\ frame.err # "EOF" /\ main = "killed" /\ disk # O(k)
    BY <1>1, <2>2, <2>3, NextFrameIs
  <2> HIDE DEF frame
  <2>5. Types
    <3>1. reader' \in {"reading", "ended", "panicked"}
      BY <2>1
    <3> QED BY <2>1, <2>2, <3>1
  <2>6. CASE /\ k + 1 \in 1 .. N
             /\ frame.ok /\ frame.v = AsHeld(AllFrames[k + 1])
             /\ frame.pos = Len(O(k + 1)) + 1 /\ Holds(disk, 1, O(k + 1))
    <3>1. got' = [i \in 1 .. k + 1 |-> AsHeld(AllFrames[i])]
      <4> DEFINE h(i) == AsHeld(AllFrames[i])
      <4>1. got = [i \in 1 .. k |-> h(i)] /\ got' = Append(got, h(k + 1))
        BY <1>4, <2>1, <2>6
      <4> HIDE DEF h
      <4>2. Append([i \in 1 .. k |-> h(i)], h(k + 1)) = [i \in 1 .. k + 1 |-> h(i)]
        BY <1>7
      <4>3. got' = [i \in 1 .. k + 1 |-> h(i)]
        BY <4>1, <4>2
      <4> QED BY <4>3 DEF h
    <3>2. reader' = "reading" /\ rpos' = Len(O(k + 1)) + 1 /\ disk' = disk
      BY <2>1, <2>6
    <3>3. Rest(k + 1)
      BY <2>3, <2>6, <3>1, <3>2 DEF Readable
    <3>4. k + 1 \in 0 .. N
      BY <2>6
    <3> HIDE DEF Rest, Types
    <3> QED BY <2>5, <3>3, <3>4
  <2>7. CASE ~frame.ok /\ frame.err = "EOF" /\ disk = O(k)
    <3>1. reader' = "ended" /\ UNCHANGED <<disk, got>>
      BY <2>1, <2>7
    <3>2. Rest(k)
      BY <1>4, <2>3, <2>7, <3>1 DEF Readable
    <3> HIDE DEF Rest, Types
    <3> QED BY <2>5, <3>2
  <2>8. CASE ~frame.ok /\ frame.err # "EOF" /\ main = "killed" /\ disk # O(k)
    <3>1. reader' = "panicked" /\ UNCHANGED <<main, disk, got>>
      BY <2>1, <2>8
    <3>2. Rest(k)
      BY <1>4, <2>8, <3>1
    <3> HIDE DEF Rest, Types
    <3> QED BY <2>5, <3>2
  <2> QED BY <2>4, <2>6, <2>7, <2>8
<1> HIDE DEF Rest, Types
<1> QED BY <1>9, <1>10, <1>11, <1>12 DEF Next, MainThread

LEMMA ReadIsRead ==
  ASSUME OrderInv, ReadInv
  PROVE  ReadsFrames /\ PanicsOnCutOnly
<1>1. PICK k \in 0 .. Len(AllFrames) : ReadTo(k)
  BY DEF ReadInv
<1>2. got = [i \in 1 .. k |-> AsHeld(AllFrames[i])] /\ DOMAIN got = 1 .. k
  BY <1>1 DEF ReadTo
<1>3. Header \o Concat([i \in DOMAIN got |-> TryToRmp(AllFrames[i])]) = OutputUpTo(k)
  BY <1>2, Zenon DEF OutputUpTo
<1>4. got = [i \in DOMAIN got |-> AsHeld(AllFrames[i])]
  BY <1>2, Zenon
<1>5. ASSUME reader \in {"reading", "ended"}, NEW field \in {"full_encode_secs", "recv_llq", "delta_enc"}
      PROVE  TryFromHeader(disk)[field] = cfg[field]
  <2> DEFINE c == cfg
             r == TryFromHeader(disk)
  <2>1. c \in Cfgs /\ Readable /\ main # "running" /\ disk \in Seq(Atom)
    BY <1>1, <1>5 DEF OrderInv, InputsOk, ReadTo, ReadInv, OnDisk
  <2>2. Holds(disk, 1, GetHeader(c)) /\ c.schema = Schema /\ c.version <= Version
    BY <2>1 DEF Readable, Header
  <2> HIDE DEF c, r
  <2>3. r = [ok |-> TRUE, pos |-> Len(GetHeader(c)) + 1, full_encode_secs |-> c.full_encode_secs,
             recv_llq |-> c.recv_llq, delta_enc |-> c.delta_enc]
    BY <2>1, <2>2, HeaderTried DEF r
  <2>4. r[field] = c[field]
    BY <2>3
  <2> QED BY <2>4 DEF c, r
<1>6. ReadsFrames
  BY <1>1, <1>3, <1>4, <1>5 DEF ReadsFrames, ReadTo
<1>7. PanicsOnCutOnly
  BY <1>1, <1>3 DEF PanicsOnCutOnly, ReadTo
<1> QED BY <1>6, <1>7

LEMMA ReadAlways == Spec => [](OrderInv /\ ReadInv)
<1>1. Init => OrderInv /\ ReadInv
  BY OrderInitially, ReadInitially
<1>2. (OrderInv /\ ReadInv) /\ [Next]_vars => (OrderInv /\ ReadInv)'
  BY OrderStep, ReadStep
<1> QED BY <1>1, <1>2, PTL DEF Spec

\* What FDCodecIter returns are the frames that were written, in their order
\* and as they were, under their configuration, and it ends between two of
\* them; for any logs, any header and any place where a kill cuts the file.
THEOREM FramesAreRead == Spec => []ReadsFrames
<1>1. OrderInv /\ ReadInv => ReadsFrames
  BY ReadIsRead
<1> QED BY <1>1, ReadAlways, PTL

\* It panics only inside of a header or a frame that a kill has cut, and on a
\* header of another program or a newer one.
THEOREM PanicsOnlyOnCut == Spec => []PanicsOnCutOnly
<1>1. OrderInv /\ ReadInv => PanicsOnCutOnly
  BY ReadIsRead
<1> QED BY <1>1, ReadAlways, PTL

-----------------------------------------------------------------------------
(* FDCodecIterFold.                                                        *)

USE SettingsAssumption DEF SettingsAssumption

\* The frames from a to b, by their places.
Run(a, b) == [i \in 1 .. b - a + 1 |-> a + i - 1]

-----------------------------------------------------------------------------
(* Runs.                                                                   *)

LEMMA RunType ==
  ASSUME NEW a \in Nat \ {0}, NEW b \in Nat, a <= b + 1
  PROVE  /\ Run(a, b) \in Seq(Nat)
         /\ Len(Run(a, b)) = b - a + 1
         /\ \A i \in 1 .. b - a + 1 : Run(a, b)[i] = a + i - 1
<1> DEFINE m == b - a + 1
<1>1. m \in Nat /\ Run(a, b) \in [1 .. m -> Nat]
  BY DEF Run
<1>2. Run(a, b) \in Seq(Nat) /\ Len(Run(a, b)) = m
  BY <1>1
<1> QED BY <1>1, <1>2 DEF Run

LEMMA RunEmpty ==
  ASSUME NEW a \in Nat \ {0}, NEW b \in Nat, a = b + 1
  PROVE  Run(a, b) = <<>>
<1>1. Run(a, b) \in Seq(Nat) /\ Len(Run(a, b)) = 0
  BY RunType
<1> QED BY <1>1, EmptySeq

\* The oldest leave a run.
LEMMA RunDrop ==
  ASSUME NEW a \in Nat \ {0}, NEW b \in Nat, a <= b + 1, NEW r \in Nat
  PROVE  SubSeq(Run(a, b), r + 1, Len(Run(a, b))) =
           IF a + r <= b THEN Run(a + r, b) ELSE <<>>
<1>1. /\ Run(a, b) \in Seq(Nat) /\ Len(Run(a, b)) = b - a + 1
      /\ \A i \in 1 .. b - a + 1 : Run(a, b)[i] = a + i - 1
  BY RunType
<1>2. CASE a + r <= b
  <2> DEFINE t == SubSeq(Run(a, b), r + 1, Len(Run(a, b)))
             m == b - a + 1
  <2>1. \A i \in r + 1 .. m : Run(a, b)[i] \in Nat
    BY <1>1
  <2>2. m \in Int /\ r + 1 \in Int /\ r + 1 <= m /\ Len(Run(a, b)) = m
    BY <1>1, <1>2
  <2>3. /\ t \in Seq(Nat) /\ Len(t) = m - (r + 1) + 1
        /\ \A i \in 1 .. m - (r + 1) + 1 : t[i] = Run(a, b)[(r + 1) + i - 1]
    BY <2>1, <2>2, SubSeqProperties
  <2>4. /\ Run(a + r, b) \in Seq(Nat) /\ Len(Run(a + r, b)) = b - (a + r) + 1
        /\ \A i \in 1 .. b - (a + r) + 1 : Run(a + r, b)[i] = (a + r) + i - 1
    <3>1. a + r \in Nat \ {0} /\ a + r <= b + 1
      BY <1>2
    <3> QED BY <3>1, RunType
  <2>5. Len(t) = Len(Run(a + r, b))
    BY <2>3, <2>4
  <2>6. ASSUME NEW i \in 1 .. Len(t) PROVE t[i] = Run(a + r, b)[i]
    <3>1. i \in 1 .. m - (r + 1) + 1 /\ i \in 1 .. b - (a + r) + 1
      BY <2>3
    <3>2. (r + 1) + i - 1 \in 1 .. b - a + 1
      BY <3>1
    <3>3. t[i] = a + ((r + 1) + i - 1) - 1
      BY <1>1, <2>3, <3>1, <3>2
    <3>4. Run(a + r, b)[i] = (a + r) + i - 1
      BY <2>4, <3>1
    <3> QED BY <3>1, <3>3, <3>4
  <2> HIDE DEF t
  <2>7. t = Run(a + r, b)
    BY <2>3, <2>4, <2>5, <2>6, SeqEqual
  <2> QED BY <1>2, <2>7 DEF t
<1>3. CASE ~(a + r <= b)
  <2>1. Len(Run(a, b)) \in Int /\ r + 1 \in Int /\ Len(Run(a, b)) < r + 1
    BY <1>1, <1>3
  <2> QED BY <1>3, <2>1, SubSeqEmpty
<1> QED BY <1>2, <1>3

\* A run that goes on.
LEMMA RunConcat ==
  ASSUME NEW a \in Nat \ {0}, NEW b \in Nat, NEW c \in Nat, a <= b + 1, b <= c
  PROVE  Run(a, b) \o Run(b + 1, c) = Run(a, c)
<1> DEFINE s == Run(a, b)
           t == Run(b + 1, c)
           u == Run(a, c)
           m == b - a + 1
           l == c - (b + 1) + 1
<1>1. /\ s \in Seq(Nat) /\ Len(s) = m /\ \A i \in 1 .. m : s[i] = a + i - 1
      /\ t \in Seq(Nat) /\ Len(t) = l /\ \A i \in 1 .. l : t[i] = (b + 1) + i - 1
      /\ u \in Seq(Nat) /\ Len(u) = c - a + 1 /\ \A i \in 1 .. c - a + 1 : u[i] = a + i - 1
  <2>1. a <= c + 1 /\ b + 1 \in Nat \ {0} /\ b + 1 <= c + 1
    OBVIOUS
  <2>2. Len(s) = m /\ s \in Seq(Nat) /\ \A i \in 1 .. m : s[i] = a + i - 1
    BY RunType
  <2>3. Len(t) = l /\ t \in Seq(Nat) /\ \A i \in 1 .. l : t[i] = (b + 1) + i - 1
    BY <2>1, RunType
  <2>4. Len(u) = c - a + 1 /\ u \in Seq(Nat) /\ \A i \in 1 .. c - a + 1 : u[i] = a + i - 1
    BY <2>1, RunType
  <2> QED BY <2>2, <2>3, <2>4
<1> HIDE DEF s, t, u
<1>2. /\ s \o t \in Seq(Nat) /\ Len(s \o t) = Len(s) + Len(t)
      /\ \A i \in 1 .. Len(s) + Len(t) :
           (s \o t)[i] = IF i <= Len(s) THEN s[i] ELSE t[i - Len(s)]
  BY <1>1, ConcatProperties
<1>3. Len(s \o t) = Len(u)
  BY <1>1, <1>2
<1>4. ASSUME NEW i \in 1 .. m + l PROVE (s \o t)[i] = u[i]
  <2>1. u[i] = a + i - 1
    BY <1>1
  <2>2. CASE i <= m
    BY <1>1, <1>2, <2>1, <2>2
  <2>3. CASE ~(i <= m)
    <3>1. i - m \in 1 .. l
      BY <2>3
    <3>2. (s \o t)[i] = t[i - m]
      BY <1>1, <1>2, <2>3
    <3>3. t[i - m] = (b + 1) + (i - m) - 1
      BY <1>1, <3>1
    <3> QED BY <2>1, <3>2, <3>3
  <2> QED BY <2>2, <2>3
<1>5. s \o t = u
  <2>1. \A i \in 1 .. Len(s \o t) : (s \o t)[i] = u[i]
    BY <1>1, <1>2, <1>4
  <2> QED BY <1>1, <1>2, <1>3, <2>1, SeqEqual
<1> QED BY <1>5 DEF s, t, u

-----------------------------------------------------------------------------
(* The windows.                                                            *)

\* What the window holds after k calls, and what the next call makes of it.
Held(w, s, n, k) == Run(Low(w, s, n, k), High(s, n, k))

\* The window is inside the file.
LEMMA HeldRange ==
  ASSUME NEW n \in Nat, NEW s \in Nat \ {0}, NEW w \in Nat, w >= s, NEW k \in Nat,
         k <= Count(w, s, n)
  PROVE  /\ Low(w, s, n, k) \in Nat \ {0}
         /\ High(s, n, k) \in Nat
         /\ Low(w, s, n, k) <= High(s, n, k) + 1
         /\ k * s < n => Low(w, s, n, k) = IF k * s > w THEN k * s - w + 1 ELSE 1
<1>1. Low(w, s, n, k) \in Nat \ {0} /\ High(s, n, k) \in Nat
  BY LowType, HighType
<1>2. ASSUME k * s < n
      PROVE  Low(w, s, n, k) = IF k * s > w THEN k * s - w + 1 ELSE 1
  <2>1. k + 1 <= Pulls(s, n) /\ Pulls(s, n) \in Nat
    BY <1>2, PullsFind
  <2>2. k <= Pulls(s, n)
    BY <2>1
  <2> QED BY <2>2 DEF Low
<1>3. CASE k * s < n
  <2> DEFINE ks == k * s
  <2>1. ks \in Nat /\ High(s, n, k) = ks
    BY <1>3 DEF High
  <2>2. Low(w, s, n, k) = IF ks > w THEN ks - w + 1 ELSE 1
    BY <1>2, <1>3
  <2> HIDE DEF ks
  <2> QED BY <1>1, <1>2, <2>1, <2>2
<1>4. CASE ~(k * s < n)
  <2>1. High(s, n, k) = n
    BY <1>4, HighType
  <2>2. CASE k = 0
    <3>1. Low(w, s, n, 0) = 1
      <4>1. 0 * s = 0 /\ 0 <= Pulls(s, n)
        BY PullsFind
      <4> QED BY <4>1 DEF Low
    <3> QED BY <1>1, <1>4, <2>1, <2>2, <3>1
  <2>3. CASE k # 0
    <3>1. n # 0
      <4>1. n = 0 => Count(w, s, n) = 0
        BY DEF Count
      <4> QED BY <2>3, <4>1
    <3> DEFINE j == k - 1
    <3>2. j \in Nat /\ j + 1 = k
      BY <2>3
    <3> HIDE DEF j
    <3>3. Low(w, s, n, j + 1) <= n
      BY <3>1, <3>2, CountReached
    <3> QED BY <1>1, <1>4, <2>1, <3>2, <3>3
  <2> QED BY <2>2, <2>3
<1> QED BY <1>1, <1>3, <1>4

Dropped(w, s, n, k) == IF k * s < n THEN Len(Held(w, s, n, k)) + s - w ELSE s
WithoutOldest(t, r) == IF r <= 0 THEN t ELSE SubSeq(t, r + 1, Len(t))

Found(s, n, k) == Run(High(s, n, k) + 1, High(s, n, k + 1))
After(w, s, n, k) == IF k + 1 <= Count(w, s, n) THEN Held(w, s, n, k + 1) ELSE <<>>

LEMMA NextHeld ==
  ASSUME NEW n \in Nat, NEW s \in Nat \ {0}, NEW w \in Nat, w >= s, NEW k \in Nat,
         k <= Count(w, s, n)
  PROVE  WithoutOldest(Held(w, s, n, k), Dropped(w, s, n, k)) \o Found(s, n, k)
           = After(w, s, n, k)
<1> DEFINE low == Low(w, s, n, k)
           high == High(s, n, k)
           low1 == Low(w, s, n, k + 1)
           high1 == High(s, n, k + 1)
           held == Held(w, s, n, k)
           new == Run(high + 1, high1)
           ks == k * s
<1>1. /\ low \in Nat \ {0} /\ high \in Nat /\ low <= high + 1
      /\ ks < n => low = IF ks > w THEN ks - w + 1 ELSE 1
  BY HeldRange
<1>2. low1 \in Nat \ {0} /\ high1 \in Nat /\ ks \in Nat
  <2>1. k + 1 \in Nat /\ ks \in Nat
    OBVIOUS
  <2> QED BY <2>1, LowType, HighType
<1>3. held = Run(low, high) /\ Len(held) = high - low + 1
  BY <1>1, RunType DEF Held
<1>4. \A r \in Nat : SubSeq(held, r + 1, Len(held)) =
                      IF low + r <= high THEN Run(low + r, high) ELSE <<>>
  BY <1>1, <1>3, RunDrop
<1>5. Held(w, s, n, k + 1) = Run(low1, high1)
  BY DEF Held
<1>6. CASE ks < n
  <2>1. low1 = IF ks + s > w THEN ks + s - w + 1 ELSE 1
    BY <1>6, LowWhileFound
  <2>2. high = ks /\ high1 = IF ks + s < n THEN ks + s ELSE n
    <3>1. (k + 1) * s = ks + s
      OBVIOUS
    <3> QED BY <1>6, <3>1 DEF High
  <2> DEFINE r == Len(held) + s - w
             kept == IF r <= 0 THEN held ELSE SubSeq(held, r + 1, Len(held))
  <2>3. low1 <= high + 1 /\ low1 <= n
    <3> HIDE DEF ks, low1, high
    <3> QED BY <1>2, <1>6, <2>1, <2>2
  <2>4. k + 1 <= Count(w, s, n)
    <3>1. n \in Nat \ {0}
      BY <1>2, <1>6
    <3> QED BY <2>3, <3>1, CountReached
  <2>5. kept = Run(low1, high)
    <3>1. r = high - low + 1 + s - w /\ r \in Int
      BY <1>1, <1>3
    <3>2. CASE r <= 0
      <4>1. low1 = low
        <5> HIDE DEF ks, low1, high, low, held
        <5> QED BY <1>1, <1>2, <1>6, <2>1, <2>2, <3>1, <3>2
      <4> QED BY <1>3, <3>2, <4>1
    <3>3. CASE ~(r <= 0)
      <4>1. r \in Nat /\ low1 = low + r
        <5> HIDE DEF ks, low1, high, low, held
        <5> QED BY <1>1, <1>2, <1>6, <2>1, <2>2, <3>1, <3>3
      <4>2. kept = IF low1 <= high THEN Run(low1, high) ELSE <<>>
        BY <1>4, <3>3, <4>1
      <4>3. ~(low1 <= high) => low1 = high + 1
        BY <1>1, <1>2, <2>3
      <4>4. low1 = high + 1 => Run(low1, high) = <<>>
        BY <1>1, <1>2, RunEmpty
      <4> QED BY <4>2, <4>3, <4>4
    <3> QED BY <3>2, <3>3
  <2>6. high <= high1
    <3> HIDE DEF ks, high, high1
    <3> QED BY <1>2, <1>6, <2>2
  <2> HIDE DEF low1, high, high1
  <2>7. Run(low1, high) \o Run(high + 1, high1) = Run(low1, high1)
    BY <1>1, <1>2, <2>3, <2>6, RunConcat
  <2>8. WithoutOldest(Held(w, s, n, k), Dropped(w, s, n, k)) = kept
    BY <1>6 DEF WithoutOldest, Dropped
  <2>9. Found(s, n, k) = Run(high + 1, high1)
    BY DEF Found, high, high1
  <2> QED BY <1>5, <2>4, <2>5, <2>7, <2>8, <2>9 DEF low1, After
<1>7. CASE ~(ks < n)
  <2>1. low1 = low + s
    BY <1>7, LowWhenEnded
  <2>2. high = n /\ high1 = n
    <3>1. (k + 1) * s = ks + s /\ ~(ks + s < n)
      BY <1>2, <1>7
    <3> QED BY <1>7, <3>1, HighType
  <2>3. new = <<>>
    BY <2>2, RunEmpty
  <2>4. SubSeq(held, s + 1, Len(held)) = IF low1 <= n THEN Run(low1, n) ELSE <<>>
    BY <1>4, <2>1, <2>2
  <2>5. k + 1 <= Count(w, s, n) <=> low1 <= n
    <3>1. CASE n = 0
      <4>1. Count(w, s, n) = 0
        BY <3>1 DEF Count
      <4> HIDE DEF low1
      <4> QED BY <1>2, <3>1, <4>1
    <3>2. CASE n # 0
      BY <3>2, CountReached
    <3> QED BY <3>1, <3>2
  <2>6. low1 <= n => Run(low1, n) \o <<>> = Run(low1, n)
    <3>1. low1 <= n => low1 <= n + 1
      BY <1>2
    <3>2. low1 <= n => Run(low1, n) \in Seq(Nat)
      BY <1>2, <3>1, RunType
    <3> QED BY <3>2, ConcatEmptySeq
  <2>7. <<>> \o <<>> = <<>>
    BY EmptySeq, ConcatEmptySeq
  <2> DEFINE kept == SubSeq(held, s + 1, Len(held))
  <2>8. kept \o new = IF k + 1 <= Count(w, s, n) THEN Held(w, s, n, k + 1) ELSE <<>>
    BY <1>5, <2>2, <2>3, <2>4, <2>5, <2>6, <2>7
  <2>9. ~(s <= 0)
    OBVIOUS
  <2>10. WithoutOldest(Held(w, s, n, k), Dropped(w, s, n, k)) = kept
    BY <1>7, <2>9 DEF WithoutOldest, Dropped
  <2>11. Found(s, n, k) = new
    BY DEF Found
  <2> QED BY <2>8, <2>10, <2>11 DEF After
<1> QED BY <1>6, <1>7

-----------------------------------------------------------------------------
(* The iterator.                                                           *)

\* After k folds the window is the k-th, until the iterator has ended.
WindowInv ==
  /\ agg \in Settings
  /\ Len(source) \in Nat
  /\ \E S : output \in Seq(S)
  /\ spans \in Seq(Seq(Nat))
  /\ Len(spans) = Len(output)
  /\ LET n == Len(source)
         k == Len(output) IN
     /\ k <= Count(agg.window, agg.step, n)
     /\ taken = High(agg.step, n, k)
     /\ IF done THEN k = Count(agg.window, agg.step, n)
        ELSE buffer = Held(agg.window, agg.step, n, k)
     /\ \A j \in 1 .. k : spans[j] = Held(agg.window, agg.step, n, j)

LEMMA InitWindows == FoldInit => WindowInv
<1> SUFFICES ASSUME FoldInit PROVE WindowInv
  OBVIOUS
<1>1. agg \in Settings /\ taken = 0 /\ buffer = <<>> /\ output = <<>> /\ spans = <<>> /\ ~done
  BY DEF FoldInit
<1> DEFINE n == Len(source)
           s == agg.step
           w == agg.window
<1>2. n \in Nat
  <2>1. PICK m \in 0 .. MaxFrames : source = [i \in 1 .. m |-> source[i]]
    BY DEF FoldInit
  <2>2. m \in Nat
    OBVIOUS
  <2> DEFINE S == {source[i] : i \in 1 .. m}
  <2>3. source \in [1 .. m -> S]
    BY <2>1
  <2> HIDE DEF S
  <2>4. source \in Seq(S) /\ Len(source) = m
    BY <2>2, <2>3
  <2> QED BY <2>2, <2>4
<1>3. s \in Nat \ {0} /\ w \in Nat /\ w >= s
  BY <1>1
<1> HIDE DEF n, s, w
<1>4. Len(<<>>) = 0 /\ <<>> \in Seq(Seq(Nat))
  BY EmptySeq
<1>5. High(s, n, 0) = 0 /\ Low(w, s, n, 0) = 1 /\ 0 <= Count(w, s, n)
  <2>1. 0 * s = 0 /\ 0 <= Pulls(s, n)
    BY <1>2, <1>3, PullsFind
  <2>2. High(s, n, 0) = 0
    BY <1>2, <2>1 DEF High
  <2>3. Low(w, s, n, 0) = 1
    BY <1>3, <2>1 DEF Low
  <2>4. 0 <= Count(w, s, n)
    <3>1. n = 0 => Count(w, s, n) = 0
      BY DEF Count
    <3>2. n # 0 => Count(w, s, n) \in Nat
      BY <1>2, <1>3, CountReached
    <3> QED BY <3>1, <3>2
  <2> QED BY <2>2, <2>3, <2>4
<1>6. Held(w, s, n, 0) = <<>>
  BY <1>5, RunEmpty DEF Held
<1> QED BY <1>1, <1>2, <1>4, <1>5, <1>6 DEF WindowInv, n, s, w

\* What take(step) collects.
LEMMA NewItemsRun ==
  ASSUME WindowInv
  PROVE  LET n == Len(source)
             k == Len(output) IN
         /\ NewItems = Run(High(agg.step, n, k) + 1, High(agg.step, n, k + 1))
         /\ Len(NewItems) = High(agg.step, n, k + 1) - High(agg.step, n, k)
         /\ NewItems = <<>> <=> ~(k * agg.step < n)
<1> DEFINE n == Len(source)
           s == agg.step
           k == Len(output)
           ks == k * s
           high == High(s, n, k)
           high1 == High(s, n, k + 1)
<1>1. n \in Nat /\ s \in Nat \ {0} /\ taken = high
  BY DEF WindowInv
<1>2. k \in Nat
  BY LenProperties DEF WindowInv
<1> HIDE DEF n, s, k
<1>3. ks \in Nat /\ (k + 1) * s = ks + s
  BY <1>1, <1>2
<1>4. high = (IF ks < n THEN ks ELSE n) /\ high1 = (IF ks + s < n THEN ks + s ELSE n)
  BY <1>3 DEF High
<1> HIDE DEF ks, high, high1
<1>5. high \in Nat /\ high1 \in Nat /\ high <= high1 /\ high <= n
      /\ (high = high1 <=> ~(ks < n))
  BY <1>1, <1>3, <1>4
<1>6. Min({s, n - high}) = high1 - high
  <2> DEFINE d == n - high
  <2>1. d \in Int /\ high1 - high = IF s <= d THEN s ELSE d
    BY <1>1, <1>3, <1>4
  <2> HIDE DEF d
  <2>2. Min({s, d}) = IF s <= d THEN s ELSE d
    BY <1>1, <2>1 DEF Min
  <2> QED BY <2>1, <2>2 DEF d
<1>7. NewItems = [i \in 1 .. high1 - high |-> high + i]
  BY <1>1, <1>6 DEF NewItems, n, s
<1>8. Run(high + 1, high1) = [i \in 1 .. high1 - high |-> high + i]
  <2>1. high1 - (high + 1) + 1 = high1 - high
    BY <1>5
  <2>2. \A i \in 1 .. high1 - high : (high + 1) + i - 1 = high + i
    BY <1>5
  <2> QED BY <2>1, <2>2 DEF Run
<1>9. NewItems \in Seq(Nat) /\ Len(NewItems) = high1 - high
  <2>1. high + 1 \in Nat \ {0} /\ high + 1 <= high1 + 1
    BY <1>5
  <2>2. Run(high + 1, high1) \in Seq(Nat) /\ Len(Run(high + 1, high1)) = high1 - (high + 1) + 1
    BY <1>5, <2>1, RunType
  <2> QED BY <1>5, <1>7, <1>8, <2>2
<1>10. NewItems = <<>> <=> ~(ks < n)
  <2>1. NewItems = <<>> <=> Len(NewItems) = 0
    BY <1>9, EmptySeq
  <2> QED BY <1>5, <1>9, <2>1
<1> QED BY <1>7, <1>8, <1>9, <1>10 DEF n, s, k, ks, high, high1

LEMMA FoldWindows == WindowInv /\ NextFold => WindowInv'
<1> SUFFICES ASSUME WindowInv, NextFold PROVE WindowInv'
  OBVIOUS
<1> DEFINE n == Len(source)
           s == agg.step
           w == agg.window
           k == Len(output)
<1>1. /\ n \in Nat /\ s \in Nat \ {0} /\ w \in Nat /\ w >= s
      /\ k <= Count(w, s, n) /\ taken = High(s, n, k) /\ spans \in Seq(Seq(Nat))
      /\ Len(spans) = k /\ \A j \in 1 .. k : spans[j] = Held(w, s, n, j)
  BY DEF WindowInv
<1>2. PICK S : output \in Seq(S)
  BY DEF WindowInv
<1>3. k \in Nat
  BY <1>2, LenProperties
<1>4. ~done /\ agg' = agg /\ source' = source /\ agg \in Settings
  BY DEF NextFold, WindowInv
<1>5. buffer = Held(w, s, n, k)
  BY <1>4 DEF WindowInv
<1>6. buffer' = IF k + 1 <= Count(w, s, n) THEN Held(w, s, n, k + 1) ELSE <<>>
  <2>1. ToRemove(NewItems) = Dropped(w, s, n, k)
    BY <1>5, NewItemsRun DEF ToRemove, Dropped
  <2>2. buffer' = Without(Dropped(w, s, n, k)) \o NewItems
    BY <2>1 DEF NextFold
  <2>3. Without(Dropped(w, s, n, k)) = WithoutOldest(buffer, Dropped(w, s, n, k))
    BY Zenon DEF Without, WithoutOldest
  <2>4. NewItems = Found(s, n, k)
    BY NewItemsRun DEF Found
  <2>5. WithoutOldest(Held(w, s, n, k), Dropped(w, s, n, k)) \o Found(s, n, k)
          = After(w, s, n, k)
    <3>1. n \in Nat /\ s \in Nat \ {0} /\ w \in Nat /\ w >= s /\ k <= Count(w, s, n)
      BY <1>1
    <3> HIDE DEF n, s, w, k
    <3> QED BY <1>3, <3>1, NextHeld, Zenon
  <2> HIDE DEF n, s, w, k
  <2>6. buffer' = After(w, s, n, k)
    BY <1>5, <2>2, <2>3, <2>4, <2>5, Zenon
  <2> QED BY <2>6, Zenon DEF After
<1>7. taken' = High(s, n, k + 1)
  <2>1. taken' = taken + Len(NewItems)
    BY DEF NextFold
  <2>2. Len(NewItems) = High(s, n, k + 1) - High(s, n, k)
    BY NewItemsRun
  <2>3. k + 1 \in Nat
    BY <1>3
  <2>4. High(s, n, k) \in Nat /\ High(s, n, k + 1) \in Nat
    BY <1>1, <1>3, <2>3, HighType
  <2> HIDE DEF n, s, w, k
  <2> QED BY <1>1, <2>1, <2>2, <2>4
<1>8. CASE k + 1 <= Count(w, s, n)
  <2> HIDE DEF n, s, w, k
  <2>1. k + 1 \in Nat /\ n # 0
    <3>1. n = 0 => Count(w, s, n) = 0
      BY DEF Count
    <3> QED BY <1>3, <1>8, <3>1
  <2>2. /\ Low(w, s, n, k + 1) \in Nat \ {0} /\ High(s, n, k + 1) \in Nat
        /\ Low(w, s, n, k + 1) <= High(s, n, k + 1) + 1
    BY <1>1, <1>8, <2>1, HeldRange
  <2>3. buffer' \in Seq(Nat)
    BY <1>6, <1>8, <2>2, RunType DEF Held
  <2>4. Low(w, s, n, k + 1) <= High(s, n, k + 1)
    <3> DEFINE ks == k * s
    <3>1. (k + 1) * s = ks + s /\ ks \in Nat
      BY <1>1, <1>3
    <3>2. High(s, n, k + 1) = IF ks + s < n THEN ks + s ELSE n
      BY <3>1 DEF High
    <3>3. Low(w, s, n, k + 1) <= n
      BY <1>1, <1>3, <1>8, <2>1, CountReached
    <3>4. CASE ks + s < n
      <4>1. (k + 1) * s < n
        BY <3>1, <3>4
      <4>2. Low(w, s, n, k + 1) = IF (k + 1) * s > w THEN (k + 1) * s - w + 1 ELSE 1
        BY <1>1, <1>8, <2>1, <4>1, HeldRange
      <4> DEFINE m == (k + 1) * s
      <4>3. Low(w, s, n, k + 1) = IF m > w THEN m - w + 1 ELSE 1
        BY <4>2
      <4>4. m = ks + s
        BY <3>1
      <4>6. ks \in Nat
        BY <3>1
      <4> HIDE DEF ks, m
      <4>5. Low(w, s, n, k + 1) = IF ks + s > w THEN ks + s - w + 1 ELSE 1
        BY <1>1, <4>3, <4>4, <4>6
      <4> QED BY <1>1, <3>1, <3>2, <3>4, <4>5
    <3> QED BY <3>2, <3>3, <3>4
  <2>5. buffer' # <<>>
    <3>1. Len(buffer') = High(s, n, k + 1) - Low(w, s, n, k + 1) + 1
      BY <1>6, <1>8, <2>2, RunType DEF Held
    <3>2. Len(buffer') > 0
      BY <2>2, <2>4, <3>1
    <3> QED BY <3>2, EmptySeq
  <2>6. \E e : output' = Append(output, e)
    BY <2>5 DEF NextFold
  <2>7. spans' = Append(spans, buffer') /\ done' = done
    BY <2>5 DEF NextFold
  <2>8. PICK e : output' = Append(output, e)
    BY <2>6
  <2>9. output' \in Seq(S \cup {e}) /\ Len(output') = k + 1
    <3>1. output \in Seq(S \cup {e}) /\ e \in S \cup {e}
      BY <1>2, SeqMonotonic
    <3> DEFINE T == S \cup {e}
    <3> HIDE DEF T
    <3>2. Append(output, e) \in Seq(T) /\ Len(Append(output, e)) = Len(output) + 1
      BY <3>1, AppendProperties DEF T
    <3> QED BY <2>8, <3>2 DEF k, T
  <2>10. /\ spans' \in Seq(Seq(Nat)) /\ Len(spans') = k + 1
         /\ \A j \in 1 .. k : spans'[j] = spans[j]
         /\ spans'[k + 1] = buffer'
    BY <1>1, <2>3, <2>7, AppendProperties
  <2>11. \A j \in 1 .. k + 1 : spans'[j] = Held(w, s, n, j)
    <3> SUFFICES ASSUME NEW j \in 1 .. k + 1 PROVE spans'[j] = Held(w, s, n, j)
      OBVIOUS
    <3>1. CASE j = k + 1
      BY <1>6, <1>8, <2>10, <3>1
    <3>2. CASE j \in 1 .. k
      BY <1>1, <2>10, <3>2
    <3> QED BY <1>3, <3>1, <3>2
  <2>12. /\ Len(source') = n /\ agg'.step = s /\ agg'.window = w /\ Len(output') = k + 1
         /\ Len(spans') = Len(output')
    BY <1>4, <2>9, <2>10 DEF n, s, w
  <2>13. /\ \E U : output' \in Seq(U)
         /\ ~done' /\ agg' \in Settings /\ Len(source') \in Nat
    BY <1>1, <1>4, <2>7, <2>9, <2>12
  <2>14. buffer' = Held(w, s, n, k + 1)
    BY <1>6, <1>8
  <2> QED BY <1>7, <1>8, <2>10, <2>11, <2>12, <2>13, <2>14 DEF WindowInv
<1>9. CASE ~(k + 1 <= Count(w, s, n))
  <2>1. buffer' = <<>>
    BY <1>6, <1>9
  <2>2. done' = TRUE /\ output' = output /\ spans' = spans
    BY <2>1 DEF NextFold
  <2>3. Count(w, s, n) \in Nat
    <3>1. n = 0 => Count(w, s, n) = 0
      BY DEF Count
    <3>2. n # 0 => Count(w, s, n) \in Nat
      BY <1>1, <1>3, CountReached
    <3> QED BY <3>1, <3>2
  <2>4. k = Count(w, s, n)
    <3> HIDE DEF k, n, s, w
    <3> QED BY <1>1, <1>3, <1>9, <2>3
  <2>5. taken' = High(s, n, k)
    <3>1. k * s < n => k + 1 <= Count(w, s, n)
      <4> SUFFICES ASSUME k * s < n PROVE k + 1 <= Count(w, s, n)
        OBVIOUS
      <4> HIDE DEF k, n, s, w
      <4>1. k * s \in Nat /\ n \in Nat \ {0}
        <5> DEFINE j == k * s
        <5>1. j \in Nat
          BY <1>1, <1>3
        <5>2. j < n
          OBVIOUS
        <5> HIDE DEF j
        <5>3. n # 0
          BY <1>1, <5>1, <5>2
        <5> QED BY <1>1, <5>1, <5>3 DEF j
      <4>2. Low(w, s, n, k + 1) = IF k * s + s > w THEN k * s + s - w + 1 ELSE 1
        BY <1>1, <1>3, LowWhileFound
      <4> DEFINE ks == k * s
      <4>3. Low(w, s, n, k + 1) = IF ks + s > w THEN ks + s - w + 1 ELSE 1
        BY <4>2
      <4>4. ks \in Nat /\ ks < n
        BY <4>1
      <4> HIDE DEF ks
      <4>5. Low(w, s, n, k + 1) <= n
        BY <1>1, <4>3, <4>4
      <4> QED BY <1>1, <1>3, <4>1, <4>5, CountReached
    <3>2. ~(k * s < n) /\ k * s \in Nat
      BY <1>1, <1>3, <1>9, <3>1
    <3> HIDE DEF k, n, s, w
    <3> DEFINE ks == k * s
    <3>3. (k + 1) * s = ks + s /\ ks \in Nat /\ ~(ks < n)
      BY <1>1, <1>3, <3>2
    <3>4. ~((k + 1) * s < n)
      <4> HIDE DEF ks
      <4> QED BY <1>1, <3>3
    <3>5. High(s, n, k) = n /\ High(s, n, k + 1) = n
      BY <1>1, <1>3, <3>2, <3>4, HighType
    <3> QED BY <1>7, <3>5
  <2> QED BY <1>1, <1>2, <1>4, <2>2, <2>4, <2>5 DEF WindowInv
<1> QED BY <1>8, <1>9

\* The frames that are folded are those of the sliding windows, in order, and
\* when the iterator ends there is a fold for each of them (FDCodecIterFold).
THEOREM FoldsSlidingWindows == FoldSpec => []SlidingWindows
<1>1. WindowInv /\ [NextFold]_foldvars => WindowInv'
  <2>1. WindowInv /\ UNCHANGED foldvars => WindowInv'
    BY DEF WindowInv, foldvars
  <2> QED BY <2>1, FoldWindows
<1>2. WindowInv => SlidingWindows
  <2> SUFFICES ASSUME WindowInv PROVE SlidingWindows
    OBVIOUS
  <2>1. DOMAIN spans = 1 .. Len(output)
    BY LenProperties DEF WindowInv
  <2> QED BY <2>1 DEF WindowInv, SlidingWindows, Held, Run
<1> QED BY <1>1, <1>2, InitWindows, PTL DEF FoldSpec
=============================================================================

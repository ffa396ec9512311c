------------------------------ MODULE FdqView -------------------------------
(***************************************************************************)
(* The file view of zzping-gui (fdq_graph.rs, gui.rs): the loading of a    *)
(* FrameDataQ file, which fills its gaps, the caches of folded frames, the *)
(* slice that is drawn for a zoom and a position, and the slider that      *)
(* moves the position until it comes to rest. A frame is its time and the  *)
(* range of frames of the file, fillers counted, that it was folded from.  *)
(***************************************************************************)
EXTENDS Integers, Sequences, SequencesExt, FiniteSetsExt, Windows

CONSTANTS
  PerSec,        \* units of time in a second
  GapSecs,       \* a longer distance between frames is filled
  Window, Step,  \* of iter_fold
  MaxCaches,     \* number of caches at the most
  CacheMin,      \* a cache below this length is the last one
  Limit,         \* total_limit, of the frames drawn
  SubLimit,      \* total_sublimit
  Files,         \* times of the frames of the files
  Zooms,         \* values of zoomx
  PosUnits,      \* posx in units: 0 .. PosUnits is 0.0 .. 1.0
  Rest, MaxDx,   \* posdx in units: it rests at Rest, and goes up to MaxDx
  MaxMoves       \* bound of the moves of the sliders

ASSUME ScaleAssumption ==
  /\ PerSec \in Nat \ {0}
  /\ GapSecs \in Nat \ {0}
  /\ Step \in Nat \ {0}
  /\ Window \in Nat
  /\ Window >= Step
  /\ MaxCaches \in Nat \ {0}
  /\ CacheMin \in Nat
  /\ SubLimit \in Nat \ {0}
  /\ Limit \in Nat
  /\ Limit >= 2 * SubLimit

\* The files are of times after the first second of 1970: for load_file a time
\* of zero is that of no frame.
ASSUME InputAssumption ==
  /\ Files \subseteq Seq(Nat)
  /\ \A f \in Files : \A i \in DOMAIN f : f[i] >= PerSec
  /\ Zooms \subseteq Nat \ {0}
  /\ 1 \in Zooms
  /\ PosUnits \in Nat \ {0}
  /\ Rest \in Nat
  /\ MaxDx \in Nat
  /\ MaxMoves \in Nat

VARIABLES
  file,      \* the times of the frames in the file
  place,     \* number of frames read
  fd,        \* the frames with the gaps filled
  fdcache,   \* the caches, each folded from the one before
  phase,     \* "load", "cache" or "view"
  zoomx, posx, posdx,
  moves

vars == <<file, place, fd, fdcache, phase, zoomx, posx, posdx, moves>>
sliders == <<zoomx, posx, posdx, moves>>

Frame == [t : Nat, from : Nat, to : Nat]

\* The timestamp of a time: its whole seconds.
Timestamp(t) == t \div PerSec
Positions == 0 .. PosUnits

-----------------------------------------------------------------------------
(* load_file.                                                              *)

Init ==
  /\ file \in Files
  /\ place = 0
  /\ fd = <<>>
  /\ fdcache = <<>>
  /\ phase = "load"
  /\ zoomx = 1
  /\ posx = PosUnits \div 2
  /\ posdx = 0
  /\ moves = 0

\* Fault: the fillers go on past the next frame.
FillersPastNext(last, ts) ==
  IF last > 0 /\ ts - last > GapSecs
  THEN [i \in 1 .. ts - last + 1 |-> (last + i) * PerSec]
  ELSE <<>>

\* One filler per second, from the one after the last frame to two before ts.
Fillers(last, ts) ==
  IF last > 0 /\ ts - last > GapSecs
  THEN [i \in 1 .. ts - last - 2 |-> (last + i) * PerSec]
  ELSE <<>>

Unfolded(times, n) == [i \in DOMAIN times |-> [t |-> times[i], from |-> n + i, to |-> n + i]]

ReadFrame ==
  /\ phase = "load"
  /\ place < Len(file)
  /\ place' = place + 1
  /\ LET last == IF place = 0 THEN 0 ELSE Timestamp(file[place])
         times == Append(Fillers(last, Timestamp(file[place'])), file[place']) IN
       fd' = fd \o Unfolded(times, Len(fd))
  /\ UNCHANGED <<file, fdcache, phase, sliders>>

Loaded ==
  /\ phase = "load"
  /\ place = Len(file)
  /\ phase' = "cache"
  /\ UNCHANGED <<file, place, fd, fdcache, sliders>>

\* fold_vec, of frames in a row.
FoldVec(s) ==
  [t |-> FoldLeft(+, 0, [i \in DOMAIN s |-> s[i].t]) \div Len(s),
   from |-> Min({f.from : f \in ToSet(s)}),
   to |-> Max({f.to : f \in ToSet(s)})]

IterFold(s) ==
  [k \in 1 .. Count(Window, Step, Len(s)) |->
     FoldVec(SubSeq(s, Low(Window, Step, Len(s), k), High(Step, Len(s), k)))]

AddCache ==
  /\ phase = "cache"
  /\ LET cache == IterFold(IF fdcache = <<>> THEN fd ELSE Last(fdcache)) IN
       /\ fdcache' = Append(fdcache, cache)
       /\ phase' = IF Len(fdcache') = MaxCaches \/ Len(cache) < CacheMin THEN "view" ELSE phase
  /\ UNCHANGED <<file, place, fd, sliders>>

-----------------------------------------------------------------------------
(* update: the messages of the sliders and of the timer.                   *)

ZoomXSliderChanged ==
  /\ phase = "view"
  /\ moves < MaxMoves
  /\ moves' = moves + 1
  /\ zoomx' \in Zooms \ {zoomx}
  /\ UNCHANGED <<file, place, fd, fdcache, phase, posx, posdx>>

PosDXSliderChanged ==
  /\ phase = "view"
  /\ moves < MaxMoves
  /\ moves' = moves + 1
  /\ posdx' \in (-MaxDx .. MaxDx) \ {posdx}
  /\ UNCHANGED <<file, place, fd, fdcache, phase, zoomx, posx>>

Clamped(x) == Max({0, Min({PosUnits, x})})
Signum(x) == IF x < 0 THEN -1 ELSE 1

\* Fault: the slider slows down by the zoom.
SlowerByZoom(x) == x - Signum(x) * (1 \div zoomx)
Slower(x) == x - Signum(x)
Moving == posdx < -Rest \/ posdx > Rest

\* A tick moves the position by an amount that depends on the zoom, none if it
\* is below the precision of posx, and slows the slider down; at Rest itself
\* the rounding decides whether it stops.
Tick ==
  /\ phase = "view"
  /\ Moving
  /\ \E dx \in 0 .. 2 : posx' = Clamped(posx + Signum(posdx) * dx)
  /\ LET slower == Slower(posdx) IN
       \/ posdx' = slower /\ slower \notin -Rest + 1 .. Rest - 1
       \/ posdx' = 0 /\ slower \in -Rest .. Rest
  /\ UNCHANGED <<file, place, fd, fdcache, phase, zoomx, moves>>

Load == ReadFrame \/ Loaded \/ AddCache
Next == Load \/ ZoomXSliderChanged \/ PosDXSliderChanged \/ Tick

Spec == Init /\ [][Next]_vars /\ WF_vars(Load) /\ WF_vars(Tick)

-----------------------------------------------------------------------------
(* draw.                                                                   *)

\* Fault: the finest cache is taken.
FinestLevel ==
  LET detailed == {l \in DOMAIN fdcache : Len(fdcache[l]) > Limit * zoomx} IN
  IF detailed = {} THEN 0 ELSE Min(detailed)

TotalCache == (Limit * 3) \div 2

\* The last cache that still has enough frames for the zoom; 0 is fd itself.
Level ==
  LET detailed == {l \in DOMAIN fdcache : Len(fdcache[l]) > TotalCache * zoomx} IN
  IF detailed = {} THEN 0 ELSE Max(detailed)
LevelFrames(l) == IF l = 0 THEN fd ELSE fdcache[l]

\* Fault: the zoom is not limited.
SliceLenUnlimited(n) == (2 * n + zoomx) \div (2 * zoomx)

\* The length of the slice: n / zoomx, rounded, with zoomx at most n / 2.
SliceLen(n) == IF 2 * zoomx > n THEN 2 ELSE (2 * n + zoomx) \div (2 * zoomx)

\* Fault: the position is that of the beginning in the whole recording.
ZeroOfAll(n) == Min({(n * posx) \div PosUnits, n - SliceLen(n)})

\* Where the slice begins, and the slice.
Zero(n) == ((n - SliceLen(n)) * posx) \div PosUnits
Slice(s) == SubSeq(s, Zero(Len(s)) + 1, Zero(Len(s)) + SliceLen(Len(s)))

\* Chunks of "step" frames, then windows of "substep" chunks.
ChunkStep(n) == Max({n \div Limit, 1})
SubStep(n) == Max({Min({(n * SubLimit) \div Limit, SubLimit}), 1})
Chunks(s, step) ==
  [k \in 1 .. (Len(s) + step - 1) \div step |->
     FoldVec(SubSeq(s, (k - 1) * step + 1, Min({k * step, Len(s)})))]
WindowsOf(s, size) ==
  [k \in 1 .. Len(s) - size + 1 |-> FoldVec(SubSeq(s, k, k + size - 1))]

Drawn(s) == WindowsOf(Chunks(s, ChunkStep(Len(s))), SubStep(Len(s)))
Shown == Slice(LevelFrames(Level))
Points == Drawn(Shown)

-----------------------------------------------------------------------------
(* Properties.                                                             *)

InOrder(s) == \A i \in 2 .. Len(s) : s[i - 1].t <= s[i].t
FileInOrder == \A i \in 2 .. Len(file) : file[i - 1] <= file[i]

\* Loading leaves no gap and loses no frame, and where the times of the file
\* do not go back those of its frames and fillers together do not either.
GapsFilled ==
  /\ \A i \in 1 .. place : \E f \in ToSet(fd) : f.t = file[i]
  /\ \A i \in 2 .. Len(fd) :
       Timestamp(fd[i].t) - Timestamp(fd[i - 1].t) <= Max({2, GapSecs})
  /\ FileInOrder => InOrder(fd)

\* The windows of the folds of cache l end a stride of frames apart, and a whole
\* one spans so many frames.
FoldOf[l \in 0 .. MaxCaches] ==
  IF l = 0 THEN [stride |-> 1, span |-> 1]
  ELSE LET finer == FoldOf[l - 1] IN
         [stride |-> Step * finer.stride, span |-> finer.span + (Window - 1) * finer.stride]

SpanOf(l) == FoldOf[l].span

\* Whatever cache is drawn from, what is seen is the part of the recording that
\* the zoom and the position select, a share of 1/zoomx of the frames with the
\* share posx of the rest on its left, but for the length of a fold at each end.
SameView ==
  (phase = "view" /\ Len(fd) >= 2) =>
    LET len == Max({2, Len(fd) \div zoomx})
        left == ((Len(fd) - len) * posx) \div PosUnits IN
    /\ Head(Shown).from - (left + 1) \in -SpanOf(Level) .. SpanOf(Level)
    /\ Last(Shown).to - (left + len) \in -SpanOf(Level) .. SpanOf(Level)

\* However long the recording, a frame of the GUI folds no more than this,
\* unless the coarsest cache is too long already.
WorkBounded ==
  (phase = "view" /\ Len(fd) >= 2) =>
    \/ Len(Shown) <= Max({Step * TotalCache, CacheMin}) + 1
    \/ Len(fdcache) = MaxCaches /\ Level = MaxCaches

\* Drawing does not panic: the slice is inside the frames, some points are
\* left of it, and the width of the view is not negative. It takes two frames
\* at least, and times that do not go back.
NoPanic ==
  (phase = "view" /\ Len(fd) >= 2 /\ FileInOrder) =>
    LET n == Len(LevelFrames(Level)) IN
    /\ SliceLen(n) <= n /\ Zero(n) + SliceLen(n) <= n
    /\ Points # <<>> /\ Head(Points).t <= Last(Points).t

\* The file is loaded, and the position comes to rest when the slider is let
\* go.
ComesToRest == <>(phase = "view") /\ <>[]~Moving
=============================================================================

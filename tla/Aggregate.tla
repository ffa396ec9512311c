----------------------------- MODULE Aggregate ------------------------------
(***************************************************************************)
(* The aggregation of zzping-lib/src/framedataq.rs: FDCodecIterFold, which *)
(* slides a window over the frames of a file, and fold_vec, which makes    *)
(* one frame of a window. fdqread writes the folds to a file, the GUI      *)
(* draws them. A frame is its time, its number of replies and the least    *)
(* and the largest of its percentiles, which fold_vec merges from all      *)
(* frames of a window.                                                     *)
(***************************************************************************)
EXTENDS Integers, Sequences, SequencesExt, FiniteSetsExt, Windows

CONSTANTS
  Settings,    \* records of agg_window and agg_step
  Gaps,        \* times between two frames of a file
  Bands,       \* replies and percentiles of a frame
  MaxFrames,   \* bound of the frames in a file
  MaxFolds     \* bound of the folds, more than a file yields

\* FDCodecIterFold::from_iter asserts window >= step.
ASSUME SettingsAssumption ==
  \A s \in Settings : s.window \in Nat /\ s.step \in Nat \ {0} /\ s.window >= s.step

ASSUME FileAssumption ==
  /\ Gaps \subseteq Nat
  /\ Bands \subseteq [len : Nat, lo : Int, hi : Int]
  /\ MaxFrames \in Nat
  /\ MaxFolds \in Nat

VARIABLES
  agg,       \* the setting
  source,    \* the frames of the file
  taken,     \* number of frames that were read
  buffer,    \* the window, by places in source, oldest first
  output,    \* the folds
  spans,     \* spans[k]: the window that fold k was made of
  done       \* next has returned None

foldvars == <<agg, source, taken, buffer, output, spans, done>>

Frame == [t : Nat, len : Nat, lo : Int, hi : Int]

-----------------------------------------------------------------------------
(* FrameDataQ::fold_vec.                                                   *)

Total(s) == FoldLeft(+, 0, s)
Times(s) == [i \in DOMAIN s |-> s[i].t]
Replies(s) == [i \in DOMAIN s |-> s[i].len]

MeanTime(s) == Total(Times(s)) \div Len(s)
MeanReplies(s) == Total(Replies(s)) \div Len(s)

\* Negative percentiles, those of a frame without replies, are left out.
FoldVec(s) ==
  LET known == {f \in ToSet(s) : f.lo >= 0} IN
  [t |-> MeanTime(s),
   len |-> MeanReplies(s),
   lo |-> IF known = {} THEN -1 ELSE Min({f.lo : f \in known}),
   hi |-> IF known = {} THEN -1 ELSE Max({f.hi : f \in known})]

-----------------------------------------------------------------------------
(* FDCodecIterFold.                                                        *)

FoldInit ==
  /\ agg \in Settings
  /\ \E n \in 0 .. MaxFrames : \E gaps \in [1 .. n -> Gaps], bands \in [1 .. n -> Bands] :
       source = [i \in 1 .. n |->
                   bands[i] @@ [t |-> FoldFunctionOnSet(+, 0, gaps, 1 .. i)]]
  /\ taken = 0
  /\ buffer = <<>>
  /\ output = <<>>
  /\ spans = <<>>
  /\ done = FALSE

\* The places of the frames that take(step) collects.
NewItems == [i \in 1 .. Min({agg.step, Len(source) - taken}) |-> taken + i]

\* Faults: a source that has ended is treated like any other; the newest frames
\* leave.
ToRemoveRunning(new) == Len(buffer) + agg.step - agg.window
WithoutNewest(n) == IF n <= 0 THEN buffer ELSE SubSeq(buffer, 1, Len(buffer) - n)

\* How many frames leave the window, and what stays of it.
ToRemove(new) == IF new = <<>> THEN agg.step ELSE Len(buffer) + agg.step - agg.window
Without(n) == IF n <= 0 THEN buffer ELSE SubSeq(buffer, n + 1, Len(buffer))

NextFold ==
  /\ ~done
  /\ Len(output) < MaxFolds
  /\ taken' = taken + Len(NewItems)
  /\ buffer' = Without(ToRemove(NewItems)) \o NewItems
  /\ IF buffer' = <<>>
     THEN done' = TRUE /\ UNCHANGED <<output, spans>>
     ELSE /\ output' = Append(output, FoldVec([i \in DOMAIN buffer' |-> source[buffer'[i]]]))
          /\ spans' = Append(spans, buffer')
          /\ UNCHANGED done
  /\ UNCHANGED <<agg, source>>

FoldSpec == FoldInit /\ [][NextFold]_foldvars /\ WF_foldvars(NextFold)

-----------------------------------------------------------------------------
(* FrameDataQ::try_to_rmp: the percentiles of a frame without replies are  *)
(* not written.                                                            *)

Written(f) == IF f.len > 0 THEN f ELSE [f EXCEPT !.lo = -1, !.hi = -1]

-----------------------------------------------------------------------------
(* Properties.                                                             *)

\* The frames that were folded are those of the sliding windows, in order, and
\* the length of the file, the window and the step say how many folds there are.
SlidingWindows ==
  LET n == Len(source) IN
  /\ \A k \in DOMAIN spans :
       LET low == Low(agg.window, agg.step, n, k) IN
       spans[k] = [i \in 1 .. High(agg.step, n, k) - low + 1 |-> low + i - 1]
  /\ Len(output) <= Count(agg.window, agg.step, n)
  /\ done => Len(output) = Count(agg.window, agg.step, n)

\* The iterator ends on every file.
Ends == <>done

\* "to extract percentiles from N frames and dump a single frame"
\* (zzping-lib/README.md:40): a fold that has percentiles is written with them.
PercentilesWritten ==
  \A k \in DOMAIN output : output[k].lo >= 0 => Written(output[k]).lo >= 0
=============================================================================

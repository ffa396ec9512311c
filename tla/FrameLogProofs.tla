--------------------------- MODULE FrameLogProofs ---------------------------
(***************************************************************************)
(* The disk log, for all timers, hours, buffers, clocks, kills and starts: *)
(*  - every log file begins with a full frame: a file is empty only while  *)
(*    the report timer has run out (FileInv);                              *)
(*  - a file is read back right and in order: the frames of a file, and    *)
(*    the timers with its last frame (FrameInv);                           *)
(*  - a file only grows: while the clock is not set, no later hour has a   *)
(*    file (HourInv);                                                      *)
(*  - a reply is written to two frames at most, and to one at least when   *)
(*    both threads keep up: the age of a queued reply in each phase of the *)
(*    loop (ReplyInv, FreshInv).                                           *)
(***************************************************************************)
EXTENDS FrameLog, SequenceTheorems, TLAPS

Entry == [full : BOOLEAN, time : Int, at : Int, skew : Int]

\* The part of the types that the frames depend on.
LogType ==
  /\ now \in Int /\ skew \in Nat
  /\ pc \in {"recv", "timer", "write", "down"}
  /\ last_refresh \in Int /\ time_since_report \in Int /\ since_report_elapsed \in Int
  /\ files \in [Hours -> Seq(Entry)]
  /\ pending \in Seq(Entry)
  /\ pc = "down" => pending = <<>>

\* While the current file is empty the report timer has run out.
EmptyDue ==
  strnow \in Hours /\ Content(strnow) = <<>> =>
    /\ pc \in {"recv", "timer"} => now - time_since_report > ReportEvery
    /\ pc = "write" => since_report_elapsed > ReportEvery

FileInv == LogType /\ EmptyDue /\ FirstFrameFull

USE TimerAssumption, ClockAssumption, LogBoundAssumption
USE DEF TimerAssumption, ClockAssumption, LogBoundAssumption

-----------------------------------------------------------------------------
LEMMA InitLog == Init => FileInv
<1> SUFFICES ASSUME Init PROVE FileInv
  OBVIOUS
<1>1. LogType
  BY DEF Init, LogType
<1>2. \A h \in Hours : Content(h) = <<>>
  BY DEF Init, Content
<1> QED
  BY <1>1, <1>2 DEF Init, FileInv, EmptyDue, FirstFrameFull
-----------------------------------------------------------------------------
(* The types.                                                              *)

LEMMA RefreshType == LogType /\ RefreshStart => LogType'
<1> SUFFICES ASSUME LogType, RefreshStart PROVE LogType'
  OBVIOUS
<1>1. /\ now' = now /\ skew' = skew /\ pc' = "write" /\ last_refresh' = now
      /\ since_report_elapsed' = now - time_since_report
      /\ time_since_report' \in {now, time_since_report}
  BY DEF RefreshStart, ReportTimer, clocks
<1>2. CreateLogFile \/ (files' = files /\ pending' = pending)
  BY DEF RefreshStart, disk
<1>3. files' \in [Hours -> Seq(Entry)] /\ pending' \in Seq(Entry)
  <2>1. CASE CreateLogFile
    <3> DEFINE flushed == [files EXCEPT ![strnow] = @ \o pending]
    <3>1. \A g \in Hours : files[g] \o pending \in Seq(Entry)
      BY ConcatProperties DEF LogType
    <3>2. flushed \in [Hours -> Seq(Entry)]
      BY <3>1 DEF LogType
    <3>3. files' = [flushed EXCEPT ![LogfileNow] = <<>>] /\ pending' = <<>>
      BY <2>1 DEF CreateLogFile
    <3> HIDE DEF flushed
    <3>4. <<>> \in Seq(Entry)
      BY EmptySeq
    <3> QED
      BY <3>2, <3>3, <3>4
  <2> QED
    BY <1>2, <2>1 DEF LogType
<1> QED
  BY <1>1, <1>3 DEF LogType

LEMMA NewFrameType ==
  ASSUME LogType
  PROVE  NewFrame \in Entry
<1>1. IsFull \in BOOLEAN /\ Wall \in Int
  BY DEF IsFull, Wall, LogType
<1> QED
  BY <1>1 DEF NewFrame, Entry, LogType

\* Writing a frame adds it to the content of the current file.
LEMMA WriteAppends ==
  ASSUME LogType, WriteFrame
  PROVE  /\ files' \in [Hours -> Seq(Entry)]
         /\ pending' \in Seq(Entry)
         /\ \A h \in Hours :
              Content(h)' = IF h = strnow THEN Append(Content(h), NewFrame) ELSE Content(h)
<1>1. NewFrame \in Entry
  BY NewFrameType
<1>2. strnow' = strnow /\ files' = [files EXCEPT ![strnow] = @ \o Spilled]
  BY DEF WriteFrame
<1>3. files \in [Hours -> Seq(Entry)] /\ pending \in Seq(Entry)
  BY DEF LogType
<1>4. <<NewFrame>> \in Seq(Entry) /\ \A g \in Hours : files[g] \o pending \in Seq(Entry)
  BY <1>1, <1>3, ConcatProperties
<1>5. \A h \in Hours : Content(h) = IF h = strnow THEN files[h] \o pending ELSE files[h]
  BY <1>3, ConcatEmptySeq DEF Content
<1>6. CASE Spilled = pending
  <2>1. pending' = <<NewFrame>>
    <3>1. SubSeq(pending, Len(pending) + 1, Len(pending)) = <<>>
      BY <1>3, SubSeqEmpty, LenProperties
    <3>2. Append(<<>>, NewFrame) = <<NewFrame>>
      BY <1>1, <1>4, AppendIsConcat, ConcatEmptySeq, EmptySeq
    <3>3. pending' = Append(SubSeq(pending, Len(pending) + 1, Len(pending)), NewFrame)
      BY <1>6 DEF WriteFrame
    <3> QED
      BY <3>1, <3>2, <3>3
  <2>2. files' = [files EXCEPT ![strnow] = @ \o pending]
    BY <1>2, <1>6
  <2>3. files' \in [Hours -> Seq(Entry)]
    BY <1>3, <1>4, <2>2
  <2>4. pending' \in Seq(Entry)
    BY <1>4, <2>1
  <2>5. ASSUME NEW h \in Hours, h = strnow
        PROVE  Content(h)' = Append(Content(h), NewFrame)
    <3>1. files'[h] = files[h] \o pending
      BY <1>3, <2>2, <2>5
    <3>2. Content(h)' = (files[h] \o pending) \o <<NewFrame>>
      BY <1>2, <2>1, <2>5, <3>1 DEF Content
    <3> QED
      BY <1>1, <1>4, <1>5, <2>5, <3>2, AppendIsConcat
  <2>6. ASSUME NEW h \in Hours, h # strnow
        PROVE  Content(h)' = Content(h)
    <3>1. files'[h] = files[h]
      BY <1>3, <2>2, <2>6
    <3>2. Content(h)' = files[h] \o <<>>
      BY <1>2, <2>6, <3>1 DEF Content
    <3> QED
      BY <1>3, <1>5, <2>6, <3>2, ConcatEmptySeq
  <2> QED
    BY <2>3, <2>4, <2>5, <2>6
<1>7. CASE Spilled = <<>>
  <2>1. pending' = Append(pending, NewFrame)
    <3>1. Len(Spilled) = 0 /\ SubSeq(pending, 1, Len(pending)) = pending
      BY <1>3, <1>7, SubSeqFull, EmptySeq
    <3> QED
      BY <3>1 DEF WriteFrame
  <2>2. files' = files
    <3>1. \A g \in Hours : files[g] \o <<>> = files[g]
      BY <1>3, ConcatEmptySeq
    <3> QED
      BY <1>2, <1>3, <1>7, <3>1
  <2>3. pending' \in Seq(Entry)
    BY <1>1, <1>3, <2>1, AppendProperties
  <2>4. ASSUME NEW h \in Hours, h = strnow
        PROVE  Content(h)' = Append(Content(h), NewFrame)
    <3>1. Content(h)' = files[h] \o (pending \o <<NewFrame>>)
      BY <1>1, <1>2, <1>3, <2>1, <2>2, <2>4, AppendIsConcat DEF Content
    <3>2. Content(h)' = (files[h] \o pending) \o <<NewFrame>>
      BY <1>3, <1>4, <3>1, ConcatAssociative
    <3> QED
      BY <1>1, <1>4, <1>5, <2>4, <3>2, AppendIsConcat
  <2>5. ASSUME NEW h \in Hours, h # strnow
        PROVE  Content(h)' = Content(h)
    <3>1. Content(h)' = files[h] \o <<>>
      BY <1>2, <2>2, <2>5 DEF Content
    <3> QED
      BY <1>3, <1>5, <2>5, <3>1, ConcatEmptySeq
  <2> QED
    BY <1>3, <2>2, <2>3, <2>4, <2>5
<1> QED
  BY <1>6, <1>7 DEF Spilled

LEMMA TypeStep == LogType /\ [Next]_vars => LogType'
<1> SUFFICES ASSUME LogType, [Next]_vars PROVE LogType'
  OBVIOUS
<1> USE DEF LogType, queues, timers, disk, history, clocks
<1>1. CASE Reply \/ Sync
  BY <1>1 DEF Reply, Sync
<1>2. CASE Drain
  BY <1>2 DEF Drain
<1>3. CASE NotYet
  BY <1>3 DEF NotYet
<1>4. CASE RefreshStart
  BY <1>4, RefreshType
<1>5. CASE WriteFrame
  BY <1>5, WriteAppends DEF WriteFrame
<1>6. CASE Kill
  <2>1. <<>> \in Seq(Entry)
    BY EmptySeq
  <2> QED
    BY <1>6, <2>1 DEF Kill
<1>7. CASE Restart
  <2>1. <<>> \in Seq(Entry)
    BY EmptySeq
  <2>2. files' \in [Hours -> Seq(Entry)] /\ pending' \in Seq(Entry)
    BY <1>7, <2>1 DEF Restart
  <2>3. now - Long \in Int
    OBVIOUS
  <2> QED
    BY <1>7, <2>2, <2>3 DEF Restart
<1>8. CASE SetClock
  BY <1>8 DEF SetClock
<1>9. CASE Tick
  BY <1>9 DEF Tick
<1>10. CASE UNCHANGED vars
  BY <1>10 DEF vars
<1> QED
  BY <1>1, <1>2, <1>3, <1>4, <1>5, <1>6, <1>7, <1>8, <1>9, <1>10 DEF Next, Main

-----------------------------------------------------------------------------
(* The frames.                                                             *)

\* What a step that writes nothing does to the content of the files.
LEMMA RefreshContent ==
  ASSUME LogType, RefreshStart, NEW h \in Hours
  PROVE  \/ Content(h)' = <<>>
         \/ Content(h)' = Content(h) /\ (strnow' = strnow \/ h # strnow')
<1> USE DEF LogType
<1>1. CASE UNCHANGED disk
  BY <1>1 DEF Content, disk
<1>2. CASE CreateLogFile
  <2>1. strnow' = LogfileNow /\ pending' = <<>>
    BY <1>2 DEF CreateLogFile
  <2> DEFINE flushed == [files EXCEPT ![strnow] = @ \o pending]
  <2>2. files' = [flushed EXCEPT ![LogfileNow] = <<>>] /\ flushed \in [Hours -> Seq(Entry)]
    <3>1. \A g \in Hours : files[g] \o pending \in Seq(Entry)
      BY ConcatProperties
    <3> QED
      BY <1>2, <3>1 DEF CreateLogFile
  <2>3. Content(h)' = files'[h] \o <<>>
    BY <2>1 DEF Content
  <2>4. CASE h = LogfileNow
    <3>1. files'[h] = <<>>
      BY <2>2, <2>4
    <3> QED
      BY <2>3, <3>1, ConcatEmptySeq, EmptySeq
  <2>5. CASE h # LogfileNow
    <3>1. files'[h] = flushed[h]
      BY <2>2, <2>5
    <3>2. flushed[h] = Content(h)
      BY ConcatEmptySeq DEF Content
    <3> HIDE DEF flushed
    <3>3. Content(h)' = flushed[h]
      BY <2>2, <2>3, <3>1, ConcatEmptySeq
    <3> QED
      BY <2>1, <2>5, <3>2, <3>3
  <2> QED
    BY <2>4, <2>5
<1> QED
  BY <1>1, <1>2 DEF RefreshStart

LEMMA RefreshStep == FileInv /\ RefreshStart => FirstFrameFull' /\ EmptyDue'
<1> SUFFICES ASSUME FileInv, RefreshStart PROVE FirstFrameFull' /\ EmptyDue'
  OBVIOUS
<1>1. LogType /\ FirstFrameFull /\ EmptyDue
  BY DEF FileInv
<1>2. FirstFrameFull'
  BY <1>1, RefreshContent DEF FirstFrameFull
<1>3. ASSUME strnow' \in Hours, Content(strnow)' = <<>>
      PROVE  since_report_elapsed' > ReportEvery
  <2>1. pc = "timer" /\ since_report_elapsed' = now - time_since_report
    BY DEF RefreshStart
  <2>2. CASE UNCHANGED disk
    <3>1. strnow \in Hours /\ Content(strnow) = <<>>
      BY <1>3, <2>2 DEF Content, disk
    <3> QED
      BY <1>1, <2>1, <3>1 DEF EmptyDue
  <2>3. CASE Rotates(now - time_since_report)
    BY <2>1, <2>3 DEF Rotates
  <2> QED
    BY <2>2, <2>3 DEF RefreshStart
<1>4. pc' = "write"
  BY DEF RefreshStart
<1> QED
  BY <1>2, <1>3, <1>4 DEF EmptyDue

LEMMA WriteStep == FileInv /\ WriteFrame => FirstFrameFull' /\ EmptyDue'
<1> SUFFICES ASSUME FileInv, WriteFrame PROVE FirstFrameFull' /\ EmptyDue'
  OBVIOUS
<1>1. LogType /\ FirstFrameFull /\ EmptyDue /\ pc = "write" /\ strnow' = strnow
  BY DEF FileInv, WriteFrame
<1>2. NewFrame \in Entry /\ NewFrame.full = IsFull
  BY <1>1, NewFrameType DEF NewFrame
<1>3. ASSUME NEW h \in Hours PROVE Content(h) \in Seq(Entry)
  <2>1. files[h] \in Seq(Entry) /\ pending \in Seq(Entry)
    BY <1>1 DEF LogType
  <2> QED
    BY <2>1, ConcatProperties, ConcatEmptySeq DEF Content
<1>4. ASSUME NEW h \in Hours, h = strnow
      PROVE  Content(h)' # <<>> /\ Content(h)'[1].full
  <2>1. Content(h)' = Append(Content(h), NewFrame)
    BY <1>1, <1>4, WriteAppends
  <2>2. CASE Content(h) = <<>>
    <3>1. IsFull
      BY <1>1, <1>4, <2>2 DEF EmptyDue, IsFull
    <3>2. Len(Content(h)) = 0 /\ Content(h)'[1] = NewFrame
      BY <1>2, <1>3, <2>1, <2>2, EmptySeq, AppendProperties
    <3>3. Content(h)' # <<>>
      BY <1>2, <1>3, <2>1, AppendProperties
    <3> QED
      BY <1>2, <3>1, <3>2, <3>3
  <2>3. CASE Content(h) # <<>>
    <3>1. Len(Content(h)) \in Nat \ {0}
      BY <1>3, <2>3, EmptySeq
    <3>2. Content(h)'[1] = Content(h)[1]
      BY <1>2, <1>3, <2>1, <3>1, AppendProperties
    <3> QED
      BY <1>1, <1>2, <1>3, <2>1, <2>3, <3>2, AppendProperties DEF FirstFrameFull
  <2> QED
    BY <2>2, <2>3
<1>5. ASSUME NEW h \in Hours, h # strnow PROVE Content(h)' = Content(h)
  BY <1>1, <1>5, WriteAppends
<1>6. FirstFrameFull'
  BY <1>1, <1>4, <1>5 DEF FirstFrameFull
<1>7. EmptyDue'
  BY <1>1, <1>4 DEF EmptyDue
<1> QED
  BY <1>6, <1>7

\* A kill cuts a file short, at its end.
LEMMA KillStep == FileInv /\ Kill => FirstFrameFull' /\ EmptyDue'
<1> SUFFICES ASSUME FileInv, Kill PROVE FirstFrameFull' /\ EmptyDue'
  OBVIOUS
<1>1. LogType /\ FirstFrameFull /\ pc' = "down" /\ files' = files /\ pending' = <<>>
  BY DEF FileInv, Kill
<1>2. ASSUME NEW h \in Hours, Content(h)' # <<>> PROVE Content(h)'[1].full
  <2>1. files[h] \in Seq(Entry) /\ pending \in Seq(Entry)
    BY <1>1 DEF LogType
  <2>2. Content(h)' = files[h]
    BY <1>1, <2>1, ConcatEmptySeq DEF Content
  <2>3. Len(files[h]) \in Nat \ {0}
    BY <1>2, <2>1, <2>2, EmptySeq
  <2>4. Content(h) = files[h] \o (IF h = strnow THEN pending ELSE <<>>)
    BY DEF Content
  <2>5. Content(h) # <<>> /\ Content(h)[1] = files[h][1]
    <3> DEFINE rest == IF h = strnow THEN pending ELSE <<>>
    <3>1. rest \in Seq(Entry)
      BY <2>1, EmptySeq
    <3>2. Content(h) = files[h] \o rest
      BY <2>4
    <3> HIDE DEF rest
    <3>3. 1 \in 1 .. Len(files[h]) + Len(rest)
      BY <2>1, <2>3, <3>1, LenProperties
    <3>4. (files[h] \o rest)[1] = files[h][1]
      BY <2>1, <2>3, <3>1, <3>3, ConcatProperties
    <3>5. files[h] \o rest # <<>>
      BY <2>1, <2>3, <3>1, ConcatEqualIffEmpty, EmptySeq
    <3> QED
      BY <3>2, <3>4, <3>5
  <2> QED
    BY <1>1, <2>2, <2>5 DEF FirstFrameFull
<1>3. FirstFrameFull'
  BY <1>2 DEF FirstFrameFull
<1> QED
  BY <1>1, <1>3 DEF EmptyDue

LEMMA RestartStep == FileInv /\ Restart => FirstFrameFull' /\ EmptyDue'
<1> SUFFICES ASSUME FileInv, Restart PROVE FirstFrameFull' /\ EmptyDue'
  OBVIOUS
<1>1. LogType /\ FirstFrameFull
  BY DEF FileInv
<1>2. pending = <<>> /\ pending' = <<>> /\ pc' = "recv" /\ now' = now
      /\ time_since_report' = now - Long /\ now \in Int
  BY <1>1 DEF Restart, LogType, clocks
<1>3. ASSUME NEW h \in Hours
      PROVE  Content(h)' = files'[h] /\ Content(h) = files[h] /\ files'[h] \in {<<>>, files[h]}
  <2>1. files[h] \in Seq(Entry) /\ files'[h] \in {<<>>, files[h]}
    BY <1>1 DEF Restart, LogType
  <2>2. files'[h] \in Seq(Entry)
    BY <2>1, EmptySeq
  <2> QED
    BY <1>2, <2>1, <2>2, ConcatEmptySeq DEF Content
<1>4. FirstFrameFull'
  BY <1>1, <1>3 DEF FirstFrameFull
<1>5. now' - time_since_report' > ReportEvery
  BY <1>2
<1> QED
  BY <1>2, <1>4, <1>5 DEF EmptyDue

\* A timer that has run out stays so.
LEMMA StillDue ==
  ASSUME NEW t \in Int, NEW u, NEW since \in Int, NEW period \in Nat,
         u = t \/ u = t + 1, t - since > period
  PROVE  u - since > period
<1>1. CASE u = t
  BY <1>1
<1>2. CASE u = t + 1
  BY <1>2
<1> QED
  BY <1>1, <1>2

\* The other steps leave the files and the timers alone; time only helps.
LEMMA QuietStep ==
  FileInv /\ (Reply \/ Sync \/ Drain \/ NotYet \/ SetClock \/ Tick \/ UNCHANGED vars)
    => FirstFrameFull' /\ EmptyDue'
<1> SUFFICES ASSUME FileInv,
                    Reply \/ Sync \/ Drain \/ NotYet \/ SetClock \/ Tick \/ UNCHANGED vars
             PROVE  FirstFrameFull' /\ EmptyDue'
  OBVIOUS
<1>1. /\ files' = files /\ pending' = pending /\ strnow' = strnow
      /\ time_since_report' = time_since_report /\ since_report_elapsed' = since_report_elapsed
      /\ now' \in {now, now + 1}
      /\ pc' = "write" => pc = "write"
      /\ pc' \in {"recv", "timer"} => pc \in {"recv", "timer"}
  BY DEF Reply, Sync, Drain, NotYet, SetClock, Tick, vars, disk, timers, clocks
<1>2. \A h \in Hours : Content(h)' = Content(h)
  BY <1>1 DEF Content
<1>3. now \in Int /\ time_since_report \in Int
  BY DEF FileInv, LogType
<1>4. FirstFrameFull'
  BY <1>2 DEF FileInv, FirstFrameFull
<1>5. ASSUME strnow' \in Hours, Content(strnow)' = <<>>
      PROVE  /\ pc' \in {"recv", "timer"} => now' - time_since_report' > ReportEvery
             /\ pc' = "write" => since_report_elapsed' > ReportEvery
  <2>1. strnow \in Hours /\ Content(strnow) = <<>>
    BY <1>1, <1>2, <1>5
  <2>2. /\ pc \in {"recv", "timer"} => now - time_since_report > ReportEvery
        /\ pc = "write" => since_report_elapsed > ReportEvery
    BY <2>1 DEF FileInv, EmptyDue
  <2>3. time_since_report' = time_since_report /\ now' \in {now, now + 1}
    BY <1>1
  <2>4. ReportEvery \in Nat
    BY TimerAssumption
  <2>5. ASSUME pc' \in {"recv", "timer"}
        PROVE  now' - time_since_report' > ReportEvery
    <3>1. now - time_since_report > ReportEvery
      BY <1>1, <2>2, <2>5
    <3>2. now' - time_since_report > ReportEvery
      BY <1>3, <2>3, <2>4, <3>1, StillDue
    <3> QED
      BY <2>3, <3>2
  <2>6. pc' = "write" => since_report_elapsed' > ReportEvery
    BY <1>1, <2>2
  <2> QED
    BY <2>5, <2>6
<1> QED
  BY <1>4, <1>5 DEF EmptyDue

LEMMA StepFile == FileInv /\ [Next]_vars => FileInv'
<1> SUFFICES ASSUME FileInv, [Next]_vars PROVE FileInv'
  OBVIOUS
<1>1. LogType'
  BY TypeStep DEF FileInv
<1>2. FirstFrameFull' /\ EmptyDue'
  BY RefreshStep, WriteStep, KillStep, RestartStep, QuietStep DEF Next, Main
<1> QED
  BY <1>1, <1>2 DEF FileInv

\* Every log file begins with a full frame (main.rs, the refresh and
\* get_logfile_now), for every period, hour, buffer and setting of the clock.
THEOREM FilesBeginFull == Spec => []FirstFrameFull
<1>1. FileInv => FirstFrameFull
  BY DEF FileInv
<1> QED
  BY <1>1, InitLog, StepFile, PTL DEF Spec

-----------------------------------------------------------------------------
(* What the times of a file mean.                                          *)

\* Frame k is the key of frame i: the last full one up to it.
IsKey(s, k, i) ==
  /\ k \in 1 .. i
  /\ s[k].full
  /\ \A j \in 1 .. i : s[j].full => j <= k

\* A full frame holds the wall clock at the end of its refresh, another one the
\* time since the refresh of its key.
RightFull(f) == f.at + f.skew <= f.time /\ f.time <= f.at + f.skew + Stall
RightSince(f, key) == f.time = f.at - key.at /\ f.time <= ReportEvery
RightFrame(s, k, i) == IF s[i].full THEN RightFull(s[i]) ELSE RightSince(s[i], s[k])

\* A file whose frames are right and more than a refresh apart.
Right(s) ==
  /\ \A i \in 1 .. Len(s) : \E k \in 1 .. i : IsKey(s, k, i) /\ RightFrame(s, k, i)
  /\ \A i \in 2 .. Len(s) : s[i - 1].at + Refresh < s[i].at

RightInv == \A h \in Hours : Right(Content(h))

\* What the timers have to do with the last frame of the current file: it is
\* more than a refresh old when the next one is made, and the report timer began
\* with its key.
LastInv ==
  strnow \in Hours /\ Content(strnow) # <<>> /\ pc # "down" =>
    LET s == Content(strnow) IN
    /\ s[Len(s)].at <= last_refresh
    /\ pc = "write" => s[Len(s)].at + Refresh < last_refresh
    /\ pc # "write" \/ ~IsFull =>
         \E k \in 1 .. Len(s) : IsKey(s, k, Len(s)) /\ s[k].at = time_since_report

\* The phases of the loop and the timers.
PhaseInv ==
  /\ entered \in Int
  /\ last_refresh <= now
  /\ pc # "down" => entered <= now /\ now <= entered + Stall
  /\ pc = "write" => entered = last_refresh
  /\ pc = "write" /\ IsFull => time_since_report = last_refresh
  /\ pc = "write" /\ ~IsFull => since_report_elapsed = last_refresh - time_since_report

FrameInv == RightInv /\ LastInv /\ PhaseInv

LEMMA EntryFields ==
  ASSUME NEW f \in Entry
  PROVE  f.full \in BOOLEAN /\ f.time \in Int /\ f.at \in Int /\ f.skew \in Int
  BY DEF Entry

LEMMA ContentType ==
  ASSUME LogType, NEW h \in Hours
  PROVE  /\ Content(h) \in Seq(Entry) /\ Len(Content(h)) \in Nat
         /\ Content(h) = <<>> <=> Len(Content(h)) = 0
         /\ \A i \in 1 .. Len(Content(h)) : Content(h)[i] \in Entry
<1>1. files[h] \in Seq(Entry) /\ pending \in Seq(Entry)
  BY DEF LogType
<1>2. Content(h) \in Seq(Entry)
  BY <1>1, ConcatProperties, ConcatEmptySeq DEF Content
<1> HIDE DEF Content
<1> QED
  BY <1>2, EmptySeq, LenProperties, ElementOfSeq

\* The key that read finds.
LEMMA KeyIs ==
  ASSUME NEW s, NEW i \in Nat, NEW k, IsKey(s, k, i)
  PROVE  KeyOf(s, i) = k
<1> DEFINE S == {j \in 1 .. i : s[j].full}
<1>1. k \in S /\ \A j \in S : k >= j
  BY DEF IsKey
<1>2. \A m \in S : (\A j \in S : m >= j) => m = k
  BY <1>1
<1> HIDE DEF S
<1>3. Max(S) = k
  BY <1>1, <1>2 DEF Max
<1> QED
  BY <1>3 DEF KeyOf, S

\* What read makes of a frame of a right file.
LEMMA RightDecodes ==
  ASSUME NEW s \in Seq(Entry), Right(s), NEW i \in 1 .. Len(s)
  PROVE  \E k \in 1 .. i :
           /\ KeyOf(s, i) = k
           /\ s[i].at + s[k].skew <= Decoded(s, i)
           /\ Decoded(s, i) <= s[i].at + s[k].skew + Stall
           /\ s[i].at - s[k].at <= ReportEvery
<1>1. Len(s) \in Nat /\ i \in Nat
  BY LenProperties
<1>2. PICK k \in 1 .. i : IsKey(s, k, i) /\ RightFrame(s, k, i)
  BY DEF Right
<1>3. KeyOf(s, i) = k /\ k \in 1 .. Len(s) /\ s[k].full
  BY <1>1, <1>2, KeyIs DEF IsKey
<1>4. RightFull(s[k])
  BY <1>3 DEF Right, RightFrame
<1> DEFINE f == s[i]
           key == s[k]
<1>5. f \in Entry /\ key \in Entry
  BY <1>3, ElementOfSeq
<1>6. /\ f.time \in Int /\ f.at \in Int
      /\ key.time \in Int /\ key.at \in Int /\ key.skew \in Int
  BY <1>5, EntryFields
<1>7. key.at + key.skew <= key.time /\ key.time <= key.at + key.skew + Stall
  BY <1>4 DEF RightFull
<1>8. CASE f.full
  <2>1. i = k
    BY <1>1, <1>2, <1>3, <1>8 DEF IsKey
  <2>2. Decoded(s, i) = key.time
    BY <1>8, <2>1 DEF Decoded
  <2>3. f.at - key.at = 0
    BY <1>6, <2>1
  <2> HIDE DEF f, key
  <2>4. f.at = key.at
    BY <2>1 DEF f, key
  <2>5. f.at - key.at <= ReportEvery
    BY <2>3
  <2> QED
    BY <1>2, <1>3, <1>7, <2>2, <2>4, <2>5 DEF f, key
<1>9. CASE ~f.full
  <2>1. Decoded(s, i) = key.time + f.time
    BY <1>3, <1>9 DEF Decoded
  <2>2. f.time = f.at - key.at /\ f.time <= ReportEvery
    BY <1>2, <1>9 DEF RightFrame, RightSince
  <2> HIDE DEF f, key
  <2>3. /\ f.at + key.skew <= key.time + f.time
        /\ key.time + f.time <= f.at + key.skew + Stall
        /\ f.at - key.at <= ReportEvery
    BY <1>6, <1>7, <2>2
  <2> QED
    BY <1>2, <1>3, <2>1, <2>3 DEF f, key
<1> QED
  BY <1>8, <1>9

\* A file that is cut short stays right.
LEMMA RightPrefix ==
  ASSUME NEW s, NEW t, Len(s) \in Nat, Len(t) \in Nat, Len(t) <= Len(s),
         \A i \in 1 .. Len(t) : t[i] = s[i], Right(s)
  PROVE  Right(t)
<1>1. ASSUME NEW i \in 1 .. Len(t)
      PROVE  \E k \in 1 .. i : IsKey(t, k, i) /\ RightFrame(t, k, i)
  <2>1. PICK k \in 1 .. i : IsKey(s, k, i) /\ RightFrame(s, k, i)
    BY DEF Right
  <2>2. \A j \in 1 .. i : t[j] = s[j]
    OBVIOUS
  <2>3. IsKey(t, k, i)
    BY <2>1, <2>2 DEF IsKey
  <2>4. RightFrame(t, k, i)
    BY <2>1, <2>2 DEF RightFrame
  <2> QED
    BY <2>3, <2>4
<1>2. ASSUME NEW i \in 2 .. Len(t)
      PROVE  t[i - 1].at + Refresh < t[i].at
  <2>1. t[i] = s[i] /\ t[i - 1] = s[i - 1] /\ i \in 2 .. Len(s)
    OBVIOUS
  <2> QED
    BY <2>1 DEF Right
<1> QED
  BY <1>1, <1>2 DEF Right

\* A right frame is added.
LEMMA RightAppend ==
  ASSUME NEW s \in Seq(Entry), Right(s), NEW f \in Entry,
         f.full => RightFull(f),
         ~f.full => \E k \in 1 .. Len(s) : IsKey(s, k, Len(s)) /\ RightSince(f, s[k]),
         Len(s) > 0 => s[Len(s)].at + Refresh < f.at,
         NEW t, t = Append(s, f)
  PROVE  /\ Right(t)
         /\ f.full => IsKey(t, Len(t), Len(t))
         /\ \A k \in 1 .. Len(s) : ~f.full /\ IsKey(s, k, Len(s)) => IsKey(t, k, Len(t))
<1> DEFINE n == Len(s) + 1
<1>1. /\ Len(s) \in Nat /\ Len(t) = n /\ t[n] = f
      /\ \A i \in 1 .. Len(s) : t[i] = s[i]
  BY AppendProperties, LenProperties
<1>2. f.full => IsKey(t, n, n)
  BY <1>1 DEF IsKey
<1>3. ASSUME NEW k \in 1 .. Len(s), ~f.full, IsKey(s, k, Len(s))
      PROVE  IsKey(t, k, n)
  <2>1. k \in 1 .. n /\ t[k].full
    BY <1>1, <1>3 DEF IsKey
  <2>2. ASSUME NEW j \in 1 .. n, t[j].full PROVE j <= k
    <3>1. j # n
      BY <1>1, <1>3, <2>2
    <3>2. j \in 1 .. Len(s)
      BY <1>1, <3>1
    <3>3. s[j].full
      BY <1>1, <2>2, <3>2
    <3> QED
      BY <1>3, <3>2, <3>3 DEF IsKey
  <2> QED
    BY <2>1, <2>2 DEF IsKey
<1>4. ASSUME NEW i \in 1 .. n
      PROVE  \E k \in 1 .. i : IsKey(t, k, i) /\ RightFrame(t, k, i)
  <2>1. CASE i = n /\ f.full
    <3>1. RightFrame(t, n, n)
      BY <1>1, <2>1 DEF RightFrame
    <3> QED
      BY <1>1, <1>2, <2>1, <3>1
  <2>2. CASE i = n /\ ~f.full
    <3>1. PICK k \in 1 .. Len(s) : IsKey(s, k, Len(s)) /\ RightSince(f, s[k])
      BY <2>2
    <3>2. IsKey(t, k, n) /\ k \in 1 .. n
      BY <1>1, <1>3, <2>2, <3>1
    <3>3. RightFrame(t, k, n)
      BY <1>1, <2>2, <3>1 DEF RightFrame
    <3> QED
      BY <2>2, <3>2, <3>3
  <2>3. CASE i # n
    <3>1. i \in 1 .. Len(s)
      BY <1>1, <2>3
    <3>2. PICK k \in 1 .. i : IsKey(s, k, i) /\ RightFrame(s, k, i)
      BY <3>1 DEF Right
    <3>3. \A j \in 1 .. i : t[j] = s[j]
      BY <1>1, <3>1
    <3>4. IsKey(t, k, i) /\ RightFrame(t, k, i)
      BY <3>2, <3>3 DEF IsKey, RightFrame
    <3> QED
      BY <3>4
  <2> QED
    BY <2>1, <2>2, <2>3
<1>5. ASSUME NEW i \in 2 .. n
      PROVE  t[i - 1].at + Refresh < t[i].at
  <2>1. CASE i = n
    <3>1. i - 1 = Len(s) /\ Len(s) > 0 /\ Len(s) \in 1 .. Len(s)
      BY <1>1, <2>1
    <3>2. t[i] = f /\ t[i - 1] = s[Len(s)]
      BY <1>1, <2>1, <3>1
    <3> QED
      BY <3>1, <3>2
  <2>2. CASE i # n
    <3>1. i \in 2 .. Len(s)
      BY <1>1, <2>2
    <3>2. t[i] = s[i] /\ t[i - 1] = s[i - 1]
      BY <1>1, <3>1
    <3> QED
      BY <3>1, <3>2 DEF Right
  <2> QED
    BY <2>1, <2>2
<1> QED
  BY <1>1, <1>2, <1>3, <1>4, <1>5 DEF Right

LEMMA RightEmpty == Right(<<>>)
  BY EmptySeq DEF Right

LEMMA InitFrames == Init => FrameInv
<1> SUFFICES ASSUME Init PROVE FrameInv
  OBVIOUS
<1>1. \A h \in Hours : Content(h) = <<>>
  BY DEF Init, Content
<1>2. RightInv
  BY <1>1, RightEmpty DEF RightInv
<1>3. LastInv
  BY <1>1 DEF LastInv
<1>4. PhaseInv
  BY DEF Init, PhaseInv
<1> QED
  BY <1>2, <1>3, <1>4 DEF FrameInv

\* A refresh begins: the frames are older, the timers start again.
LEMMA RefreshFrames ==
  ASSUME FileInv, FrameInv, RefreshStart
  PROVE  FrameInv'
<1>1. /\ pc = "timer" /\ pc' = "write" /\ entered' = now /\ now' = now /\ last_refresh' = now
      /\ since_report_elapsed' = now - time_since_report
      /\ time_since_report' = IF since_report_elapsed' > ReportEvery THEN now ELSE time_since_report
      /\ last_refresh + Refresh < now
      /\ now \in Int /\ time_since_report \in Int /\ last_refresh \in Int
  BY DEF RefreshStart, ReportTimer, clocks, FileInv, LogType
<1>2. ASSUME NEW h \in Hours
      PROVE  \/ Content(h)' = <<>>
             \/ Content(h)' = Content(h) /\ (strnow' = strnow \/ h # strnow')
  BY RefreshContent DEF FileInv
<1>3. RightInv'
  BY <1>2, RightEmpty DEF RightInv, FrameInv
<1>4. PhaseInv'
  BY <1>1 DEF PhaseInv, IsFull
<1>5. LastInv'
  <2> SUFFICES ASSUME strnow' \in Hours, Content(strnow)' # <<>>
               PROVE  LET s == Content(strnow)' IN
                      /\ s[Len(s)].at <= last_refresh'
                      /\ s[Len(s)].at + Refresh < last_refresh'
                      /\ ~IsFull' =>
                           \E k \in 1 .. Len(s) :
                             IsKey(s, k, Len(s)) /\ s[k].at = time_since_report'
    BY <1>1 DEF LastInv, IsKey
  <2>1. strnow' = strnow /\ Content(strnow)' = Content(strnow)
    <3>1. \A h \in Hours : h = strnow' => h = strnow /\ Content(h)' = Content(h)
      BY <1>2 DEF Content
    <3>2. strnow' = strnow
      BY <3>1
    <3> QED
      BY <3>1, <3>2 DEF Content
  <2> DEFINE s == Content(strnow)
  <2>2. s # <<>> /\ strnow \in Hours
    BY <2>1
  <2>3. Len(s) \in 1 .. Len(s) /\ s[Len(s)] \in Entry
    BY <2>2, ContentType DEF FileInv
  <2>4. /\ s[Len(s)].at <= last_refresh
        /\ \E k \in 1 .. Len(s) : IsKey(s, k, Len(s)) /\ s[k].at = time_since_report
    BY <1>1, <2>2 DEF LastInv, FrameInv
  <2>5. s[Len(s)].at \in Int
    BY <2>3, EntryFields
  <2>6. s[Len(s)].at + Refresh < now
    BY <1>1, <2>4, <2>5
  <2>7. s[Len(s)].at <= now
    BY <1>1, <2>5, <2>6
  <2>8. ~IsFull' => time_since_report' = time_since_report
    BY <1>1 DEF IsFull
  <2> HIDE DEF s
  <2> QED
    BY <1>1, <2>1, <2>4, <2>6, <2>7, <2>8 DEF s
<1> QED
  BY <1>3, <1>4, <1>5 DEF FrameInv

\* A frame is written: a full one holds the wall clock, another one the time
\* since the report, which began with the key of the file.
LEMMA WriteFrames ==
  ASSUME FileInv, FrameInv, WriteFrame
  PROVE  FrameInv'
<1> DEFINE f == NewFrame
<1>1. /\ pc = "write" /\ pc' = "recv" /\ entered' = now /\ now' = now /\ strnow' = strnow
      /\ last_refresh' = last_refresh /\ time_since_report' = time_since_report
      /\ LogType
  BY DEF WriteFrame, clocks, timers, FileInv
<1>2. /\ now \in Int /\ skew \in Int /\ last_refresh \in Int /\ time_since_report \in Int
      /\ since_report_elapsed \in Int
      /\ last_refresh <= now /\ now <= last_refresh + Stall
  BY <1>1 DEF LogType, FrameInv, PhaseInv
<1>3. /\ f \in Entry /\ f.full = IsFull /\ f.at = last_refresh /\ f.skew = skew
      /\ f.time = IF IsFull THEN now + skew ELSE since_report_elapsed
  BY <1>1, NewFrameType DEF NewFrame, Wall
<1>4. f.full => RightFull(f)
  BY <1>2, <1>3 DEF RightFull
<1>5. ASSUME ~f.full
      PROVE  /\ f.time = last_refresh - time_since_report /\ f.time <= ReportEvery
             /\ strnow \in Hours => Content(strnow) # <<>>
  <2>1. ~IsFull /\ ~(since_report_elapsed > ReportEvery)
    BY <1>3, <1>5 DEF IsFull
  <2>2. since_report_elapsed = last_refresh - time_since_report
    BY <1>1, <2>1 DEF FrameInv, PhaseInv
  <2>3. since_report_elapsed <= ReportEvery
    BY <1>2, <2>1
  <2>4. f.time = since_report_elapsed
    BY <1>3, <2>1
  <2>5. strnow \in Hours => Content(strnow) # <<>>
    BY <1>1, <2>1 DEF FileInv, EmptyDue, IsFull
  <2> QED
    BY <2>2, <2>3, <2>4, <2>5
<1> HIDE DEF f
<1>6. ASSUME NEW h \in Hours, h # strnow PROVE Content(h)' = Content(h)
  BY <1>1, <1>6, WriteAppends
<1>7. ASSUME strnow \in Hours
      PROVE  /\ Right(Content(strnow)')
             /\ LET t == Content(strnow)' IN
                /\ t # <<>> /\ t[Len(t)].at = last_refresh
                /\ \E k \in 1 .. Len(t) : IsKey(t, k, Len(t)) /\ t[k].at = time_since_report
  <2> DEFINE s == Content(strnow)
             t == Append(s, f)
  <2>1. /\ s \in Seq(Entry) /\ Len(s) \in Nat /\ (s = <<>> <=> Len(s) = 0)
        /\ Right(s)
    BY <1>1, <1>7, ContentType DEF FrameInv, RightInv
  <2>2. Content(strnow)' = t
    <3>1. \A h \in Hours : h = strnow => Content(h)' = Append(Content(h), NewFrame)
      BY <1>1, WriteAppends
    <3> QED
      BY <1>1, <1>7, <3>1 DEF Content, f
  <2>3. ASSUME Len(s) > 0
        PROVE  /\ s[Len(s)].at + Refresh < f.at
               /\ ~f.full => \E k \in 1 .. Len(s) :
                               IsKey(s, k, Len(s)) /\ s[k].at = time_since_report
    BY <1>1, <1>3, <1>7, <2>1, <2>3 DEF FrameInv, LastInv
  <2> HIDE DEF s
  <2>4. ~f.full => Len(s) > 0
    BY <1>5, <1>7, <2>1 DEF s
  <2>5. ~f.full => \E k \in 1 .. Len(s) : IsKey(s, k, Len(s)) /\ RightSince(f, s[k])
    BY <1>3, <1>5, <2>3, <2>4 DEF RightSince
  <2>6. /\ Right(t)
        /\ f.full => IsKey(t, Len(t), Len(t))
        /\ \A k \in 1 .. Len(s) : ~f.full /\ IsKey(s, k, Len(s)) => IsKey(t, k, Len(t))
    BY <1>3, <1>4, <2>1, <2>3, <2>5, RightAppend
  <2>7. /\ Len(t) = Len(s) + 1 /\ t[Len(t)] = f /\ t # <<>>
        /\ \A i \in 1 .. Len(s) : t[i] = s[i]
    BY <1>3, <2>1, AppendProperties
  <2> HIDE DEF t
  <2>8. \E k \in 1 .. Len(t) : IsKey(t, k, Len(t)) /\ t[k].at = time_since_report
    <3>1. CASE f.full
      <4>1. f.at = time_since_report
        BY <1>1, <1>3, <3>1 DEF FrameInv, PhaseInv
      <4> QED
        BY <2>1, <2>6, <2>7, <3>1, <4>1
    <3>2. CASE ~f.full
      <4>1. PICK k \in 1 .. Len(s) : IsKey(s, k, Len(s)) /\ s[k].at = time_since_report
        BY <2>3, <2>4, <3>2
      <4> QED
        BY <2>1, <2>6, <2>7, <3>2, <4>1
    <3> QED
      BY <3>1, <3>2
  <2> QED
    BY <1>3, <2>2, <2>6, <2>7, <2>8
<1>8. RightInv'
  <2>1. \A h \in Hours : h = strnow => Right(Content(h)')
    BY <1>1, <1>7 DEF Content
  <2>2. \A h \in Hours : h # strnow => Right(Content(h)')
    BY <1>6 DEF FrameInv, RightInv
  <2> QED
    BY <2>1, <2>2 DEF RightInv
<1>9. LastInv'
  BY <1>1, <1>2, <1>7 DEF LastInv, IsKey
<1>10. PhaseInv'
  BY <1>1, <1>2 DEF PhaseInv
<1> QED
  BY <1>8, <1>9, <1>10 DEF FrameInv

\* A kill cuts the current file short.
LEMMA KillFrames ==
  ASSUME FileInv, FrameInv, Kill
  PROVE  FrameInv'
<1>1. /\ LogType /\ RightInv /\ PhaseInv /\ pc' = "down" /\ files' = files /\ pending' = <<>>
      /\ entered' = entered /\ now' = now /\ last_refresh' = last_refresh
  BY DEF FileInv, FrameInv, Kill, clocks, timers
<1>2. ASSUME NEW h \in Hours PROVE Right(Content(h)')
  <2> DEFINE rest == IF h = strnow THEN pending ELSE <<>>
  <2>1. files[h] \in Seq(Entry) /\ rest \in Seq(Entry)
    BY <1>1, EmptySeq DEF LogType
  <2>2. Content(h)' = files[h]
    BY <1>1, <2>1, ConcatEmptySeq DEF Content
  <2>3. Content(h) = files[h] \o rest
    BY DEF Content
  <2>4. Right(files[h] \o rest)
    BY <1>1, <2>3 DEF RightInv
  <2> HIDE DEF rest
  <2>5. /\ Len(files[h]) \in Nat /\ Len(rest) \in Nat
        /\ Len(files[h] \o rest) = Len(files[h]) + Len(rest)
        /\ \A i \in 1 .. Len(files[h]) : (files[h] \o rest)[i] = files[h][i]
    BY <2>1, ConcatProperties, LenProperties
  <2> DEFINE whole == files[h] \o rest
  <2>6. /\ Len(whole) \in Nat /\ Len(files[h]) <= Len(whole)
        /\ \A i \in 1 .. Len(files[h]) : files[h][i] = whole[i]
    BY <2>5
  <2>7. Right(whole)
    BY <2>4
  <2> HIDE DEF whole
  <2>8. Right(files[h])
    BY <2>5, <2>6, <2>7, RightPrefix
  <2> QED
    BY <2>2, <2>8
<1>3. RightInv'
  BY <1>2 DEF RightInv
<1>4. PhaseInv' /\ LastInv'
  BY <1>1 DEF PhaseInv, LastInv
<1> QED
  BY <1>3, <1>4 DEF FrameInv

\* A new daemon begins with an empty file.
LEMMA RestartFrames ==
  ASSUME FileInv, FrameInv, Restart
  PROVE  FrameInv'
<1>1. /\ LogType /\ RightInv /\ pc = "down" /\ pc' = "recv" /\ entered' = now /\ now' = now
      /\ last_refresh' = now - Long /\ strnow' = LogfileNow
      /\ pending = <<>> /\ pending' = <<>>
      /\ files' = [files EXCEPT ![LogfileNow] = <<>>]
      /\ now \in Int
  BY DEF FileInv, FrameInv, Restart, clocks, LogType
<1>2. ASSUME NEW h \in Hours
      PROVE  /\ Content(h)' \in {<<>>, Content(h)}
             /\ h = strnow' => Content(h)' = <<>>
  <2>1. files[h] \in Seq(Entry) /\ <<>> \in Seq(Entry)
    BY <1>1, EmptySeq DEF LogType
  <2>2. files'[h] = IF h = LogfileNow THEN <<>> ELSE files[h]
    BY <1>1 DEF LogType
  <2>3. Content(h)' = files'[h] \o <<>> /\ Content(h) = files[h] \o <<>>
    BY <1>1 DEF Content
  <2> QED
    BY <1>1, <2>1, <2>2, <2>3, ConcatEmptySeq
<1>3. RightInv'
  BY <1>1, <1>2, RightEmpty DEF RightInv
<1>4. LastInv'
  BY <1>2 DEF LastInv, Content
<1>5. PhaseInv'
  BY <1>1 DEF PhaseInv
<1> QED
  BY <1>3, <1>4, <1>5 DEF FrameInv

\* The other steps leave the frames alone.
LEMMA QuietFrames ==
  ASSUME FileInv, FrameInv,
         Reply \/ Sync \/ Drain \/ NotYet \/ SetClock \/ Tick \/ UNCHANGED vars
  PROVE  FrameInv'
<1>1. /\ files' = files /\ pending' = pending /\ strnow' = strnow
      /\ last_refresh' = last_refresh
      /\ time_since_report' = time_since_report /\ since_report_elapsed' = since_report_elapsed
      /\ pc' = "write" <=> pc = "write"
      /\ pc' = "down" <=> pc = "down"
  BY DEF Reply, Sync, Drain, NotYet, SetClock, Tick, vars, disk, timers
<1>2. \A h \in Hours : Content(h)' = Content(h)
  BY <1>1 DEF Content
<1>3. RightInv'
  BY <1>2 DEF RightInv, FrameInv
<1>4. IsFull' <=> IsFull
  BY <1>1 DEF IsFull
<1>5. LastInv'
  BY <1>1, <1>2, <1>4 DEF LastInv, FrameInv, IsKey
<1>6. now \in Int /\ last_refresh \in Int /\ entered \in Int
  BY DEF FileInv, LogType, FrameInv, PhaseInv
<1>7. PhaseInv'
  <2>1. CASE Tick
    <3>1. now' = now + 1 /\ entered' = entered /\ pc' = pc /\ (pc # "down" => now < entered + Stall)
      BY <2>1 DEF Tick
    <3> QED
      BY <1>1, <1>4, <1>6, <3>1 DEF PhaseInv, FrameInv
  <2>2. CASE Drain \/ NotYet
    <3>1. now' = now /\ entered' = now /\ pc' # "write" /\ pc' # "down"
      BY <2>2 DEF Drain, NotYet, clocks
    <3> QED
      BY <1>1, <1>6, <3>1 DEF PhaseInv, FrameInv
  <2>3. CASE Reply \/ Sync \/ SetClock \/ UNCHANGED vars
    <3>1. now' = now /\ entered' = entered /\ pc' = pc
      BY <2>3 DEF Reply, Sync, SetClock, vars, clocks
    <3> QED
      BY <1>1, <1>4, <3>1 DEF PhaseInv, FrameInv
  <2> QED
    BY <2>1, <2>2, <2>3
<1> QED
  BY <1>3, <1>5, <1>7 DEF FrameInv

LEMMA StepFrames == FileInv /\ FrameInv /\ [Next]_vars => FrameInv'
<1> SUFFICES ASSUME FileInv, FrameInv, [Next]_vars PROVE FrameInv'
  OBVIOUS
<1> QED
  BY RefreshFrames, WriteFrames, KillFrames, RestartFrames, QuietFrames DEF Next, Main

\* What FrameDataVec::read makes of every log file is right, for every period,
\* hour, buffer, stall of the loop and setting of the clock: a frame's time is
\* that of its refresh by the clock its key frame was stamped with.
THEOREM FramesDecodedRight == Spec => []DecodedRight
<1>1. FileInv /\ FrameInv => DecodedRight
  <2> SUFFICES ASSUME FileInv, FrameInv, NEW h \in Hours,
                      NEW i \in 1 .. Len(Content(h))
               PROVE  LET s == Content(h)
                          key == s[KeyOf(s, i)] IN
                      /\ Decoded(s, i) - (s[i].at + key.skew) \in 0 .. Stall
                      /\ s[i].at - key.at <= ReportEvery
    BY DEF DecodedRight
  <2> DEFINE s == Content(h)
  <2>1. s \in Seq(Entry) /\ Right(s)
    BY ContentType DEF FileInv, FrameInv, RightInv
  <2> HIDE DEF s
  <2>2. i \in 1 .. Len(s)
    BY DEF s
  <2>3. PICK k \in 1 .. i :
          /\ KeyOf(s, i) = k
          /\ s[i].at + s[k].skew <= Decoded(s, i)
          /\ Decoded(s, i) <= s[i].at + s[k].skew + Stall
          /\ s[i].at - s[k].at <= ReportEvery
    BY <2>1, <2>2, RightDecodes
  <2>4. s[i] \in Entry /\ s[k] \in Entry
    BY <2>1, <2>2, ElementOfSeq, LenProperties
  <2>5. s[i].at \in Int /\ s[k].skew \in Int /\ s[i].time \in Int /\ s[k].time \in Int
    BY <2>4, EntryFields
  <2> DEFINE d == Decoded(s, i)
             t == s[i].at + s[k].skew
  <2>6. d \in Int /\ t \in Int /\ t <= d /\ d <= t + Stall
    BY <2>3, <2>5 DEF Decoded
  <2> HIDE DEF d, t
  <2>7. d - t \in 0 .. Stall
    BY <2>6
  <2> QED
    BY <2>3, <2>7 DEF s, d, t
<1> QED
  BY <1>1, InitLog, InitFrames, StepFile, StepFrames, PTL DEF Spec

\* The times of a file increase (FDCodecState::peek_encode and the GUI need
\* it), for every setting with a loop that does not stall for a whole refresh
\* and a file during which nobody set the clock.
THEOREM FramesInOrder == Spec => []DecodedInOrder
<1>1. FileInv /\ FrameInv => DecodedInOrder
  <2> SUFFICES ASSUME FileInv, FrameInv, Stall <= Refresh, NEW h \in Hours,
                      \A i, j \in 1 .. Len(Content(h)) :
                        Content(h)[i].skew = Content(h)[j].skew,
                      NEW i \in 2 .. Len(Content(h))
               PROVE  Decoded(Content(h), i - 1) < Decoded(Content(h), i)
    BY DEF DecodedInOrder
  <2> DEFINE s == Content(h)
  <2>1. s \in Seq(Entry) /\ Right(s) /\ Len(s) \in Nat
    BY ContentType DEF FileInv, FrameInv, RightInv
  <2>2. \A m, n \in 1 .. Len(s) : s[m].skew = s[n].skew
    OBVIOUS
  <2>3. i \in 2 .. Len(s)
    OBVIOUS
  <2> HIDE DEF s
  <2>4. i \in 1 .. Len(s) /\ i - 1 \in 1 .. Len(s)
    BY <2>1, <2>3
  <2>5. PICK k \in 1 .. i :
          /\ s[i].at + s[k].skew <= Decoded(s, i)
          /\ KeyOf(s, i) = k
    BY <2>1, <2>4, RightDecodes
  <2>6. PICK m \in 1 .. i - 1 :
          /\ Decoded(s, i - 1) <= s[i - 1].at + s[m].skew + Stall
          /\ KeyOf(s, i - 1) = m
    BY <2>1, <2>4, RightDecodes
  <2>7. k \in 1 .. Len(s) /\ m \in 1 .. Len(s)
    BY <2>1, <2>4
  <2>8. s[k].skew = s[m].skew
    BY <2>2, <2>7
  <2>9. s[i - 1].at + Refresh < s[i].at
    BY <2>1, <2>3 DEF Right
  <2>10. s[i] \in Entry /\ s[i - 1] \in Entry /\ s[k] \in Entry /\ s[m] \in Entry
    BY <2>1, <2>4, <2>7, ElementOfSeq
  <2> DEFINE a == s[i - 1].at
             b == s[i].at
             c == s[k].skew
             d == Decoded(s, i - 1)
             e == Decoded(s, i)
  <2>11. a \in Int /\ b \in Int /\ c \in Int
    BY <2>10, EntryFields
  <2>12. d \in Int /\ e \in Int
    <3>1. s[i].time \in Int /\ s[i - 1].time \in Int /\ s[k].time \in Int /\ s[m].time \in Int
      BY <2>10, EntryFields
    <3>2. e = IF s[i].full THEN s[i].time ELSE s[k].time + s[i].time
      BY <2>5 DEF Decoded
    <3>3. d = IF s[i - 1].full THEN s[i - 1].time ELSE s[m].time + s[i - 1].time
      BY <2>6 DEF Decoded
    <3> HIDE DEF d, e
    <3> QED
      BY <3>1, <3>2, <3>3
  <2>13. a + Refresh < b /\ b + c <= e /\ d <= a + c + Stall
    BY <2>5, <2>6, <2>8, <2>9
  <2> HIDE DEF a, b, c, d, e
  <2>14. d < e
    BY <2>11, <2>12, <2>13
  <2> QED
    BY <2>14 DEF s, d, e
<1> QED
  BY <1>1, InitLog, InitFrames, StepFile, StepFrames, PTL DEF Spec

-----------------------------------------------------------------------------
(* What happens to a file.                                                 *)

LEMMA PrefixOfConcat ==
  ASSUME NEW S, NEW s \in Seq(S), NEW t \in Seq(S)
  PROVE  IsPrefix(s, s \o t)
<1>1. Len(s) \in Nat /\ Len(t) \in Nat /\ Len(s \o t) = Len(s) + Len(t)
  BY ConcatProperties, LenProperties
<1>2. SubSeq(s, 1, Len(s)) = SubSeq(s \o t, 1, Len(s))
  <2>1. CASE Len(s) = 0
    BY <2>1, SubSeqEmpty
  <2>2. CASE Len(s) # 0
    <3>1. 1 \in 1 .. Len(s) /\ Len(s) \in 1 .. Len(s)
      BY <1>1, <2>2
    <3> QED
      BY <3>1, SubSeqOfConcat1
  <2> QED
    BY <2>1, <2>2
<1> QED
  BY <1>1, <1>2 DEF IsPrefix

LEMMA PrefixOfSelf ==
  ASSUME NEW S, NEW s \in Seq(S)
  PROVE  IsPrefix(s, s)
  BY LenProperties DEF IsPrefix

\* The hour of a later time is not an earlier one.
LEMMA HoursPass ==
  ASSUME NEW a \in Int, NEW d \in Nat \ {0}
  PROVE  a \div d <= (a + 1) \div d
<1> DEFINE q == a \div d
           r == (a + 1) \div d
<1>1. q \in Int /\ r \in Int
  OBVIOUS
<1>2. d * q <= a /\ a < d * q + d
  OBVIOUS
<1>3. d * r <= a + 1 /\ a + 1 < d * r + d
  OBVIOUS
<1> HIDE DEF q, r
<1>4. ASSUME r + 1 <= q PROVE FALSE
  <2>1. d * (r + 1) <= d * q
    BY <1>1, <1>4
  <2>2. d * (r + 1) = d * r + d
    BY <1>1
  <2> QED
    BY <1>1, <1>2, <1>3, <2>1, <2>2
<1>5. q <= r
  BY <1>1, <1>4
<1> QED
  BY <1>5 DEF q, r

\* Until somebody sets the clock, the log is not at an hour to come and there
\* are no files of hours to come.
HourInv ==
  /\ strnow \in Int
  /\ ~clock_set => strnow <= LogfileNow
  /\ ~clock_set => \A h \in Hours : h > strnow => files[h] = <<>>

LEMMA HourType ==
  ASSUME LogType
  PROVE  LogfileNow \in Int /\ Wall \in Int
<1>1. Wall \in Int
  BY DEF LogType, Wall
<1> QED
  BY <1>1 DEF LogfileNow

LEMMA InitHours == Init => HourInv
<1> SUFFICES ASSUME Init PROVE HourInv
  OBVIOUS
<1>1. LogType
  BY InitLog DEF FileInv
<1>2. strnow = LogfileNow /\ LogfileNow \in Int /\ \A h \in Hours : files[h] = <<>>
  BY <1>1, HourType DEF Init
<1> QED
  BY <1>2 DEF HourInv

LEMMA StepHours == LogType /\ HourInv /\ [Next]_vars => HourInv'
<1> SUFFICES ASSUME LogType, HourInv, [Next]_vars PROVE HourInv'
  OBVIOUS
<1>1. LogfileNow \in Int /\ Wall \in Int
  BY HourType
<1>2. CASE RefreshStart
  <2>1. now' = now /\ skew' = skew /\ clock_set' = clock_set /\ LogfileNow' = LogfileNow
    BY <1>2 DEF RefreshStart, clocks, LogfileNow, Wall
  <2>2. CASE UNCHANGED disk
    BY <2>1, <2>2 DEF HourInv, disk
  <2>3. CASE CreateLogFile
    <3>1. /\ strnow' = LogfileNow
          /\ files' = [files EXCEPT ![strnow] = @ \o pending, ![LogfileNow] = <<>>]
      BY <2>3 DEF CreateLogFile
    <3>2. ASSUME ~clock_set, NEW h \in Hours, h > LogfileNow PROVE files'[h] = <<>>
      <4>1. h \in Int /\ strnow <= LogfileNow /\ strnow \in Int
        BY <3>2 DEF Hours, HourInv
      <4>2. h > strnow
        BY <1>1, <3>2, <4>1
      <4>3. files[h] = <<>>
        BY <3>2, <4>2 DEF HourInv
      <4>4. files'[h] = files[h]
        BY <1>1, <3>1, <3>2, <4>1, <4>2 DEF LogType
      <4> QED
        BY <4>3, <4>4
    <3>3. strnow' \in Int /\ strnow' <= LogfileNow'
      BY <1>1, <2>1, <3>1
    <3>4. ~clock_set' => \A h \in Hours : h > strnow' => files'[h] = <<>>
      BY <2>1, <3>1, <3>2
    <3> QED
      BY <3>3, <3>4 DEF HourInv
  <2> QED
    BY <1>2, <2>2, <2>3 DEF RefreshStart
<1>3. CASE WriteFrame
  <2>1. /\ LogfileNow' = LogfileNow /\ clock_set' = clock_set /\ strnow' = strnow
        /\ files' = [files EXCEPT ![strnow] = @ \o Spilled]
    BY <1>3 DEF WriteFrame, clocks, LogfileNow, Wall
  <2>2. \A h \in Hours : h > strnow => files'[h] = files[h]
    BY <2>1 DEF LogType, HourInv, Hours
  <2> QED
    BY <2>1, <2>2 DEF HourInv
<1>4. CASE Restart
  <2>1. /\ LogfileNow' = LogfileNow /\ clock_set' = clock_set /\ strnow' = LogfileNow
        /\ files' = [files EXCEPT ![LogfileNow] = <<>>]
    BY <1>4 DEF Restart, clocks, LogfileNow, Wall
  <2>2. ASSUME ~clock_set, NEW h \in Hours, h > LogfileNow PROVE files'[h] = <<>>
    <3>1. h \in Int /\ strnow <= LogfileNow /\ strnow \in Int
      BY <2>2 DEF Hours, HourInv
    <3>2. files[h] = <<>>
      BY <1>1, <2>2, <3>1 DEF HourInv
    <3> QED
      BY <2>1, <3>2 DEF LogType
  <2> QED
    BY <1>1, <2>1, <2>2 DEF HourInv
<1>5. CASE SetClock
  BY <1>5 DEF SetClock, disk, HourInv
<1>6. CASE Tick
  <2>1. /\ now' = now + 1 /\ skew' = skew /\ clock_set' = clock_set /\ strnow' = strnow
        /\ files' = files
    BY <1>6 DEF Tick, disk
  <2>2. Wall' = Wall + 1
    BY <2>1 DEF Wall, LogType
  <2>3. LogfileNow <= LogfileNow' /\ LogfileNow' \in Int
    BY <1>1, <2>2, HoursPass DEF LogfileNow
  <2> QED
    BY <1>1, <2>1, <2>3 DEF HourInv
<1>7. CASE Reply \/ Sync \/ Drain \/ NotYet \/ Kill \/ UNCHANGED vars
  <2>1. /\ now' = now /\ skew' = skew /\ clock_set' = clock_set /\ strnow' = strnow
        /\ files' = files
    BY <1>7 DEF Reply, Sync, Drain, NotYet, Kill, vars, clocks, disk
  <2> QED
    BY <2>1 DEF HourInv, LogfileNow, Wall
<1> QED
  BY <1>2, <1>3, <1>4, <1>5, <1>6, <1>7 DEF Next, Main

\* A log file only grows, or is the one of the current hour when the daemon
\* starts or, after the clock was set, when the log turns to an hour that had a
\* file (main.rs, the rotation; create_log_file); for every buffer and hour.
THEOREM LogFilesKept == Spec => LogsKept
<1>1. LogType /\ HourInv /\ [Next]_vars => [FilesGrow]_vars
  <2> SUFFICES ASSUME LogType, HourInv, Next PROVE FilesGrow
    OBVIOUS
  <2> SUFFICES ASSUME NEW h \in Hours
               PROVE  \/ IsPrefix(files[h], files'[h])
                      \/ h = LogfileNow /\ (pc = "down" \/ (clock_set /\ strnow # h))
    BY DEF FilesGrow
  <2>1. files[h] \in Seq(Entry) /\ pending \in Seq(Entry) /\ <<>> \in Seq(Entry)
    BY EmptySeq DEF LogType
  <2>2. CASE RefreshStart
    <3>1. CASE UNCHANGED disk
      BY <2>1, <3>1, PrefixOfSelf DEF disk
    <3>2. CASE Rotates(now - time_since_report) /\ CreateLogFile
      <4>1. /\ LogfileNow # strnow
            /\ files' = [files EXCEPT ![strnow] = @ \o pending, ![LogfileNow] = <<>>]
        BY <3>2 DEF Rotates, CreateLogFile
      <4>2. CASE h = strnow
        <5>1. files'[h] = files[h] \o pending
          BY <4>1, <4>2 DEF LogType
        <5> QED
          BY <2>1, <5>1, PrefixOfConcat
      <4>3. CASE h = LogfileNow /\ ~clock_set
        <5>1. h > strnow
          BY <4>1, <4>3, HourType DEF HourInv
        <5>2. files[h] = <<>> /\ files'[h] = <<>>
          BY <4>1, <4>3, <5>1 DEF HourInv, LogType
        <5> QED
          BY <2>1, <5>2, PrefixOfSelf
      <4>4. CASE h = LogfileNow /\ clock_set
        BY <4>1, <4>4
      <4>5. CASE h # LogfileNow /\ h # strnow
        <5>1. files'[h] = files[h]
          BY <4>1, <4>5 DEF LogType
        <5> QED
          BY <2>1, <5>1, PrefixOfSelf
      <4> QED
        BY <4>2, <4>3, <4>4, <4>5
    <3> QED
      BY <2>2, <3>1, <3>2 DEF RefreshStart
  <2>3. CASE WriteFrame
    <3>1. files' = [files EXCEPT ![strnow] = @ \o Spilled] /\ Spilled \in Seq(Entry)
      BY <2>1, <2>3 DEF WriteFrame, Spilled
    <3>2. files'[h] = files[h] \o Spilled \/ files'[h] = files[h]
      BY <3>1 DEF LogType
    <3> QED
      BY <2>1, <3>1, <3>2, PrefixOfConcat, PrefixOfSelf
  <2>4. CASE Restart
    <3>1. pc = "down" /\ files' = [files EXCEPT ![LogfileNow] = <<>>]
      BY <2>4 DEF Restart
    <3>2. h # LogfileNow => files'[h] = files[h]
      BY <3>1 DEF LogType
    <3> QED
      BY <2>1, <3>1, <3>2, PrefixOfSelf
  <2>5. CASE Reply \/ Sync \/ Drain \/ NotYet \/ Kill \/ SetClock \/ Tick
    <3>1. files' = files
      BY <2>5 DEF Reply, Sync, Drain, NotYet, Kill, SetClock, Tick, disk
    <3> QED
      BY <2>1, <3>1, PrefixOfSelf
  <2> QED
    BY <2>2, <2>3, <2>4, <2>5 DEF Next, Main
<1>2. FileInv => LogType
  BY DEF FileInv
<1> QED
  BY <1>1, <1>2, InitLog, InitHours, StepFile, StepHours, PTL DEF Spec, LogsKept

-----------------------------------------------------------------------------
(* The replies.                                                            *)

\* The replies that recv has not matched, and all that no cleanup has forgotten.
Waiting == buffer \cup stamped
Queued == Waiting \cup recv_packets

\* The replies in the queues are those made, each with one time.
QueueInv ==
  /\ made \in Nat
  /\ logged \in [Pings -> Nat]
  /\ \A p \in Queued : /\ p.n \in Pings /\ p.at \in Int /\ p.sent \in Int
                       /\ p.n <= made /\ p.at <= now
                       /\ \E latency \in Latencies : p.sent = p.at - latency
  /\ \A p, q \in Queued : p.n = q.n => p.at = q.at
  /\ \A n \in Pings : n > made => logged[n] = 0
  /\ \A p \in Waiting : logged[p.n] = 0
  /\ \A p \in buffer, q \in stamped : p.n # q.n
  /\ \A p \in Waiting, q \in recv_packets : p.n # q.n
  /\ pc = "down" => Queued = {}

\* A reply is older than the last refresh once a frame holds it, and by another
\* refresh once two do.
CountInv ==
  /\ \A n \in Pings : logged[n] <= 2
  /\ \A p \in recv_packets :
       /\ pc # "write" /\ logged[p.n] > 0 => p.at <= last_refresh
       /\ pc # "write" /\ logged[p.n] > 1 => p.at + Refresh < last_refresh
       /\ pc = "write" => p.at <= last_refresh
       /\ pc = "write" /\ logged[p.n] > 0 => p.at + Refresh < last_refresh
       /\ pc = "write" /\ logged[p.n] > 1 => p.at + 2 * Refresh < last_refresh

ReplyInv == QueueInv /\ CountInv

LEMMA InitReplies == Init => ReplyInv
<1> SUFFICES ASSUME Init PROVE ReplyInv
  OBVIOUS
<1>1. /\ Queued = {} /\ made = 0 /\ logged = [n \in Pings |-> 0]
      /\ buffer = {} /\ Waiting = {} /\ recv_packets = {}
  BY DEF Init, Queued, Waiting
<1> QED
  BY <1>1 DEF ReplyInv, QueueInv, CountInv

\* The reader thread stamps a reply that has no number yet.
LEMMA ReplyReplies ==
  ASSUME LogType, ReplyInv, Reply
  PROVE  ReplyInv'
<1>1. PICK latency \in Latencies :
        buffer' = buffer \cup {[n |-> made', sent |-> now - latency, at |-> now]}
  BY DEF Reply
<1> DEFINE r == [n |-> made', sent |-> now - latency, at |-> now]
<1>2. /\ pc # "down" /\ pc' = pc /\ made < MaxPings /\ made' = made + 1 /\ now' = now
      /\ stamped' = stamped /\ recv_packets' = recv_packets
      /\ logged' = logged /\ last_refresh' = last_refresh
      /\ now \in Int /\ made \in Nat
  BY DEF Reply, clocks, timers, LogType, ReplyInv, QueueInv
<1>3. latency \in Int
  BY DEF ClockAssumption
<1>4. r.n = made + 1 /\ r.sent = now - latency /\ r.at = now /\ r.sent \in Int
  BY <1>2, <1>3
<1>5. /\ Queued' = Queued \cup {r} /\ Waiting' = Waiting \cup {r}
      /\ buffer' = buffer \cup {r}
  BY <1>1, <1>2 DEF Queued, Waiting
<1> HIDE DEF r
<1>6. /\ logged \in [Pings -> Nat]
      /\ \A p \in Queued : /\ p.n \in Pings /\ p.at \in Int /\ p.sent \in Int
                           /\ p.n <= made /\ p.at <= now
                           /\ \E l \in Latencies : p.sent = p.at - l
      /\ \A p, q \in Queued : p.n = q.n => p.at = q.at
      /\ \A n \in Pings : n > made => logged[n] = 0
      /\ \A p \in Waiting : logged[p.n] = 0
      /\ \A p \in buffer, q \in stamped : p.n # q.n
      /\ \A p \in Waiting, q \in recv_packets : p.n # q.n
  BY DEF ReplyInv, QueueInv
<1>7. r.n \in Pings /\ r.n \in Int /\ r.n > made
  BY <1>2, <1>4 DEF Pings
<1>8. \A p \in Queued : p.n \in Int /\ p.n <= made /\ p.n # r.n
  BY <1>2, <1>4, <1>6 DEF Pings
<1>9. logged[r.n] = 0
  BY <1>6, <1>7
<1>10. QueueInv'
  <2>1. made' \in Nat /\ logged' \in [Pings -> Nat] /\ pc' # "down"
    BY <1>2, <1>6
  <2>2. ASSUME NEW p \in Queued'
        PROVE  /\ p.n \in Pings /\ p.at \in Int /\ p.sent \in Int
               /\ p.n <= made' /\ p.at <= now'
               /\ \E l \in Latencies : p.sent = p.at - l
    <3>1. CASE p = r
      BY <1>2, <1>4, <1>7, <3>1
    <3>2. CASE p \in Queued
      BY <1>2, <1>6, <1>8, <3>2
    <3> QED
      BY <1>5, <3>1, <3>2
  <2>3. \A p, q \in Queued' : p.n = q.n => p.at = q.at
    BY <1>5, <1>6, <1>8
  <2>4. \A n \in Pings : n > made' => logged'[n] = 0
    <3>1. \A n \in Pings : n \in Int
      BY DEF Pings
    <3> QED
      BY <1>2, <1>6, <3>1
  <2>5. \A p \in Waiting' : logged'[p.n] = 0
    BY <1>2, <1>5, <1>6, <1>9
  <2>6. \A p \in Waiting', q \in recv_packets' : p.n # q.n
    BY <1>2, <1>5, <1>6, <1>8 DEF Queued
  <2>7. \A p \in buffer', q \in stamped' : p.n # q.n
    BY <1>2, <1>5, <1>6, <1>8 DEF Queued, Waiting
  <2> QED
    BY <2>1, <2>2, <2>3, <2>4, <2>5, <2>6, <2>7 DEF QueueInv
<1>11. CountInv'
  BY <1>2 DEF ReplyInv, CountInv
<1> QED
  BY <1>10, <1>11 DEF ReplyInv

\* The reader thread hands its buffer over: the same replies wait.
LEMMA SyncReplies ==
  ASSUME LogType, ReplyInv, Sync
  PROVE  ReplyInv'
<1>1. /\ Waiting' = Waiting /\ recv_packets' = recv_packets /\ Queued' = Queued
      /\ buffer' = {}
      /\ made' = made /\ logged' = logged /\ now' = now /\ pc' = pc
      /\ last_refresh' = last_refresh
  BY DEF Sync, Waiting, Queued, clocks, timers, history
<1> QED
  BY <1>1 DEF ReplyInv, QueueInv, CountInv

\* A new reply waits for its number to be looked at in no frame: draining it,
\* it comes without a count.
LEMMA DrainReplies ==
  ASSUME LogType, ReplyInv, Drain
  PROVE  ReplyInv'
<1>1. /\ pc = "recv" /\ pc' = "timer" /\ now' = now /\ last_refresh' = last_refresh
      /\ buffer' = buffer /\ stamped' = {} /\ Matched \subseteq stamped
      /\ recv_packets' = recv_packets \cup Matched
      /\ made' = made /\ logged' = logged
  BY DEF Drain, Matched, clocks, timers
<1>2. Queued' \subseteq Queued /\ Waiting' = buffer
  BY <1>1 DEF Queued, Waiting
<1>3. QueueInv'
  <2>1. \A p \in buffer : logged[p.n] = 0
    BY DEF ReplyInv, QueueInv, Waiting
  <2>2. \A p \in buffer, q \in recv_packets' : p.n # q.n
    BY <1>1 DEF ReplyInv, QueueInv, Waiting
  <2> QED
    BY <1>1, <1>2, <2>1, <2>2 DEF ReplyInv, QueueInv
<1>4. \A p \in stamped : ~(logged[p.n] > 0) /\ ~(logged[p.n] > 1)
  BY DEF ReplyInv, QueueInv, Waiting
<1>5. CountInv'
  BY <1>1, <1>4 DEF ReplyInv, CountInv
<1> QED
  BY <1>3, <1>5 DEF ReplyInv

\* A refresh is more than Refresh after the last one.
LEMMA RefreshReplies ==
  ASSUME LogType, ReplyInv, RefreshStart
  PROVE  ReplyInv'
<1>1. /\ pc = "timer" /\ pc' = "write" /\ now' = now /\ last_refresh' = now
      /\ last_refresh + Refresh < now
      /\ buffer' = buffer /\ stamped' = stamped /\ recv_packets' \subseteq recv_packets
      /\ made' = made /\ logged' = logged
      /\ now \in Int /\ last_refresh \in Int
  BY DEF RefreshStart, clocks, LogType
<1>2. Queued' \subseteq Queued /\ Waiting' = Waiting
  BY <1>1 DEF Queued, Waiting
<1>3. QueueInv'
  BY <1>1, <1>2 DEF ReplyInv, QueueInv
<1>4. ASSUME NEW p \in recv_packets'
      PROVE  /\ p.at <= now
             /\ logged[p.n] > 0 => p.at + Refresh < now
             /\ logged[p.n] > 1 => p.at + 2 * Refresh < now
  <2>1. p \in recv_packets /\ p \in Queued
    BY <1>1, <1>4 DEF Queued
  <2>2. p.at \in Int /\ p.at <= now
    BY <2>1 DEF ReplyInv, QueueInv
  <2>3. /\ logged[p.n] > 0 => p.at <= last_refresh
        /\ logged[p.n] > 1 => p.at + Refresh < last_refresh
    BY <1>1, <2>1 DEF ReplyInv, CountInv
  <2> DEFINE t == p.at
  <2> HIDE DEF t
  <2>4. t \in Int /\ t <= last_refresh => t + Refresh < now
    BY <1>1
  <2>5. t \in Int /\ t + Refresh < last_refresh => t + 2 * Refresh < now
    BY <1>1
  <2> QED
    BY <2>2, <2>3, <2>4, <2>5 DEF t
<1>5. CountInv'
  BY <1>1, <1>4 DEF ReplyInv, CountInv
<1> QED
  BY <1>3, <1>5 DEF ReplyInv

\* A frame holds what was received within Window: a reply that two frames hold
\* is older than that.
LEMMA WriteReplies ==
  ASSUME LogType, PhaseInv, ReplyInv, WriteFrame
  PROVE  ReplyInv'
<1>1. /\ pc = "write" /\ pc' = "recv" /\ now' = now /\ last_refresh' = last_refresh
      /\ buffer' = buffer /\ stamped' = stamped
      /\ recv_packets' = recv_packets /\ made' = made
      /\ logged' = [n \in Pings |->
                      logged[n] + IF \E p \in ReceivedLast : p.n = n THEN 1 ELSE 0]
      /\ now \in Int /\ last_refresh \in Int /\ last_refresh <= now
  BY DEF WriteFrame, clocks, timers, queues, LogType, PhaseInv
<1>2. logged \in [Pings -> Nat] /\ \A n \in Pings : logged[n] <= 2
  BY DEF ReplyInv, QueueInv, CountInv
<1>3. \A p \in ReceivedLast : p \in recv_packets /\ p \in Queued /\ now - p.at < Window
  BY DEF ReceivedLast, Queued
<1>4. Window <= 2 * Refresh /\ Window \in Nat
  BY DEF Window
<1>5. ASSUME NEW p \in ReceivedLast PROVE logged[p.n] <= 1
  <2>1. p \in recv_packets /\ now - p.at < Window /\ p.at \in Int /\ p.n \in Pings
    BY <1>3 DEF ReplyInv, QueueInv
  <2>2. logged[p.n] > 1 => p.at + 2 * Refresh < last_refresh
    BY <1>1, <2>1 DEF ReplyInv, CountInv
  <2>3. logged[p.n] \in Nat
    BY <1>2, <2>1
  <2> DEFINE t == p.at
             c == logged[p.n]
  <2> HIDE DEF t, c
  <2>4. ASSUME t \in Int, now - t < Window, c > 1 => t + 2 * Refresh < last_refresh, c \in Nat
        PROVE  c <= 1
    BY <1>1, <1>4, <2>4
  <2> QED
    BY <2>1, <2>2, <2>3, <2>4 DEF t, c
<1>6. ASSUME NEW n \in Pings
      PROVE  /\ logged'[n] \in Nat /\ logged'[n] <= 2
             /\ logged'[n] \in {logged[n], logged[n] + 1}
             /\ logged'[n] # logged[n] => \E p \in ReceivedLast : p.n = n
  <2>1. logged'[n] = logged[n] + IF \E p \in ReceivedLast : p.n = n THEN 1 ELSE 0
    BY <1>1
  <2>2. logged[n] \in Nat /\ logged[n] <= 2
    BY <1>2
  <2>3. CASE \E p \in ReceivedLast : p.n = n
    <3>1. logged[n] <= 1
      BY <1>5, <2>3
    <3> QED
      BY <2>1, <2>2, <2>3, <3>1
  <2>4. CASE ~\E p \in ReceivedLast : p.n = n
    BY <2>1, <2>2, <2>4
  <2> QED
    BY <2>3, <2>4
<1>7. QueueInv'
  <2>1. Queued' = Queued /\ Waiting' = Waiting
    BY <1>1 DEF Queued, Waiting
  <2>2. logged' \in [Pings -> Nat]
    BY <1>1, <1>6
  <2>3. ASSUME NEW n \in Pings, n > made' PROVE logged'[n] = 0
    <3>1. ~\E p \in ReceivedLast : p.n = n
      <4>1. \A p \in ReceivedLast : p.n <= made /\ p.n \in Pings
        BY <1>3 DEF ReplyInv, QueueInv
      <4> QED
        BY <1>1, <2>3, <4>1 DEF Pings, ReplyInv, QueueInv
    <3>2. logged[n] = 0
      BY <1>1, <2>3 DEF ReplyInv, QueueInv
    <3> QED
      BY <1>6, <3>1, <3>2
  <2>4. ASSUME NEW p \in Waiting PROVE logged'[p.n] = 0
    <3>1. p \in Queued /\ p.n \in Pings /\ logged[p.n] = 0
      BY DEF ReplyInv, QueueInv, Queued
    <3>2. \A q \in ReceivedLast : q.n # p.n
      BY <1>3 DEF ReplyInv, QueueInv
    <3> QED
      BY <1>6, <3>1, <3>2
  <2> QED
    BY <1>1, <2>1, <2>2, <2>3, <2>4 DEF ReplyInv, QueueInv
<1>8. ASSUME NEW p \in recv_packets
      PROVE  /\ p.at <= last_refresh
             /\ logged'[p.n] > 1 => p.at + Refresh < last_refresh
  <2>1. p.n \in Pings
    BY DEF ReplyInv, QueueInv, Queued
  <2>2. p.at <= last_refresh /\ (logged[p.n] > 0 => p.at + Refresh < last_refresh)
    BY <1>1 DEF ReplyInv, CountInv
  <2>3. logged'[p.n] > 1 => logged[p.n] > 0
    BY <1>2, <1>6, <2>1
  <2> QED
    BY <2>2, <2>3
<1>9. CountInv'
  BY <1>1, <1>6, <1>8 DEF CountInv
<1> QED
  BY <1>7, <1>9 DEF ReplyInv

LEMMA StepReplies == LogType /\ PhaseInv /\ ReplyInv /\ [Next]_vars => ReplyInv'
<1> SUFFICES ASSUME LogType, PhaseInv, ReplyInv, [Next]_vars PROVE ReplyInv'
  OBVIOUS
<1>1. CASE Kill
  <2>1. /\ Queued' = {} /\ Waiting' = {} /\ buffer' = {} /\ recv_packets' = {}
        /\ made' = made /\ logged' = logged
    BY <1>1 DEF Kill, Queued, Waiting, history
  <2> QED
    BY <2>1 DEF ReplyInv, QueueInv, CountInv
<1>2. CASE Restart
  <2>1. /\ Queued' = {} /\ Waiting' = {} /\ buffer' = {} /\ recv_packets' = {}
        /\ made' = made /\ logged' = logged
    BY <1>2 DEF Restart, Queued, Waiting, history, queues, ReplyInv, QueueInv
  <2> QED
    BY <2>1 DEF ReplyInv, QueueInv, CountInv
<1>3. CASE NotYet \/ SetClock \/ Tick \/ UNCHANGED vars
  <2>1. /\ buffer' = buffer /\ stamped' = stamped /\ recv_packets' = recv_packets
        /\ Queued' = Queued /\ Waiting' = Waiting
        /\ made' = made /\ logged' = logged /\ last_refresh' = last_refresh
        /\ pc' = "write" <=> pc = "write"
        /\ pc' = "down" <=> pc = "down"
        /\ now' \in {now, now + 1}
    BY <1>3 DEF NotYet, SetClock, Tick, vars, queues, timers, history, clocks, Queued, Waiting
  <2>2. \A p \in Queued : p.at <= now'
    <3>1. \A p \in Queued : p.at \in Int /\ p.at <= now
      BY DEF ReplyInv, QueueInv
    <3>2. now \in Int
      BY DEF LogType
    <3> QED
      BY <2>1, <3>1, <3>2
  <2>3. QueueInv'
    BY <2>1, <2>2 DEF ReplyInv, QueueInv
  <2>4. CountInv'
    BY <2>1 DEF ReplyInv, CountInv
  <2> QED
    BY <2>3, <2>4 DEF ReplyInv
<1> QED
  BY <1>1, <1>2, <1>3, ReplyReplies, SyncReplies, DrainReplies, RefreshReplies, WriteReplies DEF Next, Main

\* A reply is written to two frames at most (received_last, the logging of
\* main.rs), for every refresh and however long a phase of the loop takes.
THEOREM LoggedTwiceAtMost == Spec => []AtMostTwice
<1>1. FileInv => LogType
  BY DEF FileInv
<1>2. FrameInv => PhaseInv
  BY DEF FrameInv
<1>3. ReplyInv => AtMostTwice
  BY DEF ReplyInv, CountInv, AtMostTwice
<1> QED
  BY <1>1, <1>2, <1>3, InitLog, InitFrames, InitReplies, StepFile, StepFrames, StepReplies,
     PTL DEF Spec
-----------------------------------------------------------------------------
(* No reply is left out.                                                   *)

\* A reply that no frame holds is younger than the frame to come looks back: the
\* reader thread has it for Lag at most, a refresh waits for Refresh and for the
\* phase it is noticed in, and each of the phases up to the frame costs at most
\* Stall. It is handed over before the refresh after it, so that the cleanup of
\* that refresh, if it comes before the drain, finds the ping young.
FreshInv ==
  /\ skipped = {}
  /\ \A p \in buffer : now <= p.at + Lag
  /\ \A p \in Queued : logged[p.n] = 0 =>
       /\ pc # "write" => last_refresh <= p.at + Lag + Stall
       /\ pc = "recv" => entered <= p.at + Lag + Refresh + Stall
       /\ pc = "timer" => entered <= p.at + Lag + Refresh + 2 * Stall
       /\ pc = "write" => entered <= p.at + Lag + Refresh + 3 * Stall
  /\ \A p \in stamped :
       /\ pc = "timer" => entered <= p.at + Lag
       /\ pc = "write" => last_refresh <= p.at + Lag + Stall

LEMMA InitFresh == Init => FreshInv
BY DEF Init, FreshInv, Queued, Waiting

\* The times of a queued reply, by names that arithmetic can use.
LEMMA QueuedTimes ==
  ASSUME QueueInv, NEW p \in Queued
  PROVE  /\ p.n \in Pings /\ p.at \in Int /\ p.sent \in Int /\ p.at <= now
         /\ \E latency \in Latencies : p.sent = p.at - latency
BY DEF QueueInv

LEMMA ReplyFresh ==
  ASSUME LogType, PhaseInv, FreshInv, Reply
  PROVE  FreshInv'
<1>1. PICK latency \in Latencies :
        buffer' = buffer \cup {[n |-> made', sent |-> now - latency, at |-> now]}
  BY DEF Reply
<1> DEFINE r == [n |-> made', sent |-> now - latency, at |-> now]
<1>2. /\ pc # "down" /\ pc' = pc /\ entered' = entered /\ last_refresh' = last_refresh
      /\ stamped' = stamped /\ recv_packets' = recv_packets
      /\ logged' = logged /\ skipped' = skipped
      /\ now' = now /\ now \in Int /\ entered \in Int /\ last_refresh \in Int
      /\ last_refresh <= now /\ entered <= now
  BY DEF Reply, timers, clocks, LogType, PhaseInv
<1>3. r.at = now
  OBVIOUS
<1>4. Queued' = Queued \cup {r} /\ buffer' = buffer \cup {r}
  BY <1>1, <1>2 DEF Queued, Waiting
<1> HIDE DEF r
<1>5. /\ now <= now + Lag
      /\ last_refresh <= now + Lag + Stall /\ entered <= now + Lag + Refresh + Stall
      /\ entered <= now + Lag + Refresh + 2 * Stall
      /\ entered <= now + Lag + Refresh + 3 * Stall
  BY <1>2
<1> QED
  BY <1>2, <1>3, <1>4, <1>5 DEF FreshInv

LEMMA SyncFresh ==
  ASSUME LogType, PhaseInv, QueueInv, FreshInv, Sync
  PROVE  FreshInv'
<1>1. /\ buffer' = {} /\ stamped' = stamped \cup buffer /\ Queued' = Queued
      /\ pc' = pc /\ entered' = entered /\ last_refresh' = last_refresh
      /\ logged' = logged /\ skipped' = skipped /\ pc # "down"
      /\ now \in Int /\ entered \in Int /\ last_refresh \in Int
      /\ last_refresh <= now /\ entered <= now
  BY DEF Sync, Queued, Waiting, timers, history, LogType, PhaseInv
<1>2. ASSUME NEW p \in buffer
      PROVE  entered <= p.at + Lag /\ last_refresh <= p.at + Lag + Stall
  <2>1. p.at \in Int /\ now <= p.at + Lag
    BY QueuedTimes DEF Queued, Waiting, FreshInv
  <2>2. \A t \in Int : now <= t + Lag => entered <= t + Lag /\ last_refresh <= t + Lag + Stall
    BY <1>1
  <2> QED
    BY <2>1, <2>2
<1> QED
  BY <1>1, <1>2 DEF FreshInv

\* The last cleanup has left the pings of the replies that are drained in flight.
LEMMA DrainFresh ==
  ASSUME KeepsUp, LogType, PhaseInv, QueueInv, FreshInv, Drain
  PROVE  FreshInv'
<1>1. /\ pc = "recv" /\ pc' = "timer" /\ now' = now /\ entered' = now
      /\ last_refresh' = last_refresh
      /\ buffer' = buffer /\ stamped' = {} /\ Queued' \subseteq Queued /\ logged' = logged
      /\ skipped' = skipped \cup Unlogged(stamped \ Matched)
  BY DEF Drain, Matched, clocks, timers, Queued, Waiting
<1>2. /\ now \in Int /\ entered \in Int /\ last_refresh \in Int
      /\ now <= entered + Stall
  BY <1>1 DEF LogType, PhaseInv
<1>3. ASSUME NEW t \in Int, entered <= t + Lag + Refresh + Stall
      PROVE  now <= t + Lag + Refresh + 2 * Stall
  BY <1>2, <1>3
<1>4. ASSUME NEW p \in Queued, logged[p.n] = 0
      PROVE  /\ last_refresh <= p.at + Lag + Stall
             /\ now <= p.at + Lag + Refresh + 2 * Stall
  BY <1>1, <1>3, <1>4, QueuedTimes DEF FreshInv
<1>5. ASSUME NEW p \in stamped, logged[p.n] = 0
      PROVE  p \in Matched
  <2>1. p \in Queued
    BY DEF Queued, Waiting
  <2>2. p.at \in Int /\ last_refresh <= p.at + Lag + Stall
    BY <1>4, <1>5, <2>1, QueuedTimes
  <2>3. PICK latency \in Latencies : p.sent = p.at - latency
    BY <2>1, QueuedTimes
  <2> DEFINE t == p.at
  <2>4. t \in Int /\ last_refresh <= t + Lag + Stall
    BY <2>2
  <2>5. latency \in Nat /\ latency + Lag + Stall < ForgetInflight
    BY DEF KeepsUp
  <2> HIDE DEF t
  <2>6. last_refresh - (t - latency) < ForgetInflight
    BY <1>2, <2>4, <2>5
  <2> QED
    BY <2>3, <2>6 DEF t, Matched
<1>6. skipped' = {}
  BY <1>1, <1>5 DEF FreshInv, Unlogged
<1>7. \A p \in buffer' : now' <= p.at + Lag
  BY <1>1 DEF FreshInv
<1> QED
  BY <1>1, <1>4, <1>6, <1>7 DEF FreshInv

LEMMA NotYetFresh ==
  ASSUME LogType, PhaseInv, QueueInv, FreshInv, NotYet
  PROVE  FreshInv'
<1>1. /\ pc = "timer" /\ pc' = "recv" /\ now' = now /\ entered' = now
      /\ last_refresh' = last_refresh /\ buffer' = buffer
      /\ stamped' = stamped /\ Queued' = Queued /\ logged' = logged /\ skipped' = skipped
      /\ now - last_refresh <= Refresh /\ now \in Int /\ last_refresh \in Int
  BY DEF NotYet, clocks, timers, queues, history, Queued, Waiting, LogType
<1>2. ASSUME NEW t \in Int, last_refresh <= t + Lag + Stall
      PROVE  now <= t + Lag + Refresh + Stall
  BY <1>1, <1>2
<1>3. ASSUME NEW p \in Queued, logged[p.n] = 0
      PROVE  last_refresh <= p.at + Lag + Stall /\ now <= p.at + Lag + Refresh + Stall
  BY <1>1, <1>2, <1>3, QueuedTimes DEF FreshInv
<1>4. \A p \in buffer' : now' <= p.at + Lag
  BY <1>1 DEF FreshInv
<1> QED
  BY <1>1, <1>3, <1>4 DEF FreshInv

\* The cleanup forgets no reply that waits for its frame.
LEMMA RefreshFresh ==
  ASSUME KeepsUp, LogType, PhaseInv, QueueInv, FreshInv, RefreshStart
  PROVE  FreshInv'
<1>1. /\ pc = "timer" /\ pc' = "write" /\ now' = now /\ entered' = now /\ last_refresh' = now
      /\ buffer' = buffer /\ stamped' = stamped /\ logged' = logged
      /\ recv_packets' = {p \in recv_packets : now - p.sent < Retain}
      /\ skipped' = skipped \cup Unlogged(recv_packets \ recv_packets')
  BY DEF RefreshStart, clocks
<1>2. now \in Int /\ entered \in Int /\ now <= entered + Stall
  BY <1>1 DEF LogType, PhaseInv
<1>3. Queued' \subseteq Queued
  BY <1>1 DEF Queued, Waiting
<1>4. ASSUME NEW t \in Int, entered <= t + Lag + Refresh + 2 * Stall
      PROVE  now <= t + Lag + Refresh + 3 * Stall
  BY <1>2, <1>4
<1>5. ASSUME NEW p \in Queued, logged[p.n] = 0
      PROVE  now <= p.at + Lag + Refresh + 3 * Stall
  BY <1>1, <1>4, <1>5, QueuedTimes DEF FreshInv
<1>6. Unlogged(recv_packets \ recv_packets') = {}
  <2>1. ASSUME NEW p \in recv_packets, logged[p.n] = 0
        PROVE  now - p.sent < Retain
    <3>1. p \in Queued
      BY DEF Queued
    <3>2. p.at \in Int /\ now <= p.at + Lag + Refresh + 3 * Stall
      BY <1>5, <2>1, <3>1, QueuedTimes
    <3>3. PICK latency \in Latencies : p.sent = p.at - latency
      BY <3>1, QueuedTimes
    <3> DEFINE t == p.at
    <3>4. t \in Int /\ now <= t + Lag + Refresh + 3 * Stall
      BY <3>2
    <3>5. latency \in Nat /\ latency + Lag + Refresh + 4 * Stall < Retain /\ Retain \in Nat
      BY DEF KeepsUp, Retain
    <3> HIDE DEF t
    <3>6. now - (t - latency) < Retain
      BY <1>2, <3>4, <3>5
    <3> QED
      BY <3>3, <3>6 DEF t
  <2> QED
    BY <1>1, <2>1 DEF Unlogged
<1>7. skipped' = {}
  BY <1>1, <1>6 DEF FreshInv
<1>8. ASSUME NEW p \in stamped PROVE now <= p.at + Lag + Stall
  <2>1. p \in Queued /\ entered <= p.at + Lag
    BY <1>1 DEF Queued, Waiting, FreshInv
  <2>2. p.at \in Int
    BY <2>1, QueuedTimes
  <2>3. \A t \in Int : entered <= t + Lag => now <= t + Lag + Stall
    BY <1>2
  <2> QED
    BY <2>1, <2>2, <2>3
<1>9. \A p \in buffer' : now' <= p.at + Lag
  BY <1>1 DEF FreshInv
<1> QED
  BY <1>1, <1>3, <1>5, <1>7, <1>8, <1>9 DEF FreshInv

\* The frame holds every drained reply that no frame held.
LEMMA WriteFresh ==
  ASSUME KeepsUp, LogType, PhaseInv, QueueInv, FreshInv, WriteFrame
  PROVE  FreshInv'
<1>1. /\ pc = "write" /\ pc' = "recv" /\ now' = now /\ entered' = now
      /\ last_refresh' = last_refresh /\ buffer' = buffer
      /\ stamped' = stamped /\ Queued' = Queued
      /\ logged' = [n \in Pings |->
                      logged[n] + IF \E p \in ReceivedLast : p.n = n THEN 1 ELSE 0]
      /\ skipped' = skipped \cup Unlogged(recv_packets \ ReceivedLast)
  BY DEF WriteFrame, clocks, timers, queues, Queued, Waiting
<1>2. /\ now \in Int /\ entered \in Int /\ now <= entered + Stall
      /\ entered = last_refresh
  BY <1>1 DEF LogType, PhaseInv
<1>3. Lag + Refresh + 4 * Stall < Window /\ Stall <= Refresh
  <2> DEFINE half == Refresh \div 2
  <2>1. half \in Nat /\ half <= Refresh /\ 4 * Stall + Lag < half /\ Window = Refresh + half
    BY DEF KeepsUp, Window
  <2> HIDE DEF half
  <2> QED
    BY <2>1
<1>4. ASSUME NEW p \in recv_packets, logged[p.n] = 0
      PROVE  p \in ReceivedLast
  <2>1. p \in Queued
    BY DEF Queued
  <2>2. p.at \in Int /\ entered <= p.at + Lag + Refresh + 3 * Stall
    BY <1>1, <1>4, <2>1, QueuedTimes DEF FreshInv
  <2> DEFINE t == p.at
  <2>3. t \in Int /\ entered <= t + Lag + Refresh + 3 * Stall
    BY <2>2
  <2>4. Window \in Nat
    BY DEF Window
  <2> HIDE DEF t
  <2>5. now - t < Window
    BY <1>2, <1>3, <2>3, <2>4
  <2> QED
    BY <2>5 DEF t, ReceivedLast
<1>5. skipped' = {}
  BY <1>1, <1>4 DEF FreshInv, Unlogged
<1>6. ASSUME NEW p \in Queued, logged'[p.n] = 0
      PROVE  p \in Waiting
  <2>1. p.n \in Pings
    BY QueuedTimes
  <2>2. logged'[p.n] = logged[p.n] + IF \E q \in ReceivedLast : q.n = p.n THEN 1 ELSE 0
    BY <1>1, <2>1
  <2>3. logged[p.n] \in Nat
    BY <2>1 DEF QueueInv
  <2>4. logged[p.n] = 0 /\ ~\E q \in ReceivedLast : q.n = p.n
    BY <1>6, <2>2, <2>3
  <2> QED
    BY <1>4, <2>4 DEF Queued
<1>7. ASSUME NEW p \in Waiting
      PROVE  last_refresh <= p.at + Lag + Stall /\ now <= p.at + Lag + Refresh + Stall
  <2>1. p.at \in Int
    BY QueuedTimes DEF Queued
  <2>2. CASE p \in stamped
    <3>1. last_refresh <= p.at + Lag + Stall
      BY <1>1, <2>2 DEF FreshInv
    <3>2. \A t \in Int : entered <= t + Lag + Stall => now <= t + Lag + Refresh + Stall
      BY <1>2, <1>3
    <3> QED
      BY <1>2, <2>1, <3>1, <3>2
  <2>3. CASE p \in buffer
    <3>1. now <= p.at + Lag
      BY <2>3 DEF FreshInv
    <3>2. last_refresh <= now
      BY <1>1 DEF PhaseInv
    <3>3. \A t \in Int : now <= t + Lag =>
            last_refresh <= t + Lag + Stall /\ now <= t + Lag + Refresh + Stall
      BY <1>2, <3>2
    <3> QED
      BY <2>1, <3>1, <3>3
  <2> QED
    BY <2>2, <2>3 DEF Waiting
<1>8. \A p \in buffer' : now' <= p.at + Lag
  BY <1>1 DEF FreshInv
<1> QED
  BY <1>1, <1>5, <1>6, <1>7, <1>8 DEF FreshInv, Waiting

\* Time does not pass a reply in the buffer by more than Lag.
LEMMA TickFresh ==
  ASSUME LogType, QueueInv, FreshInv, Tick
  PROVE  FreshInv'
<1>1. /\ buffer' = buffer /\ stamped' = stamped /\ Queued' = Queued
      /\ logged' = logged /\ skipped' = skipped
      /\ pc' = pc /\ entered' = entered /\ last_refresh' = last_refresh
      /\ now' = now + 1 /\ now \in Int
      /\ \A p \in buffer : now < p.at + Lag
  BY DEF Tick, queues, timers, history, Queued, Waiting, LogType
<1>2. ASSUME NEW p \in buffer PROVE now' <= p.at + Lag
  <2>1. p.at \in Int /\ now < p.at + Lag
    BY <1>1, QueuedTimes DEF Queued, Waiting
  <2>2. \A t \in Int : now < t + Lag => now + 1 <= t + Lag
    BY <1>1
  <2> QED
    BY <1>1, <2>1, <2>2
<1> QED
  BY <1>1, <1>2 DEF FreshInv

LEMMA StepFresh ==
  KeepsUp /\ LogType /\ PhaseInv /\ ReplyInv /\ FreshInv /\ [Next]_vars => FreshInv'
<1> SUFFICES ASSUME KeepsUp, LogType, PhaseInv, ReplyInv, FreshInv, [Next]_vars
             PROVE  FreshInv'
  OBVIOUS
<1>1. QueueInv
  BY DEF ReplyInv
<1>2. CASE Kill
  <2>1. Queued' = {} /\ buffer' = {} /\ stamped' = {} /\ skipped' = skipped
    BY <1>2 DEF Kill, Queued, Waiting, history
  <2> QED
    BY <2>1 DEF FreshInv
<1>3. CASE Restart
  <2>1. Queued' = {} /\ buffer' = {} /\ stamped' = {} /\ skipped' = skipped
    BY <1>1, <1>3 DEF Restart, Queued, Waiting, history, queues, QueueInv
  <2> QED
    BY <2>1 DEF FreshInv
<1>4. CASE SetClock \/ UNCHANGED vars
  <2>1. /\ buffer' = buffer /\ stamped' = stamped /\ Queued' = Queued
        /\ logged' = logged /\ skipped' = skipped /\ now' = now
        /\ pc' = pc /\ entered' = entered /\ last_refresh' = last_refresh
    BY <1>4 DEF SetClock, vars, queues, clocks, timers, history, Queued, Waiting
  <2> QED
    BY <2>1 DEF FreshInv
<1> QED
  BY <1>1, <1>2, <1>3, <1>4, ReplyFresh, SyncFresh, DrainFresh, NotYetFresh, RefreshFresh,
     WriteFresh, TickFresh DEF Next, Main

\* No reply is left out of the frames while four phases of the loop and the
\* delay of the reader thread fit into half of cli_refresh, a ping is in flight
\* for longer than its latency, that delay and a phase, and the queue outlives
\* the latency, the delay, a refresh and four phases (receiver_thread,
\* Comms::recv_all and cleanup, received_last).
THEOREM RepliesNotSkipped == Spec => []NoneSkipped
<1>1. FileInv => LogType
  BY DEF FileInv
<1>2. FrameInv => PhaseInv
  BY DEF FrameInv
<1>3. CASE KeepsUp
  <2>1. FreshInv => NoneSkipped
    BY DEF FreshInv, NoneSkipped
  <2>2. LogType /\ PhaseInv /\ ReplyInv /\ FreshInv /\ [Next]_vars => FreshInv'
    BY <1>3, StepFresh
  <2> QED
    BY <1>1, <1>2, <2>1, <2>2, InitLog, InitFrames, InitReplies, InitFresh,
       StepFile, StepFrames, StepReplies, PTL DEF Spec
<1>4. CASE ~KeepsUp
  <2>1. NoneSkipped
    BY <1>4 DEF KeepsUp, NoneSkipped
  <2> QED
    BY <2>1, PTL
<1> QED
  BY <1>3, <1>4
=============================================================================

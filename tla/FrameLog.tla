------------------------------ MODULE FrameLog ------------------------------
(***************************************************************************)
(* The disk log of zzping-daemon: the refresh of main that turns the queue *)
(* of received pings into frames, its hourly files (main.rs;               *)
(* transport.rs, create_log_file and received_last) and the reader that    *)
(* turns a file back into times (zzping-lib/src/framedata.rs,              *)
(* FrameDataVec::read). One host: the hosts' files do not interact.        *)
(*                                                                         *)
(* Two clocks: now is the monotone one (Instant) that the timers use;      *)
(* now + skew is the wall clock (Utc::now) that stamps and names files,    *)
(* and that may be set. The daemon has no orderly end: it is killed, and   *)
(* what its BufWriter holds is lost. A frame is what the file says (full,  *)
(* time) with the instant and clock it was made at, which only the         *)
(* properties read.                                                        *)
(***************************************************************************)
EXTENDS Integers, Sequences, FiniteSets, FiniteSetsExt, SequencesExt

CONSTANTS
  Refresh,      \* cli_refresh
  ReportEvery,  \* report_every_secs
  Long,         \* the 60 s by which the timers are set back at the start
  Hour,         \* length of the period of one log file
  ForgetInflight, ForgetRecv,  \* limits of Comms::cleanup
  Latencies,    \* latencies of the pings
  Skews,        \* settings of the wall clock
  BufCap,       \* frames that fit into the BufWriter
  Stall,        \* the most time a phase of main's loop takes
  Lag,          \* the most time a reply stays with the reader thread
  MaxPings,     \* bound of the pings answered
  MaxTime       \* bound of the monotone clock

ASSUME TimerAssumption ==
  /\ Refresh \in Nat
  /\ ReportEvery \in Nat
  /\ Long \in Nat
  /\ Long > Refresh
  /\ Long > ReportEvery
  /\ ForgetInflight \in Nat
  /\ ForgetRecv \in Nat

ASSUME ClockAssumption ==
  /\ Hour \in Nat \ {0}
  /\ Skews \subseteq Nat
  /\ Latencies \subseteq Nat

ASSUME LogBoundAssumption ==
  /\ BufCap \in Nat \ {0}
  /\ Stall \in Nat
  /\ Lag \in Nat
  /\ MaxPings \in Nat
  /\ MaxTime \in Nat

VARIABLES
  now, skew,
  clock_set,     \* somebody has set the clock; only the properties read it
  buffer,        \* replies that the reader thread has stamped, its own
  stamped,       \* replies it has handed over, not yet drained: readbuf
  recv_packets,
  pc,            \* phase of main's loop, or "down"
  entered,       \* when the phase began
  last_refresh, time_since_report, since_report_elapsed, strnow,  \* locals of main
  files,         \* files[h]: what the disk holds of the log file of hour h
  pending,       \* what the BufWriter of the current file holds
  made,          \* number of replies stamped
  logged,        \* logged[n]: number of frames that reply n was written to
  skipped        \* replies that no frame held when their time was over

clocks == <<now, skew, clock_set>>
queues == <<buffer, stamped, recv_packets>>
timers == <<last_refresh, time_since_report, since_report_elapsed>>
disk == <<files, pending, strnow>>
history == <<made, logged, skipped>>
vars == <<clocks, queues, pc, entered, timers, disk, history>>

Wall == now + skew
Hours == 0 .. (MaxTime + Max(Skews)) \div Hour
Pings == 1 .. MaxPings

Retain == ForgetInflight + ForgetRecv

Ping == [n : Pings, sent : Int, at : Nat]
Unlogged(S) == {p.n : p \in {q \in S : logged[q.n] = 0}}
Frame == [full : BOOLEAN, time : Nat, at : Nat, skew : Skews]

-----------------------------------------------------------------------------
(* get_logfile_now: the hour of the wall clock.                            *)

LogfileNow == Wall \div Hour

\* The daemon starts: the timers lie Long back, the file of the hour is new.
Init ==
  /\ now = 0
  /\ skew \in Skews
  /\ clock_set = FALSE
  /\ buffer = {}
  /\ stamped = {}
  /\ recv_packets = {}
  /\ pc = "recv"
  /\ entered = 0
  /\ last_refresh = -Long
  /\ time_since_report = -Long
  /\ since_report_elapsed = 0
  /\ strnow = LogfileNow
  /\ files = [h \in Hours |-> <<>>]
  /\ pending = <<>>
  /\ made = 0
  /\ logged = [n \in Pings |-> 0]
  /\ skipped = {}

-----------------------------------------------------------------------------
(* The round: the reader thread and recv_all.                              *)

\* The reader thread stamps the reply to a ping, into its own buffer.
Reply ==
  /\ pc # "down"
  /\ made < MaxPings
  /\ made' = made + 1
  /\ \E latency \in Latencies :
       buffer' = buffer \cup {[n |-> made', sent |-> now - latency, at |-> now]}
  /\ UNCHANGED <<clocks, stamped, recv_packets, pc, entered, timers, disk, logged, skipped>>

\* It hands its buffer over, when it runs again after sync_time and try_lock
\* succeeds: at once, or any time up to Lag after the stamp.
Sync ==
  /\ pc # "down"
  /\ buffer # {}
  /\ stamped' = stamped \cup buffer
  /\ buffer' = {}
  /\ UNCHANGED <<clocks, recv_packets, pc, entered, timers, disk, history>>

\* recv matches a reply while its ping is in flight: the last cleanup, if there
\* was one since, did not forget it.
Matched == {p \in stamped : last_refresh - p.sent < ForgetInflight}

\* The last drain of recv_all, and send_all.
Drain ==
  /\ pc = "recv"
  /\ recv_packets' = recv_packets \cup Matched
  /\ stamped' = {}
  /\ skipped' = skipped \cup Unlogged(stamped \ Matched)
  /\ pc' = "timer"
  /\ entered' = now
  /\ UNCHANGED <<clocks, buffer, timers, disk, made, logged>>

-----------------------------------------------------------------------------
(* The refresh.                                                            *)

\* Faults: the file is created at every report; a new hour is noticed at every
\* refresh.
RotatesAlways(since) == since > ReportEvery
RotatesAnytime(since) == LogfileNow # strnow

ReportTimer(since) == IF since > ReportEvery THEN now ELSE time_since_report
Rotates(since) == since > ReportEvery /\ LogfileNow # strnow

\* create_log_file: the new file is emptied, the old one flushed.
CreateLogFile ==
  /\ strnow' = LogfileNow
  /\ files' = [files EXCEPT ![strnow] = @ \o pending, ![LogfileNow] = <<>>]
  /\ pending' = <<>>

\* The timer has not run out.
NotYet ==
  /\ pc = "timer"
  /\ now - last_refresh <= Refresh
  /\ pc' = "recv"
  /\ entered' = now
  /\ UNCHANGED <<clocks, queues, timers, disk, history>>

\* It has: cleanup, the report timer, the log file; the statistics and their
\* UDP messages read the queues only.
RefreshStart ==
  /\ pc = "timer"
  /\ now - last_refresh > Refresh
  /\ last_refresh' = now
  /\ recv_packets' = {p \in recv_packets : now - p.sent < Retain}
  /\ skipped' = skipped \cup Unlogged(recv_packets \ recv_packets')
  /\ LET since == now - time_since_report IN
       /\ since_report_elapsed' = since
       /\ time_since_report' = ReportTimer(since)
       /\ IF Rotates(since) THEN CreateLogFile ELSE UNCHANGED disk
  /\ pc' = "write"
  /\ entered' = now
  /\ UNCHANGED <<clocks, buffer, stamped, made, logged>>

\* Faults: the frame holds what came since the last refresh; twice as much.
WindowExact == Refresh
WindowDoubled == 2 * Refresh + Refresh \div 2

\* The frame holds what was received in the last one and a half refreshes.
Window == Refresh + Refresh \div 2
ReceivedLast == {p \in recv_packets : now - p.at < Window}

\* Fault: the first frame of a file only.
IsFullFirst == files[strnow] \o pending = <<>>

\* The time of a frame: the wall clock, or what has passed since the report.
IsFull == since_report_elapsed > ReportEvery
NewFrame ==
  [full |-> IsFull,
   time |-> IF IsFull THEN Wall ELSE since_report_elapsed,
   at |-> last_refresh,
   skew |-> skew]

\* What BufWriter writes to the disk before it takes one more frame.
Spilled == IF Len(pending) = BufCap THEN pending ELSE <<>>

\* The logging phase, and the next call of recv_all.
WriteFrame ==
  /\ pc = "write"
  /\ files' = [files EXCEPT ![strnow] = @ \o Spilled]
  /\ pending' = Append(SubSeq(pending, Len(Spilled) + 1, Len(pending)), NewFrame)
  /\ logged' = [n \in Pings |->
                  logged[n] + IF \E p \in ReceivedLast : p.n = n THEN 1 ELSE 0]
  /\ skipped' = skipped \cup Unlogged(recv_packets \ ReceivedLast)
  /\ pc' = "recv"
  /\ entered' = now
  /\ UNCHANGED <<clocks, queues, timers, strnow, made>>

-----------------------------------------------------------------------------
(* The environment.                                                        *)

\* The daemon is killed.
Kill ==
  /\ pc # "down"
  /\ pc' = "down"
  /\ buffer' = {}
  /\ stamped' = {}
  /\ recv_packets' = {}
  /\ pending' = <<>>
  /\ UNCHANGED <<clocks, entered, timers, files, strnow, history>>

\* A new daemon: File::create empties the file of the hour if there is one.
Restart ==
  /\ pc = "down"
  /\ pc' = "recv"
  /\ entered' = now
  /\ last_refresh' = now - Long
  /\ time_since_report' = now - Long
  /\ since_report_elapsed' = 0
  /\ strnow' = LogfileNow
  /\ files' = [files EXCEPT ![LogfileNow] = <<>>]
  /\ UNCHANGED <<clocks, queues, pending, history>>

SetClock ==
  /\ skew' \in Skews \ {skew}
  /\ clock_set' = TRUE
  /\ UNCHANGED <<now, queues, pc, entered, timers, disk, history>>

Tick ==
  /\ now < MaxTime
  /\ pc # "down" => now < entered + Stall
  /\ \A p \in buffer : now < p.at + Lag
  /\ now' = now + 1
  /\ UNCHANGED <<skew, clock_set, queues, pc, entered, timers, disk, history>>

Main == Drain \/ NotYet \/ RefreshStart \/ WriteFrame
Next == Reply \/ Sync \/ Main \/ Kill \/ Restart \/ SetClock \/ Tick

Spec == Init /\ [][Next]_vars

-----------------------------------------------------------------------------
(* FrameDataVec::read: the times of the frames of a file. A frame that is  *)
(* not full adds its time to that of the last full one.                    *)

KeyOf(s, i) == Max({j \in 1 .. i : s[j].full})
Decoded(s, i) == IF s[i].full THEN s[i].time ELSE s[KeyOf(s, i)].time + s[i].time

-----------------------------------------------------------------------------
(* Properties.                                                             *)

\* What the log file of hour h holds once the writer is flushed.
Content(h) == files[h] \o (IF h = strnow THEN pending ELSE <<>>)

\* Every variable has its type; the writer never holds more than it can.
TypeOK ==
  /\ now \in Nat /\ skew \in Skews /\ clock_set \in BOOLEAN
  /\ buffer \subseteq Ping /\ stamped \subseteq Ping /\ recv_packets \subseteq Ping
  /\ pc \in {"recv", "timer", "write", "down"}
  /\ entered \in Nat
  /\ last_refresh \in Int /\ time_since_report \in Int
  /\ since_report_elapsed \in Nat
  /\ strnow \in Hours
  /\ files \in [Hours -> Seq(Frame)]
  /\ pending \in Seq(Frame) /\ Len(pending) <= BufCap
  /\ made \in 0 .. MaxPings
  /\ logged \in [Pings -> Nat] /\ skipped \subseteq Pings

\* Every log file begins with a full frame, whatever the clock, the crashes
\* and the hours do: FrameDataVec::read gives up on a file that does not
\* ("no last_keyframe"), and with it the whole hour.
FirstFrameFull == \A h \in Hours : Content(h) # <<>> => Content(h)[1].full

\* What FrameDataVec::read makes of a file is right: the time of each frame is
\* that of its refresh by the wall clock its key frame was stamped with, late
\* by at most the length of that refresh, and the key frame is not older than
\* ReportEvery, so a clock that was set is followed within that time.
DecodedRight ==
  \A h \in Hours : LET s == Content(h) IN
    \A i \in 1 .. Len(s) : LET key == s[KeyOf(s, i)] IN
      /\ Decoded(s, i) - (s[i].at + key.skew) \in 0 .. Stall
      /\ s[i].at - key.at <= ReportEvery

\* The decoded times of a file increase while nobody sets the clock and a
\* refresh takes less than cli_refresh: FDCodecState::peek_encode subtracts
\* unsigned times and the GUI unwraps the width of a window.
DecodedInOrder ==
  Stall <= Refresh =>
    \A h \in Hours : LET s == Content(h) IN
      (\A i, j \in 1 .. Len(s) : s[i].skew = s[j].skew) =>
        \A i \in 2 .. Len(s) : Decoded(s, i - 1) < Decoded(s, i)

\* A reply is written to two frames at most, though the frames overlap and
\* however slow the loop and the reader thread are.
AtMostTwice == \A n \in Pings : logged[n] <= 2

\* What the threads and the retentions owe: four phases of main's loop and the
\* reader's delay fit into half a refresh; a ping is in flight until its reply is
\* drained; a received one is kept until the frame after that.
KeepsUp ==
  /\ 4 * Stall + Lag < Refresh \div 2
  /\ \A latency \in Latencies :
       /\ latency + Lag + Stall < ForgetInflight
       /\ latency + Lag + Refresh + 4 * Stall < Retain

\* No reply is left out of the frames when both threads keep up and the queues
\* are kept long enough.
NoneSkipped == KeepsUp => skipped = {}

\* A log file only grows, except that of the current hour when the daemon is
\* started again or, once the clock was set, when the log turns to an hour that
\* has a file already; a kill costs no more than the writer held.
FilesGrow ==
  \A h \in Hours :
    \/ IsPrefix(files[h], files'[h])
    \/ h = LogfileNow /\ (pc = "down" \/ (clock_set /\ strnow # h))

LogsKept == [][FilesGrow]_vars
=============================================================================

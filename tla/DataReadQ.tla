----------------------------- MODULE DataReadQ ------------------------------
(***************************************************************************)
(* datareadq of zzping-lib: a thread per input reads a log and encodes it  *)
(* with a codec of its own; the main thread joins them in turn and writes  *)
(* what they return behind each other. It may be killed. Whoever opens the *)
(* output then reads what is on the disk (FDCodecIter). The frames of an   *)
(* input are those that its codec has encoded.                             *)
(***************************************************************************)
EXTENDS FrameFile, FiniteSets

CONSTANTS
  Logs,         \* possible inputs: sequences of the encoded frames of a log
  NumInputs,    \* number of the inputs
  MaxHandles,   \* main joins a thread when it has more than these: 7
  Cfgs          \* what the header may say

Inputs == 1 .. NumInputs

ASSUME InputAssumption ==
  /\ NumInputs \in Nat
  /\ MaxHandles \in Nat
  /\ Logs \subseteq Seq(EncodedFrame)

ASSUME CfgAssumption ==
  /\ Version \in Nat
  /\ Cfgs \subseteq [schema : STRING, version : Nat, full_encode_secs : Int,
                   recv_llq : Nat, delta_enc : BOOLEAN]

VARIABLES
  cfg,        \* codeccfg, with the schema and version of the program
  log,        \* log[i]: the frames of input i
  missing,    \* inputs that cannot be opened
  thread,     \* thread[i]: "none", "running", "ended" or "panicked"
  handles,    \* the threads main holds, in the order it started them
  obuffer,    \* what was written to the output
  auto,       \* auto[i]: the file of input i alone, with auto_output
  main,       \* "running", "done", "panicked" or "killed"
  disk,       \* the output as it is on the disk once main is gone
  reader,     \* "closed", "reading", "ended" or "panicked"
  rpos,       \* where FDCodecIter is in the file
  got         \* what it returned

inputs == <<cfg, log, missing>>
threads == <<thread, handles>>
written == <<obuffer, auto>>
iter == <<reader, rpos, got>>
vars == <<inputs, threads, written, main, disk, iter>>

\* What read_inputfile returns of input i.
Encoded(i) == Concat([n \in DOMAIN log[i] |-> TryToRmp(log[i][n])])

Header == GetHeader(cfg)

Init ==
  /\ cfg \in Cfgs
  /\ log \in [Inputs -> Logs]
  /\ missing \in {{}} \cup {{i} : i \in Inputs}
  /\ thread = [i \in Inputs |-> "none"]
  /\ handles = <<>>
  /\ obuffer = Header
  /\ auto = [i \in Inputs |-> <<>>]
  /\ main = "running"
  /\ disk = <<>>
  /\ reader = "closed"
  /\ rpos = 1
  /\ got = <<>>

-----------------------------------------------------------------------------
(* The threads.                                                            *)

Started == Cardinality({i \in Inputs : thread[i] # "none"})

\* main pushes the handle of a new thread, unless it has one to join first.
Spawn ==
  /\ main = "running"
  /\ Started < NumInputs
  /\ Len(handles) <= MaxHandles
  /\ thread' = [thread EXCEPT ![Started + 1] = "running"]
  /\ handles' = Append(handles, Started + 1)
  /\ UNCHANGED <<inputs, written, main, disk, iter>>

\* read_inputfile: the whole frames of its log, wherever that ends. It panics
\* if the log cannot be opened.
ReadInputfile(i) ==
  /\ main = "running"
  /\ thread[i] = "running"
  /\ thread' = [thread EXCEPT ![i] = IF i \in missing THEN "panicked" ELSE "ended"]
  /\ UNCHANGED <<inputs, handles, written, main, disk, iter>>

\* Faults: the newest handle is taken; a join waits for a result only.
NewestHandle == Len(handles)
EndedWell(i) == thread[i] = "ended"

\* handles.remove(0), and the loop over those that remain.
FirstHandle == 1
NextHandle == handles[FirstHandle]
Ended(i) == thread[i] \in {"ended", "panicked"}

\* main has too many handles, or has started all.
Joins == Len(handles) > MaxHandles \/ (Started = NumInputs /\ handles # <<>>)

\* It writes what the thread returned.
Join ==
  /\ main = "running"
  /\ Joins
  /\ thread[NextHandle] = "ended"
  /\ handles' = RemoveAt(handles, FirstHandle)
  /\ auto' = [auto EXCEPT ![NextHandle] = Header \o Encoded(NextHandle)]
  /\ obuffer' = obuffer \o Encoded(NextHandle)
  /\ UNCHANGED <<inputs, thread, main, disk, iter>>

\* The join of a thread that panicked panics main; its BufWriter is flushed
\* when it is dropped.
JoinPanics ==
  /\ main = "running"
  /\ Joins
  /\ Ended(NextHandle) /\ thread[NextHandle] # "ended"
  /\ main' = "panicked"
  /\ disk' = obuffer
  /\ UNCHANGED <<inputs, threads, written, iter>>

Finish ==
  /\ main = "running"
  /\ Started = NumInputs /\ handles = <<>>
  /\ main' = "done"
  /\ disk' = obuffer
  /\ UNCHANGED <<inputs, threads, written, iter>>

\* datareadq is killed: the disk has any part of what was written.
Kill ==
  /\ main = "running"
  /\ main' = "killed"
  /\ \E n \in 0 .. Len(obuffer) : disk' = SubSeq(obuffer, 1, n)
  /\ UNCHANGED <<inputs, threads, written, iter>>

-----------------------------------------------------------------------------
(* FDCodecIter on the output.                                              *)

\* FDCodecIter::new.
Open ==
  /\ main # "running"
  /\ reader = "closed"
  /\ LET header == TryFromHeader(disk) IN
       IF header.ok THEN reader' = "reading" /\ rpos' = header.pos
       ELSE reader' = "panicked" /\ UNCHANGED rpos
  /\ UNCHANGED <<inputs, threads, written, main, disk, got>>

\* Fault: where the file ends inside a frame, so do the frames.
EndsAnywhere(frame) == frame.err \in {"EOF", "value", "eof"}

EndsFrames(frame) == frame.err = "EOF"

\* next: a frame, None, or a panic.
NextFrame ==
  /\ reader = "reading"
  /\ LET frame == TryFromRmp(disk, rpos) IN
       IF frame.ok
       THEN /\ got' = Append(got, frame.v)
            /\ rpos' = frame.pos
            /\ UNCHANGED reader
       ELSE /\ reader' = IF EndsFrames(frame) THEN "ended" ELSE "panicked"
            /\ UNCHANGED <<rpos, got>>
  /\ UNCHANGED <<inputs, threads, written, main, disk>>

MainThread == Spawn \/ Join \/ JoinPanics \/ Finish

Next ==
  \/ MainThread
  \/ \E i \in Inputs : ReadInputfile(i)
  \/ Kill
  \/ Open
  \/ NextFrame

\* The system runs every thread.
Spec ==
  /\ Init
  /\ [][Next]_vars
  /\ WF_vars(MainThread)
  /\ \A i \in Inputs : WF_vars(ReadInputfile(i))

-----------------------------------------------------------------------------
(* Properties.                                                             *)

\* The output is the header and the inputs in the order of the arguments, one
\* after the other, whichever thread ends first; when main is gone in order
\* or because an input cannot be opened, it is that of all inputs before.
\* The file of an input holds that input alone.
InArgumentOrder ==
  /\ \E n \in 0 .. NumInputs :
       /\ obuffer = Header \o Concat([i \in 1 .. n |-> Encoded(i)])
       /\ \A i \in Inputs :
            auto[i] = IF i <= n THEN Header \o Encoded(i) ELSE <<>>
       /\ main = "done" => n = NumInputs
       /\ main = "panicked" => n + 1 \in missing
  /\ main \in {"done", "panicked"} => disk = obuffer

\* A frame as the file can hold it: whole numbers of packets.
AsHeld(f) ==
  [f EXCEPT !.inflight = 2 * Rounded(@), !.lost_packets = 2 * Rounded(@)]

AllFrames == Concat(log)

\* What is read are frames that were written, in their order and as they were,
\* with their sentinels, differences and gaps, and with the configuration they
\* were written with; and they end where the file ends between two frames,
\* never inside of one.
ReadsFrames ==
  /\ reader \in {"reading", "ended"} =>
       LET read == TryFromHeader(disk) IN
       \A field \in {"full_encode_secs", "recv_llq", "delta_enc"} : read[field] = cfg[field]
  /\ got = [i \in DOMAIN got |-> AsHeld(AllFrames[i])]
  /\ reader = "ended" =>
       disk = Header \o Concat([i \in DOMAIN got |-> TryToRmp(AllFrames[i])])

\* The reader panics on nothing but a file that a kill has cut, inside the
\* header or a frame, and on a header of another program or a newer one.
PanicsOnCutOnly ==
  reader = "panicked" =>
    \/ cfg.schema # Schema \/ cfg.version > Version
    \/ main = "killed" /\ disk # Header \o Concat([i \in DOMAIN got |-> TryToRmp(AllFrames[i])])

\* datareadq ends: no join waits for ever, also for a thread that panicked.
Completes == <>(main # "running")
=============================================================================

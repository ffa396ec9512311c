------------------------------- MODULE Ledger -------------------------------
(***************************************************************************)
(* What the pinger promises about every ping it sends, whatever the        *)
(* threads, the network and the clock do: a ping waits until it is         *)
(* answered or, not before LossAge, declared lost; it is never both, never *)
(* twice, and it is forgotten only when its retention has run out. This is *)
(* what the comments on Destination's three queues say                     *)
(* (zzping-daemon/src/transport.rs:92-107) and what daemon_config.ron says *)
(* of keep_packets.                                                        *)
(***************************************************************************)
EXTENDS Integers

CONSTANTS
  Dest,      \* the destinations
  LossAge,   \* age at which a ping may be declared lost
  RecvAge,   \* age at which an answered ping may be forgotten
  LostAge    \* age at which a lost ping may be forgotten

VARIABLES
  clock,     \* the time
  issued,    \* issued[d]: number of pings sent to d
  waiting,   \* waiting[d]: pings that await an answer, with ordinal and time
  answered,
  missed

vars == <<clock, issued, waiting, answered, missed>>

Ping == [n : Nat, sent : Nat]

\* The pings of S that are old enough for "age".
Aged(S, age) == {p \in S : clock - p.sent >= age}

Init ==
  /\ clock = 0
  /\ issued = [d \in Dest |-> 0]
  /\ waiting = [d \in Dest |-> {}]
  /\ answered = [d \in Dest |-> {}]
  /\ missed = [d \in Dest |-> {}]

Issue(d) ==
  /\ issued' = [issued EXCEPT ![d] = @ + 1]
  /\ \E sent \in 0 .. clock :
       waiting' = [waiting EXCEPT ![d] = @ \cup {[n |-> issued[d] + 1, sent |-> sent]}]
  /\ UNCHANGED <<clock, answered, missed>>

\* One reply may answer several pings, of several destinations.
Answer ==
  /\ waiting' \in [Dest -> SUBSET UNION {waiting[d] : d \in Dest}]
  /\ \A d \in Dest : waiting'[d] \subseteq waiting[d]
  /\ answered' = [d \in Dest |-> answered[d] \cup (waiting[d] \ waiting'[d])]
  /\ UNCHANGED <<clock, issued, missed>>

\* Old pings are declared lost, older ones forgotten.
Expire ==
  /\ \A d \in Dest :
       LET overdue == waiting[d] \ waiting'[d] IN
       /\ waiting'[d] \subseteq waiting[d]
       /\ overdue \subseteq Aged(waiting[d], LossAge)
       /\ answered'[d] \subseteq answered[d]
       /\ answered[d] \ answered'[d] \subseteq Aged(answered[d], RecvAge)
       /\ missed'[d] \subseteq missed[d] \cup overdue
       /\ (missed[d] \cup overdue) \ missed'[d] \subseteq Aged(missed[d] \cup overdue, LostAge)
  /\ DOMAIN waiting' = Dest
  /\ DOMAIN answered' = Dest
  /\ DOMAIN missed' = Dest
  /\ UNCHANGED <<clock, issued>>

Pass ==
  /\ clock' \in Nat
  /\ clock' >= clock
  /\ UNCHANGED <<issued, waiting, answered, missed>>

Next == (\E d \in Dest : Issue(d)) \/ Answer \/ Expire \/ Pass

Spec == Init /\ [][Next]_vars
=============================================================================

----------------------------- MODULE MCLiveView -----------------------------
(* An instance of LiveView for TLC.                                        *)
EXTENDS LiveView

\* The second host and the first one.
SomeDisplayed == <<2, 1>>

Answering ==
  [inflight |-> {1}, recv |-> {[received |-> 300000, ago |-> 0], [received |-> 600000, ago |-> 1],
                               [received |-> 100000, ago |-> 5]}, lost |-> 0]
Failing == [inflight |-> {0, 3}, recv |-> {[received |-> 200000, ago |-> 5]}, lost |-> 1]
SomeQueues == <<Answering, Failing>>
=============================================================================

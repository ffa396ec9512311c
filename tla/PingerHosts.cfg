\* Two hosts that are pinged at different rates, one ping per round, idents
\* that may collide, a foreign packet and up to two replies in the buffers.
SPECIFICATION Spec
CONSTANTS
  NumDest = 2
  Interval <- TwoIntervals
  Seqs = {1}
  Idents = {1, 2}
  Foreign <- OneForeign
  ForgetInflight = 1
  ForgetLost = 1
  ForgetRecv = 1
  Delay = 2
  CliRefresh = 0
  SyncTime = 1
  RndMin = 0
  RndMax = 1
  Jitter = 1
  SendLimit = 1
  MaxTime = 7
  MaxSend = 2
  MaxBuffered = 2
INVARIANTS
  SendSpacing
  OwnReply
\* The clock is bounded, and a failed send_to ends the daemon.
CHECK_DEADLOCK FALSE

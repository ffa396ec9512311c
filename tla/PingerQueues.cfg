\* One host, three pings, equal sequence numbers, replies at any time and any
\* number of times; forget_inflight = forget_recv as in daemon_config.ron.
SPECIFICATION Spec
CONSTANTS
  NumDest = 1
  Interval <- OneInterval
  Seqs = {1, 2}
  Idents = {1}
  Foreign = {}
  ForgetInflight = 2
  ForgetLost = 1
  ForgetRecv = 2
  Delay = 0
  CliRefresh = 1
  SyncTime = 0
  RndMin = 0
  RndMax = 1
  Jitter = 0
  SendLimit = 2
  MaxTime = 5
  MaxSend = 3
  MaxBuffered = 1
INVARIANTS
  TypeOK
  InflightBound
  AccountedOnce
  Conservation
  RttSound
  Retention
  LostOnlyAfterTimeout
PROPERTIES
  KeepsLedger
\* The clock is bounded, and a failed send_to ends the daemon.
CHECK_DEADLOCK FALSE

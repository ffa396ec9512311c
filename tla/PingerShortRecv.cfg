SPECIFICATION Spec
CONSTANTS
  NumDest = 1
  Interval <- OneInterval
  Seqs = {1}
  Idents = {1}
  Foreign = {}
  ForgetInflight = 2
  ForgetLost = 1
  ForgetRecv = 1
  Delay = 0
  CliRefresh = 0
  SyncTime = 0
  RndMin = 0
  RndMax = 1
  Jitter = 0
  SendLimit = 2
  MaxTime = 4
  MaxSend = 1
  MaxBuffered = 1
INVARIANT LostOnlyAfterTimeout
CHECK_DEADLOCK FALSE

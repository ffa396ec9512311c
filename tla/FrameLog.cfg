\* One reply at any time, handed over at once or later, and a refresh in every
\* window, kills, restarts, and a wall clock that is set back and forth between
\* the hours.
SPECIFICATION Spec
CONSTANTS
  Refresh = 12
  ReportEvery = 13
  Long = 18
  Hour = 27
  ForgetInflight = 7
  ForgetRecv = 24
  Latencies = {4}
  Skews = {0, 13}
  BufCap = 1
  Stall = 1
  Lag = 1
  MaxPings = 1
  MaxTime = 28
INVARIANTS
  FirstFrameFull
  DecodedRight
  DecodedInOrder
  AtMostTwice
  NoneSkipped
PROPERTY LogsKept
\* The clock is bounded.
CHECK_DEADLOCK FALSE

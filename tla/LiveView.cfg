\* Two hosts, two refreshes; sample limits that panic, that show nothing, one
\* or two samples, and more than a u32 can add up.
SPECIFICATION FairSpec
CONSTANTS
  NumDest = 2
  Displayed <- SomeDisplayed
  Queues <- SomeQueues
  TimeAvg = 2
  LossInflight = 3
  LossRecv = 6
  LatencyCap = 400000
  Width = 1000000
  SampleLimits = {0, 1, 3, 4}
  OverflowChecks = TRUE
  SocketCap = 2
  MaxRefreshes = 2
  MaxArrivals = 3
INVARIANTS
  ShowsLatest
  ReportsTrue
  NoPanic
PROPERTY Drains
CHECK_DEADLOCK FALSE

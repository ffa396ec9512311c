\* Files of up to four frames that gaps fill up to a hundred and fifty, four
\* caches, zooms that show the whole of a file and two frames of it.
SPECIFICATION Spec
CONSTANTS
  PerSec = 2
  GapSecs = 2
  Window = 8
  Step = 2
  MaxCaches = 4
  CacheMin = 16
  Limit = 4
  SubLimit = 2
  Files <- SomeFiles
  Zooms = {1, 3, 7, 11, 60}
  PosUnits = 7
  Rest = 1
  MaxDx = 3
  MaxMoves = 2
INVARIANTS
  GapsFilled
  SameView
  WorkBounded
  NoPanic
PROPERTY ComesToRest
\* The moves are bounded.
CHECK_DEADLOCK FALSE

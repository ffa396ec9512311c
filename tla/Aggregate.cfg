\* Files of up to nine frames, some at equal times, for five settings.
SPECIFICATION FoldSpec
CONSTANTS
  Settings <- SomeSettings
  Gaps = {0, 1}
  Bands <- Busy
  MaxFrames = 9
  MaxFolds = 14
INVARIANTS
  SlidingWindows
PROPERTY Ends
\* The iterator ends.
CHECK_DEADLOCK FALSE

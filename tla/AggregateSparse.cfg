\* Frames with one reply or none, as of a host pinged less often than a frame is
\* written.
SPECIFICATION FoldSpec
CONSTANTS
  Settings <- SomeSettings
  Gaps = {0, 1}
  Bands <- SilentAndSingle
  MaxFrames = 3
  MaxFolds = 12
INVARIANT PercentilesWritten
\* The iterator ends.
CHECK_DEADLOCK FALSE

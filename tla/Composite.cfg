\* Up to five values from a window of three, differences in every block and
\* beyond all, a first value that is raw and too large.
SPECIFICATION Spec
CONSTANTS
  Quantize <- ToLog
  Dequantize <- FromLog
  Prediction <- ByMedian
  WindowSize = 3
  Ranges <- FourRanges
  RawSize = 8
  Values <- SomeValues
  MaxValues = 5
INVARIANTS
  ValuesKept
  NoPanic
\* The buffer is bounded, and the writer may panic.
CHECK_DEADLOCK FALSE

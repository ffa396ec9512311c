\* Precisions 1, 1/2 and 1/3, every latency up to the reach of 32-bit integers;
\* columns of six latencies and every order of their symbols.
SPECIFICATION LatencySpec
CONSTANTS
  MaxCount = 2
  Precisions = {1, 2, 3}
  Largest <- Reach
  Columns <- SomeColumns
  Maxima = {1, 4, 10}
INVARIANTS
  WithinMargin
  BucketCounts
  CodesAll
  PacksBack
PROPERTY Stable
\* HuffmanQ ends.
CHECK_DEADLOCK FALSE

\* A release build with a quantizer, a checked one with delta_enc and one with both;
\* times in any order.
SPECIFICATION Spec
CONSTANTS
  Width = 4000
  FullEncodeSecs = 3
  Configs <- All
  Quantize <- ToExponent
  Dequantize <- ToPower
  Seconds = {1, 2, 4}
  Millis = {0, 999}
  Latencies = {3}
  MaxFrames = 3
INVARIANTS
  NoPanic
PROPERTY KeepsFrames
\* The file is bounded, and the writer may panic.
CHECK_DEADLOCK FALSE

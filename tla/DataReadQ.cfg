\* Three inputs and one or two threads at a time, an input that may be missing,
\* a kill at any time, a file cut anywhere.
SPECIFICATION Spec
CONSTANTS
  Schema = "FDCodec"
  Version = 3
  NumRecv = 3
  Logs <- SomeLogs
  NumInputs = 3
  MaxHandles = 1
  Cfgs <- SomeCfgs
INVARIANTS
  InArgumentOrder
  ReadsFrames
  PanicsOnCutOnly
PROPERTY Completes
\* All is written and read.
CHECK_DEADLOCK FALSE

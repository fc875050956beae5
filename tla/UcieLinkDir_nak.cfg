\* The documented answer to a NAK, against what the sender thread does.
CONSTANTS
  SeqMod = 4
  RetryBufferSize = 2
  NakRepeatFrames = 2
  FdiDepth = 1
  PhyFifoDepth = 1
  FbFifoDepth = 1
  TimerMayBeEarly = FALSE
  PipeBound = 1
  MaxFlits = 3
SPECIFICATION Spec
PROPERTY NakRestartsReplay
CHECK_DEADLOCK FALSE

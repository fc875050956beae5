\* Liveness under the fairness of the threads, the consumer and the channel.
CONSTANTS
  SeqMod = 4
  RetryBufferSize = 2
  NakRepeatFrames = 2
  FdiDepth = 1
  PhyFifoDepth = 1
  FbFifoDepth = 1
  TimerMayBeEarly = FALSE
  PipeBound = 1
  MaxFlits = 3
SPECIFICATION FairSpec
PROPERTIES ImplementsFairFifo RetryBufferDrains
CHECK_DEADLOCK FALSE

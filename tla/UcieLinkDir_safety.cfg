\* Safety over a full turn of the wire sequence number: five flits, numbers
\* modulo four, a window of two, one entry in every FIFO, and a replay timer
\* that may fire at any time.  The producer stops after MaxFlits.
CONSTANTS
  SeqMod = 4
  RetryBufferSize = 2
  NakRepeatFrames = 2
  FdiDepth = 1
  PhyFifoDepth = 1
  FbFifoDepth = 1
  TimerMayBeEarly = TRUE
  PipeBound = 1
  MaxFlits = 5
SPECIFICATION Spec
INVARIANTS InOrderExactlyOnce ReleasedWereDelivered
PROPERTY ImplementsFifo
CHECK_DEADLOCK FALSE

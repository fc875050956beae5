SPECIFICATION DemoFairSpec
CONSTANTS
  Widths = {1, 2}
  Boundary = 4
  AxiBoundary = 4
  MaxBeats = 3
  Slots = 3
  MaxId = 3
  Skew = 2
  RamLatency = 2
  RamBursts = 2
  RamBeats = 3
  Window = {2, 3, 4, 5, 6, 7, 8, 9}
  Planes = 2
  MemSlots = 2
  Granule = 2
  Hold = 1
  FifoDepth = 1
  MemWindow = {2, 3, 4, 5, 6, 7, 8, 9}
  Setups <- MCSetups
  PayloadDelays = {0, 2}
INVARIANTS BytesArriveInOrder AnsweredWithItsStatus ContractsHold
PROPERTIES HandshakeStable AllAnswered
CHECK_DEADLOCK FALSE

SPECIFICATION Spec
CONSTANTS
  FdiDepth = 1
  RpCount = 2
  Writes <- TwoWrites
  Reads <- NoReads
  ReqDepth = 1
  WDataDepth = 1
  FlitGranules = 3
  Granules <- McGranules
  PackMsgs = 2
  FlushTimeout = 1
  ReturnTimeout = 2
  PeerCapacity <- ForWrites
  RxCapacity <- NoRx
  CreditCounterMax = 15
INVARIANTS TypeOK NothingLostOrReordered PaysForMessages

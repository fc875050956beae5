SPECIFICATION HistorySpec
CONSTANTS
  FdiDepth = 1
  RpCount = 2
  Writes <- ThreeWrites
  Reads <- OneRead
  ReqDepth = 2
  WDataDepth = 1
  FlitGranules = 8
  Granules <- McGranules
  PackMsgs = 1
  FlushTimeout = 0
  ReturnTimeout = 2
  PeerCapacity <- ForRequests
  RxCapacity <- NoRx
  CreditCounterMax = 15
INVARIANTS RotatesWithinKind

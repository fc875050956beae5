SPECIFICATION FairSpec
CONSTANTS
  FdiDepth = 1
  RpCount = 2
  Writes <- OneWrite
  Reads <- OneRead
  ReqDepth = 1
  WDataDepth = 1
  FlitGranules = 3
  Granules <- McGranules
  PackMsgs = 2
  FlushTimeout = 0
  ReturnTimeout = 2
  PeerCapacity <- ForWriteAndRead
  RxCapacity <- OneRx
  CreditCounterMax = 15
INVARIANTS GrantsAreConserved ReadyHoldsItsPlace
PROPERTIES OnlyCreditsHoldUp OwedIsGranted

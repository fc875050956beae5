\* Two planes that compete for grants, for the memory and for frames, until every
\* request is answered.  The initiator runs out of requests.
CONSTANTS
  RpCount = 2
  Writes <- TwoPlaneWrites
  Reads <- TwoPlaneReads
  RequestSlots = 1
  WDataCapacity = 1
  MaxOutstanding = 2
  FlitGranules = 3
  Granules <- SmallGranules
  MemDepth = 1
  LinkDepth = 1
  PeerCapacity <- SmallPeer
  FlitRequests = 1
  CreditCounterMax = 4
SPECIFICATION FairSpec
PROPERTIES KeepsResponseCredits AllAnswered
CHECK_DEADLOCK FALSE

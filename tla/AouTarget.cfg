\* One plane: data overtakes requests, two IDs, and replies cut by the end of a
\* frame.  The initiator runs out of requests.
CONSTANTS
  RpCount = 1
  Writes <- OnePlaneWrites
  Reads <- OnePlaneReads
  RequestSlots = 2
  WDataCapacity = 2
  MaxOutstanding = 2
  FlitGranules = 3
  Granules <- SmallGranules
  MemDepth = 1
  LinkDepth = 1
  PeerCapacity <- SmallPeer
  FlitRequests = 2
  CreditCounterMax = 16
SPECIFICATION Spec
INVARIANTS TypeOK BeatsArePaired ResponseFindsItsTicket OutstandingIsExact AnsweredInOrder IdleMeansDone
PROPERTY KeepsRequestCredits
CHECK_DEADLOCK FALSE

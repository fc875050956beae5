SPECIFICATION Spec
CONSTANTS
  RpCount = 2
  Requests <- McRequests
  FlitGranules = 3
  Granules <- McGranules
  Depth <- McDepth
  UnpackMsgs = 1
  UpdateDepth = 1
  FlitUpdates = 2
INVARIANTS TypeOK ResponsesArriveInOrder NoHeadOfLineBlocking GuardIsExact OrderKeptOrReported

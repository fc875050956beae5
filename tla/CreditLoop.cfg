\* Two planes whose messages compete; five credits are granted as four and one.
CONSTANTS
  RpCount = 2
  Kind = {WriteResp}
  NarrowKind = {WriteResp}
  CapacityPerCell = 5
  Capacity <- MCCapacity
  CreditCounterMax = 5
SPECIFICATION FairSpec
INVARIANT Conservation
PROPERTY NoPlaneStarves

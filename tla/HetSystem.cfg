SPECIFICATION HetFairSpec
CONSTANTS
  Kind <- MCKind
  PostedKind = {"writeback"}
  AddrOf <- MCAddrOf
  Latency = 1
  Duration = 1
  Delays = {0, 2}
  AxiId = {0, 1}
  Source = {"Host", "Vortex", "CoralNpu"}
  IdCount = 4
  MaxAge = 2
  Workloads <- MCWorkloads
  AtomicDelays = {0, 1, 3}
INVARIANTS NoWakeupLost SameAddressInOrder RetiresInIssueOrder
INVARIANTS ResumedExactlyWithData TraceIsWellFormed OutstandingIsOnTheWay
PROPERTIES EverythingCompletes
CHECK_DEADLOCK FALSE

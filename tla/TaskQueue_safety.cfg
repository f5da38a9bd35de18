SPECIFICATION Spec
CONSTANTS
  MaxUnits = 2
  Priority <- MCPriority
  Workers = {drone, queen}
  Threads = {t1, t2}
  MaxConcurrent = 1
  MaxSlow = 1
  MaxCrashes = 0
  MaxFaults = 1
  StartMayFail = TRUE
INVARIANT TypeOK
INVARIANT ClaimedOncePerOffer
INVARIANT WithinCapacity
PROPERTY KeepsLeasePromise
SYMMETRY Symmetry

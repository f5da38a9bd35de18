SPECIFICATION FairSpec
CONSTANTS
  MaxUnits = 2
  Priority <- MCPriority
  Workers = {drone}
  Threads = {t1, t2}
  MaxConcurrent = 1
  MaxSlow = 1
  MaxCrashes = 1
  MaxFaults = 1
  StartMayFail = FALSE
PROPERTY EverySettled

SPECIFICATION Spec
CONSTANTS
  MaxTurns = 4
  MaxThreads = 2
  Overlap = {3}
  MaxLen = 6
  Keep = 0
  MaxFaults = 1
INVARIANT TypeOK
INVARIANT NewestKept
INVARIANT SummaryFirst
PROPERTY SwapLosesNothing
PROPERTY SavedBeforeRolloff
CHECK_DEADLOCK FALSE

SPECIFICATION Spec
CONSTANTS
  MaxEntries = 2
  Operators = {o1}
  ReadCap = 2
  QueueCap = 2
  MaxCrashes = 0
  DiskFaults = FALSE
PROPERTY OthersSurvive
CHECK_DEADLOCK FALSE

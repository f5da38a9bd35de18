SPECIFICATION Spec
CONSTANTS
  MaxEntries = 4
  Operators = {o1, o2}
  ReadCap = 2
  QueueCap = 2
  MaxCrashes = 1
  DiskFaults = TRUE
INVARIANT TypeOK
INVARIANT AtMostOnce
INVARIANT DenialIsFinal
INVARIANT DecidedStaysDecided
INVARIANT FileBounded
PROPERTY ExpiryIsFinal
SYMMETRY Perms

SPECIFICATION Spec
CONSTANTS
  Runs = {1, 2}
  Nested = {3, 4}
  Job = {1, 2, 3, 4}
  Prio <-  MCPrio
  Background = 2
  Limits = {1, 2}
  Stamps = {1, 2}
  None = None
  PlanCalls = 2
  Workers = 2
  MaxRounds = 1
INVARIANT RunsTypeOK
INVARIANT SlotsAccounted
INVARIANT EntriesMatchWaiters
INVARIANT LockUnderSlot
INVARIANT StepsNeverGenerate
PROPERTY ImplementsSlots
PROPERTY NobodyWaitsForever
PROPERTY RunsEndWithOneSlot
CHECK_DEADLOCK FALSE

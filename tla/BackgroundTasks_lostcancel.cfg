SPECIFICATION Spec
CONSTANTS
  MaxTasks = 1
  Cancels = {c1}
  Modes = {"thread"}
  MaxFinished = 1
  MaxRounds = 2
  MaxRestarts = 0
  WorkerScriptFound = FALSE
  LossyStore = FALSE
INVARIANT CancelledStaysCancelled
CHECK_DEADLOCK FALSE

SPECIFICATION Spec
CONSTANTS
  MaxTasks = 2
  Cancels = {c1}
  Modes = {"thread", "continuous", "subprocess", "inline"}
  MaxFinished = 0
  MaxRounds = 2
  MaxRestarts = 1
  WorkerScriptFound = TRUE
  LossyStore = FALSE
INVARIANT TypeOK
INVARIANT NoStuckRow
INVARIANT ChildAccounted
INVARIANT CancelHonoured
CHECK_DEADLOCK FALSE

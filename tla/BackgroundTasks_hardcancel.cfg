SPECIFICATION FairSpec
CONSTANTS
  MaxTasks = 1
  Cancels = {c1, c2}
  Modes = {"subprocess"}
  MaxFinished = 1
  MaxRounds = 2
  MaxRestarts = 1
  WorkerScriptFound = TRUE
  LossyStore = TRUE
PROPERTY HardCancel
CHECK_DEADLOCK FALSE

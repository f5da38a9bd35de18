SPECIFICATION Spec
CONSTANTS
  Executions = {e1, e2}
  Approvals = {a1, a2}
  Edits = {p1}
  Steps = 2
  MaxFaults = 1
  None = None
INVARIANT TypeOK
INVARIANT ExecutingMeansWorking
INVARIANT DoneMeansPassed
INVARIANT OneExecution
CHECK_DEADLOCK FALSE

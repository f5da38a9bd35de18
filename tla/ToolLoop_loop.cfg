SPECIFICATION FairSpec
CONSTANTS
  MaxCalls = 4
  MaxRetries = 2
PROPERTY BudgetsKept
PROPERTY BoundedLoop
CHECK_DEADLOCK FALSE

SPECIFICATION FairSpec
CONSTANTS
  MaxMissions = 2
  Plans = {1, 3}
  MaxSteps = 2
  Requests = {r1}
  MaxRuntime = 0
  MaxAge = 1
  UtcOffset = 0
  MaxCrashes = 1
  MaxFaults = 2
INVARIANT TypeOK
INVARIANT CompletedMeansAttempted
INVARIANT StepsCapped
PROPERTY StepsInOrder
PROPERTY RunningEnds
CHECK_DEADLOCK FALSE

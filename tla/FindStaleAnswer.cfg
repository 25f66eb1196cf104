SPECIFICATION FairSpec
CONSTANTS
  Task = {"a"}
  NullTask = "null"
  Asks <- TwoAlone
  Durabilities = {"async"}
  Races = {}
  MaxInvocations = 3
  MaxFailures = 0
  MaxRetries = 0
  MaxCrashes = 0
  Careful = FALSE
INVARIANT
  AnswersReachTarget
CHECK_DEADLOCK FALSE

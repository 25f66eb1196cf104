SPECIFICATION FairSpec
CONSTANTS
  Task = {"a", "b", "c"}
  NullTask = "null"
  Asks <- TwoOneNone
  Durabilities = {"async", "exit"}
  Races = {"async"}
  MaxInvocations = 9
  MaxFailures = 2
  MaxRetries = 1
  MaxCrashes = 1
  Careful = TRUE
INVARIANTS
  AnswersReachTarget
  OpenIsShown
PROPERTIES
  NotAskedAgain
  AnsweredStepEnds

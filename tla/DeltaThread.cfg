SPECIFICATION Spec
CONSTANTS
  TaskPath <- PathOrder
  TaskIds <- IdOrder
  Silent = {}
  Overwriters = {"b"}
  Plans <- SomePlans
  Freq = 2
  MaxSupersteps = 3
  Durabilities = {"async", "exit"}
  Requests = {"input", "resume", "update", "copy"}
  Threads = FALSE
  CleanOnly = TRUE
  MaxId = 6
  MaxBehind = 1
  MaxRequests = 2
  MaxCrashes = 1
INVARIANTS
  Rebuilt
  ReplayBounded
  WritesFirst
\* requests and checkpoints are bounded
CHECK_DEADLOCK FALSE

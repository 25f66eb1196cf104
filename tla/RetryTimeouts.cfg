SPECIFICATION FairSpec
CONSTANTS
  Policies <- TwoPolicies
  MaxAttempts = 3
  Errors <- TheErrors
  Outcomes <- AllEndings
  Timeouts = {"run", "idle"}
  RunTicks = 3
  IdleTicks = 2
  RefreshOn = "auto"
  MaxSends = 1
  Cancellable = TRUE
INVARIANTS
  OwnWritesOnly
  AttemptsPaired
  AttemptsBounded
  IdleOnTime
PROPERTIES
  Terminates

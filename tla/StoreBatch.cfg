SPECIFICATION FairSpec
CONSTANTS
  Keys = {"k", "l"}
  Space <- OneSpace
  QueueOps <- MixedQueue
  DirectOps <- MixedDirect
  MaxCalls = 3
  MaxCrashes = 1
  Cancels = {"queue", "direct"}
INVARIANTS
  LaterPutWins
  LockFindsNoTransaction
PROPERTIES
  LooksAtomic
  NoneAbandoned

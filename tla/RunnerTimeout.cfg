SPECIFICATION Spec
CONSTANTS
  Task <- NestTask
  Initial <- NestInitial
  HandlerOf <- NestHandler
  CallsOf <- NestCalls
  Outcomes <- NestOutcomes
  HasTimeout = TRUE
  HasWaiter = TRUE
INVARIANTS
  IInv
  CounterExact
  EventSound

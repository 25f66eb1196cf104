SPECIFICATION FairSpec
CONSTANTS
  Task <- PairTask
  Initial <- PairInitial
  HandlerOf <- PairHandler
  CallsOf <- PairCalls
  Outcomes <- PairOutcomes
  HasTimeout = FALSE
  HasWaiter = FALSE
INVARIANTS
  EndsSettled
  NothingForgotten
  RaisedHasCause
PROPERTIES
  Terminates

SPECIFICATION Spec
CONSTANTS
  Chan <- JoinChan
  Kind <- JoinKind
  Names <- JoinNames
  IsOverwrite <- Never
  NodeSeq <- JoinNodes
  TriggersOf <- JoinTriggers
  TASKS <- MCTASKS
  INTERRUPT <- MCINTERRUPT
  START <- MCSTART
  COMMAND <- MCCOMMAND
  LOG <- MCLOG
  Outputs <- JoinOutputs
  Partial <- JoinPartial
  Requests <- InputResumeUpdate
  Durabilities <- Sync
  INTERRUPT_BEFORE <- NoNodes
  INTERRUPT_AFTER <- NoNodes
  RECURSION_LIMIT = 5
  MayDrain = TRUE
  MaxInvocations = 2
  MaxCrashes = 1
INVARIANTS
  TypeOK
  OnlyCompletedRuns
PROPERTIES
  NoRerunOfDurable
  ImplementsThread
\* invocations are bounded: a thread at rest may stay there
CHECK_DEADLOCK FALSE

SPECIFICATION FairSpec
CONSTANTS
  Chan <- SendChan
  Kind <- SendKind
  Names <- SendNames
  IsOverwrite <- Never
  NodeSeq <- SendNodes
  TriggersOf <- SendTriggers
  TASKS <- MCTASKS
  INTERRUPT <- MCINTERRUPT
  START <- MCSTART
  COMMAND <- MCCOMMAND
  LOG <- MCLOG
  Outputs <- SendOutputs
  Partial <- SendPartial
  Requests <- InputResume
  Durabilities <- Sync
  INTERRUPT_BEFORE <- NoNodes
  INTERRUPT_AFTER <- NoNodes
  RECURSION_LIMIT = 1
  MayDrain = FALSE
  MaxInvocations = 2
  MaxCrashes = 0
INVARIANTS
  StepsComplete
PROPERTIES
  ComesToRest
\* invocations are bounded: a thread at rest may stay there
CHECK_DEADLOCK FALSE

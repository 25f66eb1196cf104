SPECIFICATION Spec
CONSTANTS
  Chan <- CycleChan
  Kind <- CycleKind
  Names <- CycleNames
  IsOverwrite <- Never
  NodeSeq <- CycleNodes
  TriggersOf <- CycleTriggers
  TASKS <- MCTASKS
  INTERRUPT <- MCINTERRUPT
  START <- MCSTART
  COMMAND <- MCCOMMAND
  LOG <- MCLOG
  Outputs <- CycleOutputs
  Partial <- CyclePartialRouting
  Requests <- InputResume
  Durabilities <- Sync
  INTERRUPT_BEFORE <- NoNodes
  INTERRUPT_AFTER <- NoNodes
  RECURSION_LIMIT = 3
  MayDrain = FALSE
  MaxInvocations = 2
  MaxCrashes = 0
INVARIANTS
  OnlyCompletedRuns
\* invocations are bounded: a thread at rest may stay there
CHECK_DEADLOCK FALSE

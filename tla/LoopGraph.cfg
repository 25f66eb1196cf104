SPECIFICATION Spec
CONSTANTS
  Chan <- DeferChan
  Kind <- DeferKind
  Names <- DeferNames
  IsOverwrite <- Never
  NodeSeq <- DeferNodes
  TriggersOf <- DeferTriggers
  TASKS <- MCTASKS
  INTERRUPT <- MCINTERRUPT
  START <- MCSTART
  COMMAND <- MCCOMMAND
  LOG <- MCLOG
  Outputs <- DeferOutputs
  Partial <- DeferPartial
  Requests <- InputResumeUpdate
  Durabilities <- AsyncOrExit
  INTERRUPT_BEFORE <- NodesD
  INTERRUPT_AFTER <- NodesB
  RECURSION_LIMIT = 4
  MayDrain = FALSE
  MaxInvocations = 3
  MaxCrashes = 1
INVARIANTS
  CommandsOnce
  OrderedSaves
  OptimizedEqualsScan
  VersionsIdentifyValues
  DeferredLast
  PausesHonoured
  SnapshotExact
\* invocations are bounded: a thread at rest may stay there
CHECK_DEADLOCK FALSE

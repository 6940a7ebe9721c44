\* One task and one handoff: every interleaving of a worker with its coordinator.
SPECIFICATION Spec
CONSTANTS
  t1 = t1
  t2 = t2
  None = None
  Tasks = {t1}
  DependsOn <- Alone
  Pinned <- OneHandoff
  Capacity = 1
  MaxAttempts = 2
  MaxRevision = 9
  MaxRuns = 2
  MaxFaults = 2
INVARIANTS
  TypeOK
  StoppedIsGone
  CompletedByReport
  ChildCreatedOnce
PROPERTIES
  CancelledStaysCancelled
  ReleasedQuiescent
  

\* Two chained tasks under fairness.
SPECIFICATION FairSpec
CONSTANTS
  t1 = t1
  t2 = t2
  None = None
  Tasks = {t1, t2}
  DependsOn <- Chained
  Pinned <- OneHandoff
  Capacity = 2
  MaxAttempts = 3
  MaxRevision = 9
  MaxRuns = 1
  MaxFaults = 1
INVARIANTS
  DependentsWait
PROPERTIES
  
  ActiveEnds
  CancelledEnds
  AcceptanceSettles

\* One task: which turn a report is taken from.
SPECIFICATION Spec
CONSTANTS
  t1 = t1
  t2 = t2
  None = None
  Tasks = {t1}
  DependsOn <- Alone
  Pinned <- NoHandoffs
  Capacity = 1
  MaxAttempts = 1
  MaxRevision = 9
  MaxRuns = 2
  MaxFaults = 0
PROPERTY ReportOfLatestTurn

\* One task: a provisioning failure met by the observe loop.
SPECIFICATION Spec
CONSTANTS
  t1 = t1
  t2 = t2
  None = None
  Tasks = {t1}
  DependsOn <- Alone
  Pinned <- NoHandoffs
  Capacity = 1
  MaxAttempts = 2
  MaxRevision = 9
  MaxRuns = 0
  MaxFaults = 2
PROPERTY RetryNotFenced

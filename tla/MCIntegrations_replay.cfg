\* No fault and no outside commit: what the service itself appends.
SPECIFICATION Spec
CONSTANTS
    a = a
    b = b
    j1 = j1
    j2 = j2
    None = None
    Foreign = Foreign
    Teams = {a, b}
    Jobs = {j1, j2}
    TeamOf <- OwnTeams
    Gated = {j1}
    MaxPending = 1
    RetryLimit = 1
    MaxForeign = 0
    MaxFaults = 0
INVARIANT LogReplays
CHECK_DEADLOCK FALSE

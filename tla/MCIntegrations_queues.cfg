\* Two Teams with one job each, the first behind a review; one outside commit, two faults.
SPECIFICATION FairSpec
CONSTANTS
    a = a
    b = b
    j1 = j1
    j2 = j2
    None = None
    Foreign = Foreign
    Teams = {a, b}
    Jobs = {j1, j2}
    TeamOf <- OwnTeams
    Gated = {j1}
    MaxPending = 1
    RetryLimit = 1
    MaxForeign = 1
    MaxFaults = 2
INVARIANTS
    TypeOK
    MergedIsPromoted
    PromotionRemembered
    
    RunnersExclude
PROPERTIES
    PromotesDurableCandidate
    JobSettles
CHECK_DEADLOCK FALSE

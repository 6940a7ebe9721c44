\* Two tasks, two callers with snapshots of different age, changing limits.
SPECIFICATION Spec
CONSTANTS
    c1 = c1
    c2 = c2
    t1 = t1
    t2 = t2
    w1 = w1
    w2 = w2
    w3 = w3
    r1 = r1
    r2 = r2
    r3 = r3
    r4 = r4
    None = None
    Callers = {c1, c2}
    Tasks = {t1, t2}
    Projects = {"p1"}
    ProjectOf <- OneProject
    Workers = {w1, w2}
    Runtimes = {r1, r2, r3}
    Providers = {"spawn"}
    Policies <- TightBudgets
    LimitChoices <- Narrow
    MaxAttempts = 2
    MaxRevision = 3
SYMMETRY Symmetry
INVARIANTS
    ExclusiveOwnership
PROPERTIES
    NoLostUpdate
    OneSuccessorPerObservation
CHECK_DEADLOCK FALSE

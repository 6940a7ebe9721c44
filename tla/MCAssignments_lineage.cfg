\* One task, three attempts: budgets, repairs, handoffs and stale tokens.
SPECIFICATION Spec
CONSTANTS
    c1 = c1
    c2 = c2
    t1 = t1
    t2 = t2
    w1 = w1
    w2 = w2
    w3 = w3
    r1 = r1
    r2 = r2
    r3 = r3
    r4 = r4
    None = None
    Callers = {c1}
    Tasks = {t1}
    Projects = {"p1"}
    ProjectOf <- OneProject
    Workers = {w1}
    Runtimes = {r1, r2, r3}
    Providers = {"spawn", "external"}
    Policies <- Budgets
    LimitChoices <- Wide
    MaxAttempts = 3
    MaxRevision = 4
SYMMETRY Symmetry
INVARIANTS
    TypeOK
    GenerationChain
    RepairHistory
    HandoffConsumedOnce
    LineageBudgets
PROPERTIES
    ForwardOnly
CHECK_DEADLOCK FALSE

\* Two callers, every fault, under fairness.
SPECIFICATION FairSpec
CONSTANTS
    c1 = c1
    c2 = c2
    e1 = e1
    e2 = e2
    e3 = e3
    None = None
    Callers = {c1, c2}
    Events = {e1, e2, e3}
    Rejects <- RefusesRepetition
    Faults = {"io", "crash", "power"}
    MaxLines = 3
INVARIANTS
    TypeOK
    AlwaysReplayable
    PublishedIsPrefix
    NobodyAbandoned
PROPERTIES
    ImplementsAtomicLog
    EveryCallAnswered
CHECK_DEADLOCK FALSE

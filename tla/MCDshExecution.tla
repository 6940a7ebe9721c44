--------------------------- MODULE MCDshExecution ---------------------------
\* Small instances of DshExecution.
EXTENDS DshExecution

CONSTANTS t1, t2

Alone   == [t \in Tasks |-> {}]
Chained == [t \in Tasks |-> IF t = t2 THEN {t1} ELSE {}]

Policy(handoffs, retries) == [repairLimit |-> 0, handoffLimit |-> handoffs, maxAttempts |-> retries]
OneHandoff == Policy(1, 1)
NoHandoffs == Policy(0, 1)

=============================================================================

--------------------------- MODULE MCAssignments ---------------------------
(***************************************************************************)
(* Small instances of the attempt ledger.                                  *)
(***************************************************************************)
EXTENDS Assignments, TLC

CONSTANTS c1, c2, t1, t2, w1, w2, w3, r1, r2, r3, r4

OneProject   == [t \in Tasks |-> "p1"]
Budgets      == {[repairLimit |-> 2, handoffLimit |-> 1, maxAttempts |-> 1]}
TightBudgets == {[repairLimit |-> 0, handoffLimit |-> 0, maxAttempts |-> 1]}
Wide         == {[global |-> 2, project |-> [p \in Projects |-> 2]]}
Narrow       == {[global |-> 2, project |-> [p \in Projects |-> 1]],
                 [global |-> 2, project |-> [p \in Projects |-> 2]]}

Symmetry     == Permutations(Callers) \cup Permutations(Workers) \cup Permutations(Runtimes)
=============================================================================

-------------------------- MODULE MCDurableJournal -------------------------
(***************************************************************************)
(* Small instances of the journal.  The reducer refuses an event that is   *)
(* already in the state, as the stores refuse to record a thing twice.     *)
(***************************************************************************)
EXTENDS DurableJournal, TLC, SequencesExt

CONSTANTS c1, c2, e1, e2, e3

RefusesRepetition(s, e) == e \in ToSet(s)

Symmetry == Permutations(Callers) \cup Permutations(Events)
=============================================================================

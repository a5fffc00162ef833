----------------------------- MODULE MCMutexMap -----------------------------
(* Instances of MutexMap for TLC. *)
EXTENDS MutexMap, TLC

CONSTANTS t1, t2, t3
Tasks == {t1, t2, t3}
Symmetry == Permutations(Tasks)
=============================================================================

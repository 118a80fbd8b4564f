---------------------------- MODULE MCTaskQueue ----------------------------
(* Small instances of TaskQueue for TLC. *)
EXTENDS TaskQueue, TLC

Symmetry == Permutations(Ids) \cup Permutations(Callers)
=============================================================================

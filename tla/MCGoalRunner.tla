---------------------------- MODULE MCGoalRunner ----------------------------
(* Small instances of GoalRunner for TLC. *)
EXTENDS GoalRunner, TLC

Symmetry == Permutations(Cancellers)
=============================================================================

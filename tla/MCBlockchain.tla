---------------------------- MODULE MCBlockchain ----------------------------
(* Small instances of Blockchain for TLC. *)
EXTENDS Blockchain, TLC

\* For the run of the invariants: the nodes are interchangeable.
Symmetry == Permutations(Nodes)
=============================================================================

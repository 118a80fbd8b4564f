----------------------------- MODULE MCPairing -----------------------------
(* Small instances of Pairing for TLC. *)
EXTENDS Pairing, TLC

Symmetry == Permutations(Users) \cup Permutations(Codes)
=============================================================================

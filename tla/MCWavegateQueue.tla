-------------------------- MODULE MCWavegateQueue --------------------------
(* Small instances of WavegateQueue for TLC. *)
EXTENDS WavegateQueue, TLC

Symmetry == Permutations(Messages)
=============================================================================

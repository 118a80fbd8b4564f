------------------------------ MODULE MCCoding ------------------------------
(***************************************************************************)
(* Instances of Coding for TLC.  Threads are interchangeable; so are files *)
(* and fingerprints.                                                       *)
(***************************************************************************)
EXTENDS Coding, TLC

Symmetry == Permutations(Agents) \cup Permutations(Files) \cup Permutations(Errors)
=============================================================================

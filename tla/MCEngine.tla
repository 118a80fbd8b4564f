------------------------------ MODULE MCEngine ------------------------------
(* Small instances of Engine for TLC: the configurations give the constants. *)
EXTENDS Engine, TLC
=============================================================================

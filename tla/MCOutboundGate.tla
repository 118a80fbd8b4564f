--------------------------- MODULE MCOutboundGate ---------------------------
(* Small instances of OutboundGate for TLC. *)
EXTENDS OutboundGate, TLC

Symmetry == Permutations(Chats) \cup Permutations(Handlers)
=============================================================================

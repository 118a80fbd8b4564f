\* Two threads, two files under two names each, one fingerprint.
CONSTANTS
  Agents = {a1, a2}
  Files = {f, g}
  Errors = {e1}
  MaxStrikes = 2
  MaxSameFp = 2
  MaxCalls = 3
SPECIFICATION Spec
SYMMETRY Symmetry
\* The threads may make no further call.
CHECK_DEADLOCK FALSE
INVARIANTS
  TypeOK
  GateHolds
  NoThrash

\* One thread, one file: no interleaving is needed.
CONSTANTS
  Agents = {a1}
  Files = {f}
  Errors = {e1}
  MaxStrikes = 3
  MaxSameFp = 3
  MaxCalls = 4
SPECIFICATION Spec
CHECK_DEADLOCK FALSE
PROPERTY CommitOnGreen

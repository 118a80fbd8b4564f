SPECIFICATION Spec
CONSTANTS
    Users = {u1, u2}
    Codes = {c1, c2}
    AutoApprove = {FALSE, TRUE}
    BotRestarts = TRUE
SYMMETRY Symmetry
INVARIANTS TypeOK ProcessedWasGranted OneLiveCode
CHECK_DEADLOCK FALSE

SPECIFICATION FairSpec
CONSTANTS
    Requests = {r1, r2}
    Direct = {d1}
    Windows = {w1, w2}
    NoWindow = NoWindow
    NoRun = NoRun
    Quick = {d1, r2}
    MaxSpirals = 2
    MaxRestarts = 1
INVARIANTS TypeOK VerdictUnpoisoned
PROPERTIES ServedSerially SessionsApart StopEndsRun RequestAnswered
CHECK_DEADLOCK FALSE

SPECIFICATION FairSpec
CONSTANTS
    Ids = {t1, t2, t3}
    Callers = {c1}
    MaxWorkers = 2
    MaxHistory = 1
INVARIANTS TypeOK SlotsConserved
PROPERTIES PoolImplemented WaiterServed
CHECK_DEADLOCK FALSE

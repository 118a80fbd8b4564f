SPECIFICATION Spec
CONSTANTS
    Tasks = {t1}
    Once = {t1}
    Failing = {evolution}
    Evolution = evolution
    Loops = {l1, l2}
    Clients = {c1}
    Restarts = TRUE
INVARIANTS TypeOK RunIsDue SavedAtRest
PROPERTIES StopEnds DueServed
CHECK_DEADLOCK FALSE

SPECIFICATION FairSpec
CONSTANTS
    Cancellers = {c1, c2}
    MaxIterations = 2
    MaxExplorers = 2
INVARIANTS TypeOK AtMostOneLateRun CancelledStaysUnmirrored
PROPERTIES MirrorCatchesUp
CHECK_DEADLOCK FALSE

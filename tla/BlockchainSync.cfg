SPECIFICATION Spec
CONSTANTS
    Nodes = {n1, n2}
    Txs = {}
    MaxBlocks = 3
    Interval = 2
    Halving = 3
    Crashes = 1
PROPERTIES CatchUp
CHECK_DEADLOCK FALSE

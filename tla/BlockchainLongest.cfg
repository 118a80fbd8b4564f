SPECIFICATION Spec
CONSTANTS
    Nodes = {n1, n2}
    Txs = {}
    MaxBlocks = 3
    Interval = 4
    Halving = 4
    Crashes = 0
PROPERTIES LongestAdopted
CHECK_DEADLOCK FALSE

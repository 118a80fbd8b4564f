SPECIFICATION Spec
CONSTANTS
    Nodes = {n1, n2}
    Txs = {t1}
    MaxBlocks = 3
    Interval = 2
    Halving = 3
    Crashes = 1
SYMMETRY Symmetry
INVARIANTS TypeOK  
PROPERTIES AppendOnly
CHECK_DEADLOCK FALSE

SPECIFICATION Spec
CONSTANTS
    g = g
    x1 = x1
    y1 = y1
    y2 = y2
    v1 = v1
    v2 = v2
    v3 = v3
    v4 = v4
    Genesis = g
    Blocks = {g, x1, y1, y2}
    Nodes = {n1, n2}
    Validators = {v1, v2, v3}
    Faulty = {}
    Path <- MCPath
    Height <- MCHeight
    Score <- MCScore
    HashRank <- MCHashRank
INVARIANTS
    OneFinalizedChain
CHECK_DEADLOCK FALSE

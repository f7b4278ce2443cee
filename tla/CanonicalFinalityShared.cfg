SPECIFICATION Spec
CONSTANTS
    v1 = v1
    v2 = v2
    f1 = f1
    f2 = f2
    g = g
    a1 = a1
    a2 = a2
    b1 = b1
    Free = Free
    Genesis = g
    Facades = {f1, f2}
    Validators = {v1, v2}
    Blocks = {g, a1, b1}
    MaxThreads = 2
    Path <- MCPath
    Height <- MCHeight
    Score <- MCScore
    HashRank <- MCRank
    Signed <- MCSigned
INVARIANTS
    DurableFinalityCoherent
    CachedFinalityIsDurable
PROPERTIES
    FinalityNeverRegresses
    FinalizedPrefixKept
SYMMETRY Symmetry

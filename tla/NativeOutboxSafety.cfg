SPECIFICATION Spec
CONSTANTS
    t1 = t1
    t2 = t2
    b = b
    c = c
    loop = loop
    sweep = sweep
    k1 = k1
    k2 = k2
    k3 = k3
    k4 = k4
    k5 = k5
    k6 = k6
    None = None
    Loop = loop
    TxRank <- MCTxRank
    PeerRank <- MCPeerRank
    Txs = {t1}
    Peers = {c}
    Workers = {loop, sweep}
    Tokens = {k1, k2, k3}
    Steady = {}
    Conflicting = {}
    Invalid = {}
    Timeout = 1
    Lease = 2
    InitialDelay = 1
    MaxDelay = 2
    MaxTries = 2
    Page = 1
INVARIANTS
    TypeOK
    AcknowledgedIsRecorded
    GivenUpForCause
SYMMETRY Symmetry

SPECIFICATION DeliverySpec
CONSTANTS
    t1 = t1
    t2 = t2
    b = b
    c = c
    loop = loop
    sweep = sweep
    k1 = k1
    k2 = k2
    k3 = k3
    k4 = k4
    k5 = k5
    k6 = k6
    None = None
    Loop = loop
    TxRank <- MCTxRank
    PeerRank <- MCPeerRank
    Txs = {t1, t2}
    Peers = {b, c}
    Workers = {loop}
    Tokens = {k1}
    Steady = {b}
    Conflicting = {}
    Invalid = {}
    Timeout = 1
    Lease = 2
    InitialDelay = 2
    MaxDelay = 4
    MaxTries = 2
    Page = 1
PROPERTY HealthyPeerConverges

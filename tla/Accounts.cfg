SPECIFICATION Spec
CONSTANTS
    w1 = w1
    w2 = w2
    s1 = s1
    s2 = s2
INVARIANTS
    TypeOK
    ChallengeUsedOnce
    PromisedVotesPass
    PaidOnce
PROPERTIES
    SuspensionSticks
SYMMETRY WalletSymmetry
CHECK_DEADLOCK FALSE

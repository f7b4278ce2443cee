SPECIFICATION Spec
CONSTANTS
    f1 = f1
    f2 = f2
    NONE = NONE
INVARIANTS
    TypeOK
    QuotaHolds
    EscalationFollowsHistory
    
    PoolNeverShort
SYMMETRY FacadeSymmetry
CHECK_DEADLOCK FALSE

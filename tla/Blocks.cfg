SPECIFICATION Spec
CONSTANTS
    f1 = f1
    f2 = f2
    None = None
    Submissions = {"s1", "s2"}
    Established = {"w1"}
    MinReports = 2
    MinEstablished = 1
INVARIANTS
    TypeOK
    ReadersAgree
    FinalPagesAreTrue
    ReadyIsCertified
    AtMostOnce
PROPERTIES
    MintIsPromised
    EvidenceNeverErased
    OnlyRefusedSyncBlocksSaves
SYMMETRY FacadeSymmetry
CHECK_DEADLOCK FALSE

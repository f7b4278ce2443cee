SPECIFICATION MCSpec
CONSTANTS
    None = None
    ABSENT = ABSENT
    DAMAGED = DAMAGED
    NOBODY = NOBODY
    Procs = {"p1", "p2"}
    MaxSaves = 3
    MaxDamage = 2
    MaxCrashes = 2
    Original <- Originals
    Submission <- SubmissionOf
    Creator <- CreatorOf
    Nonce <- NonceOf
    VoteHeight <- ReviewedAt
    NoTip = NoTip
    anchor = anchor
    mined = mined
INVARIANTS
    OriginalRecoverable
    AlwaysLoadable
    LosesOneSaveAtMost
    ServedMatches
    EvidenceUsedOnce
CHECK_DEADLOCK FALSE

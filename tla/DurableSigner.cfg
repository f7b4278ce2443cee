SPECIFICATION Spec
CONSTANTS
    Nil = Nil
    None = None
    Values = {x, y}
    Valid = {x, y}
    Proposed = {x, y}
    Polkas = {x, y, Nil}
    IsProposer = FALSE
    MaxGeneration = 3
INVARIANTS
    PrecommitIsLocked
PROPERTIES
    SafeSigner
CHECK_DEADLOCK FALSE

SPECIFICATION Spec
CONSTANTS
    Calls = {c1, c2, c3}
    Stores = {"r2"}
    Overlaps = {}
    OverlapsIn <- Alone
    MaxLength = 3
    LengthIn <- Lengths
    Unheard = FALSE
    UnheardIn <- AllLossy
    MaxEditions = 1
    None = none
    FoldAt = 2
    CommitEmpty = TRUE
    PartSize = 2
    Uniform = FALSE
SYMMETRY Symmetry
CHECK_DEADLOCK FALSE
INVARIANT
    AcknowledgedBytesStand

SPECIFICATION Spec
CONSTANTS
    Calls = {c1, c2, c3}
    Stores <- AllStores
    Overlaps = {}
    OverlapsIn <- Overlapping
    MaxLength = 3
    LengthIn <- Lengths
    Unheard = FALSE
    UnheardIn <- Lossy
    MaxEditions = 1
    None = none
    FoldAt = 2
    CommitEmpty = TRUE
    PartSize = 2
    Uniform = FALSE
SYMMETRY Symmetry
CHECK_DEADLOCK FALSE
INVARIANTS
    Inv
    AcknowledgedBytesStand
    PublishedIsThePlan
PROPERTIES
    NoBlindOverwrite

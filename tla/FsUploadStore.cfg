SPECIFICATION Spec
CONSTANTS
    c1 = c1
    c2 = c2
    c3 = c3
    Calls = {c1, c2, c3}
    Overlaps <- LockLost
    None = None
    Stranger = Stranger
    Hole = Hole
    MaxLength = 2
    MaxEditions = 1
    Sweeps = 1
SYMMETRY Symmetry
INVARIANTS
    Inv
    AcknowledgedBytesStand
    PublishedIsThePlan
    ObjectSurvives
CHECK_DEADLOCK FALSE

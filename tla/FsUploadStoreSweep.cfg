SPECIFICATION Spec
CONSTANTS
    c1 = c1
    c2 = c2
    c3 = c3
    Calls = {c1}
    Overlaps = {}
    None = None
    Stranger = Stranger
    Hole = Hole
    MaxLength = 1
    MaxEditions = 1
    Sweeps = 1
PROPERTY
    SealedIsNotRemoved
CHECK_DEADLOCK FALSE

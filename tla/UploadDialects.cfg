SPECIFICATION FairSpec
CONSTANTS
    Unset = Unset
    None = None
    Dialects = {"tus", "v3", "v5", "v10"}
    Handlings = {h1, h2}
    h1 = h1
    h2 = h2
    Size = 2
    MaxFaults = 2
CONSTANT Surfaces <- MCSurfaces
CHECK_DEADLOCK FALSE
INVARIANT Inv
INVARIANT DoneMeansWhole
PROPERTY Finishes

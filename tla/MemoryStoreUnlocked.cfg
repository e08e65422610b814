\* Three calls of any kind on one upload.
SPECIFICATION Spec
CONSTANTS
    Uploads = {u1}
    k1 = k1
    Keys = {k1}
    KeyOf <- OneKey
    Calls = {c1, c2, c3}
    Stranger = Stranger
    Unset = Unset
    MaxEditions = 2
    MaxLength = 2
    Chunks = {1, 2}
    ByteBounds = {Unset, 1}
SYMMETRY Symmetry
INVARIANTS Inv AcknowledgedBytesStand
PROPERTIES NoBlindOverwrite ImplementsResumableUpload

\* Every valid policy over the limits 0, 1 and 2 or none; offsets and sizes to 3.
SPECIFICATION DialogueSpec
CONSTANTS
    Unset = Unset
    NoUpload = NoUpload
    Limits = {Unset, 0, 1, 2}
    Ages = {Unset, 1}
    MaxBytes = 3
    MaxTime = 1
INVARIANTS DialogueInv NoWedge
PROPERTIES OnlyUnsizedOverrunKills AppendWithinLimits

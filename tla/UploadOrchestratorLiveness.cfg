\* Bodies that stall, departing clients, no help from the lock's timer.
SPECIFICATION FairSpec
CONSTANTS
    creator = creator
    other = other
    third = third
    Requests = {creator, other, third}
    Wanted <- StallWanted
    Leaving = {other, third}
    Upload = Upload
    Key = Key
    Policy <- MCPolicy
    Nobody = Nobody
    Stranger = Stranger
    Unset = Unset
    MaxEditions = 0
    MaxTime = 0
    Deadline = Unset
CHECK_DEADLOCK FALSE
PROPERTIES NobodyHangs

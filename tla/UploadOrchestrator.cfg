\* A creation, an append and a third request of several kinds race on one upload,
\* with preemption, departing clients, the sweep, expiry and another writer.
SPECIFICATION Spec
CONSTANTS
    creator = creator
    other = other
    third = third
    Requests = {creator, other, third}
    Wanted <- MCWanted
    Leaving = {other}
    Upload = Upload
    Key = Key
    Policy <- MCPolicy
    Nobody = Nobody
    Stranger = Stranger
    Unset = Unset
    MaxEditions = 1
    MaxTime = 1
    Deadline = 1
CHECK_DEADLOCK FALSE
INVARIANTS Inv CompleteMeansReported WholeBodyPublished ToldOffsetIsDurable CondemnedIsFreed

----------------------------- MODULE MCCloudStores -----------------------------
EXTENDS CloudStores, TLC

AllStores == {"gcs", "azure", "r2", "s3"}

\* An append may run on beside a completion, another append, or a cancel.
Completed == {"append", "complete"}
Continued == {"append"}
Cancelled == {"append", "discard"}
Overlapping ==
    [gcs |-> {Completed, Cancelled}, azure |-> {Cancelled}, r2 |-> {Completed, Continued, Cancelled},
     s3 |-> {Completed, Continued, Cancelled}]
Lengths == [gcs |-> 2, azure |-> 2, r2 |-> 3, s3 |-> 3]
Lossy == [gcs |-> TRUE, azure |-> TRUE, r2 |-> FALSE, s3 |-> FALSE]

\* No call overlaps another; two appends do.
Alone == [s \in AllStores |-> {}]
Appends == [s \in AllStores |-> {Continued}]
AllLossy == [s \in AllStores |-> TRUE]

Symmetry == Permutations(Calls)

===============================================================================

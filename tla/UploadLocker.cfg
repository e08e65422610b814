\* Four acquires over two uploads: queues of up to three, every interleaving,
\* without symmetry (liveness).
SPECIFICATION FairSpec
CONSTANTS
    Tokens = {t1, t2}
    Attempts = {a1, a2, a3, a4}
    NoHolder = NoHolder
INVARIANTS Inv MutualExclusion
PROPERTIES NoOvertaking ImplementsUploadLock WaiterServed

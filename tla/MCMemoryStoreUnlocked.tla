------------------------ MODULE MCMemoryStoreUnlocked ------------------------
(* Small instances of MemoryStoreUnlocked. *)
EXTENDS MemoryStoreUnlocked, TLC

CONSTANT k1

\* Every upload goes to the same key, the case in which they can collide.
OneKey == [u \in Uploads |-> k1]

Symmetry == Permutations(Calls) \cup Permutations(Uploads)
===============================================================================

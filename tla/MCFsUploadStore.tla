---------------------------- MODULE MCFsUploadStore ----------------------------
(* Calls and overlaps for FsUploadStore. *)
EXTENDS FsUploadStore, TLC

CONSTANTS c1, c2, c3

\* An append or a state read that lost its lock runs on beside a later call,
\* except that two appends, or a cancel and a read, stay apart.
LockLost == {{"append", kind} : kind \in {"complete", "probe", "abort"}}
                \cup {{"probe", kind} : kind \in {"complete", "probe"}}

Symmetry == Permutations(Calls)
===============================================================================

------------------------------ MODULE UploadLock ------------------------------
(***************************************************************************)
(* What an upload locker promises to the orchestrator (the UploadLocker    *)
(* and UploadLock interfaces of src/upload-locker.ts): one owner per       *)
(* upload, ownership that leaves an owner only by its own release, and a   *)
(* lock that is never idle while somebody waits for it.  How waiters are   *)
(* ordered and how an owner is asked to yield is left to the locker.       *)
(***************************************************************************)
CONSTANTS Tokens,       \* uploads, named by their tokens
          Attempts,     \* calls of acquire
          Nobody        \* the owner of a lock nobody holds

VARIABLES owner,        \* owner[t]: the attempt that holds upload t, or Nobody
          waiting       \* waiting[t]: the attempts whose acquire is pending on t

lockVars == <<owner, waiting>>

Init == /\ owner = [t \in Tokens |-> Nobody]
        /\ waiting = [t \in Tokens |-> {}]

\* An acquire of a free lock is granted at once.
Take(a, t) ==
    /\ owner[t] = Nobody
    /\ \A u \in Tokens : owner[u] # a /\ a \notin waiting[u]
    /\ owner' = [owner EXCEPT ![t] = a]
    /\ UNCHANGED waiting

\* An acquire of a held lock is pending until a release or its own deadline.
Wait(a, t) ==
    /\ owner[t] # Nobody
    /\ \A u \in Tokens : owner[u] # a /\ a \notin waiting[u]
    /\ waiting' = [waiting EXCEPT ![t] = @ \cup {a}]
    /\ UNCHANGED owner

\* The owner releases: to a waiter if there is one, otherwise to nobody.
Leave(a, t) ==
    /\ owner[t] = a
    /\ \/ /\ waiting[t] = {}
          /\ owner' = [owner EXCEPT ![t] = Nobody]
          /\ UNCHANGED waiting
       \/ \E b \in waiting[t] :
             /\ owner' = [owner EXCEPT ![t] = b]
             /\ waiting' = [waiting EXCEPT ![t] = @ \ {b}]

\* A waiter's deadline passes.
GiveUp(a, t) ==
    /\ a \in waiting[t]
    /\ waiting' = [waiting EXCEPT ![t] = @ \ {a}]
    /\ UNCHANGED owner

Next == \E a \in Attempts, t \in Tokens :
            Take(a, t) \/ Wait(a, t) \/ Leave(a, t) \/ GiveUp(a, t)

Spec == Init /\ [][Next]_lockVars
===============================================================================

----------------------------- MODULE UploadLocker -----------------------------
(***************************************************************************)
(* The single-process locker memoryUploadLocker (src/upload-locker.ts).    *)
(*                                                                         *)
(* A Map from upload token to Holder: the AbortController of the current   *)
(* tenure and a FIFO queue of waiters, each with a timer.  A second        *)
(* acquirer does not just wait, it aborts the holder's signal, and a       *)
(* hand-over installs a fresh controller and aborts it at once when more   *)
(* waiters stand behind.  Each method body is one uninterruptible turn of  *)
(* the event loop, so each is one action; the interleaving that matters is *)
(* between acquires, releases and timers.                                  *)
(*                                                                         *)
(* An attempt is one call of acquire and, once granted, the lock object it *)
(* returned.  Its tenure's controller is named by the attempt itself.      *)
(***************************************************************************)
EXTENDS Naturals, Sequences

CONSTANTS Tokens,       \* uploads, named by their tokens
          Attempts,     \* calls of acquire (reused once finished, see Forget)
          NoHolder      \* holders.get(token) === undefined

Holder == [controller : Attempts, queue : Seq(Attempts)]

ASSUME NoHolderAssumption == NoHolder \notin Attempts /\ NoHolder \notin Holder

VARIABLES holders,      \* holders[t]: NoHolder or [controller, queue]
          aborted,      \* aborted[a]: the signal of a's tenure was aborted
          timers,       \* the attempts whose acquire timer is armed
          pc,           \* pc[a]: where the attempt is, see Stages
          on,           \* on[a]: the token the attempt was made for
          elders        \* history: elders[a], who already waited on a's token
                        \* when a started to wait, and waits still

vars == <<holders, aborted, timers, pc, on, elders>>

\* "released" is the released flag of makeLock; the other stages are those
\* of acquire's promise.
Stages == {"idle", "waiting", "holding", "released", "timedOut"}

TypeOK ==
    /\ holders \in [Tokens -> Holder \cup {NoHolder}]
    /\ aborted \in [Attempts -> BOOLEAN]
    /\ timers \subseteq Attempts
    /\ pc \in [Attempts -> Stages]
    /\ on \in [Attempts -> Tokens]
    /\ elders \in [Attempts -> SUBSET Attempts]

Held(t) == holders[t] # NoHolder

\* The attempts queued for a token.
Queued(t) ==
    {a \in Attempts :
        Held(t) /\ \E i \in 1..Len(holders[t].queue) : holders[t].queue[i] = a}

\* queue.splice(i, 1), and the slip of removing the entry after it.
SpliceOffByOne(q, i) ==
    IF i = Len(q) THEN q ELSE [j \in 1..(Len(q) - 1) |-> IF j <= i THEN q[j] ELSE q[j + 1]]
Splice(q, i) == [j \in 1..(Len(q) - 1) |-> IF j < i THEN q[j] ELSE q[j + 1]]

\* queue.push, and the slip of queueing in front.
Unshift(q, a) == <<a>> \o q
Push(q, a) == Append(q, a)

\* The lock object is live until its first release; without the released
\* flag every later release would act again.
LiveForEver(a) == pc[a] \in {"holding", "released"}
Live(a) == pc[a] = "holding"

\* An acquire is granted at once when the Map has no entry; the slip takes an
\* entry nobody waits behind for a free one.
VacantIfUnqueued(t) == Held(t) => holders[t].queue = <<>>
Vacant(t) == ~Held(t)

\* holders.delete(token)
Vacated == NoHolder

\* The controller a hand-over from a to next installs.
NewTenure(a, next) == next

\* Whether a hand-over aborts the new tenure at once: when others remain.
NeverPressed(rest) == FALSE
Pressed(rest) == rest # <<>>

\* history: a's settled wait is over for those who came after it.
NoLonger(a) == [b \in Attempts |-> elders[b] \ {a}]

-------------------------------------------------------------------------------
Init ==
    /\ holders = [t \in Tokens |-> NoHolder]
    /\ aborted = [a \in Attempts |-> FALSE]
    /\ timers = {}
    /\ pc = [a \in Attempts |-> "idle"]
    /\ on \in [Attempts -> Tokens]
    /\ elders = [a \in Attempts |-> {}]

\* acquire with no holder: a fresh entry, granted synchronously.
AcquireFree(a, t) ==
    /\ pc[a] = "idle"
    /\ Vacant(t)
    /\ holders' = [holders EXCEPT ![t] = [controller |-> a, queue |-> <<>>]]
    /\ aborted' = [aborted EXCEPT ![a] = FALSE]
    /\ pc' = [pc EXCEPT ![a] = "holding"]
    /\ on' = [on EXCEPT ![a] = t]
    /\ UNCHANGED <<timers, elders>>

\* acquire of a held token: queue behind it, arm the deadline and preempt.
AcquireQueued(a, t) ==
    /\ pc[a] = "idle"
    /\ Held(t)
    /\ holders' = [holders EXCEPT ![t].queue = Push(@, a)]
    /\ aborted' = [aborted EXCEPT ![holders[t].controller] = TRUE]
    /\ timers' = timers \cup {a}
    /\ pc' = [pc EXCEPT ![a] = "waiting"]
    /\ on' = [on EXCEPT ![a] = t]
    /\ elders' = [elders EXCEPT ![a] = Queued(t)]

\* release with an empty queue: the entry goes.
ReleaseLast(a) ==
    LET t == on[a] IN
    /\ Live(a)
    /\ Held(t)
    /\ holders[t].queue = <<>>
    /\ holders' = [holders EXCEPT ![t] = Vacated]
    /\ pc' = [pc EXCEPT ![a] = "released"]
    /\ UNCHANGED <<aborted, timers, on, elders>>

\* release with waiters: the first one gets the entry under a controller of
\* its own, aborted in the same turn when others remain behind it.
ReleaseHandOver(a) ==
    LET t    == on[a]
        next == Head(holders[t].queue)
        rest == Tail(holders[t].queue)
    IN
    /\ Live(a)
    /\ Held(t)
    /\ holders[t].queue # <<>>
    /\ holders' = [holders EXCEPT
                      ![t] = [controller |-> NewTenure(a, next), queue |-> rest]]
    /\ aborted' = [aborted EXCEPT ![next] = Pressed(rest)]
    /\ timers' = timers \ {next}
    /\ pc' = [pc EXCEPT ![a] = "released", ![next] = "holding"]
    /\ elders' = NoLonger(next)
    /\ UNCHANGED on

Release(a) == ReleaseLast(a) \/ ReleaseHandOver(a)

\* The acquire timer fires: leave the queue and reject.
Timeout(a) ==
    /\ a \in timers
    /\ \E i \in 1..Len(holders[on[a]].queue) :
          /\ holders[on[a]].queue[i] = a
          /\ holders' = [holders EXCEPT ![on[a]].queue = Splice(@, i)]
    /\ timers' = timers \ {a}
    /\ pc' = [pc EXCEPT ![a] = "timedOut"]
    /\ elders' = NoLonger(a)
    /\ UNCHANGED <<aborted, on>>

\* The caller drops a settled attempt and its lock object; a later request
\* may come under the same name.
Forget(a) ==
    /\ pc[a] \in {"released", "timedOut"}
    /\ pc' = [pc EXCEPT ![a] = "idle"]
    /\ UNCHANGED <<holders, aborted, timers, on, elders>>

Next ==
    \/ \E a \in Attempts, t \in Tokens : AcquireFree(a, t) \/ AcquireQueued(a, t)
    \/ \E a \in Attempts : ReleaseLast(a)
    \/ \E a \in Attempts : ReleaseHandOver(a)
    \/ \E a \in Attempts : Timeout(a)
    \/ \E a \in Attempts : Forget(a)

Spec == Init /\ [][Next]_vars

\* A holder whose signal is aborted stops streaming and reaches the finally
\* that releases; a holder nobody preempted may stream for ever, and a timer
\* owes nobody anything.
FairSpec == Spec /\ \A a \in Attempts : WF_vars(aborted[a] /\ Release(a))

-------------------------------------------------------------------------------
(* Properties *)

\* Two lock objects are never live for one upload, whatever order acquires,
\* releases and deadlines come in (release() is idempotent per lock object).
MutualExclusion ==
    \A a, b \in Attempts :
        pc[a] = "holding" /\ pc[b] = "holding" /\ on[a] = on[b] => a = b

\* The map agrees with the lock objects handed out: an entry exists exactly
\* while someone holds its token, and names that holder's controller, so a
\* preempt always lands on the signal the present holder watches.
PreemptLandsOnHolder ==
    /\ \A t \in Tokens : Held(t) =>
          /\ pc[holders[t].controller] = "holding"
          /\ on[holders[t].controller] = t
    /\ \A a \in Attempts : pc[a] = "holding" =>
          /\ Held(on[a])
          /\ holders[on[a]].controller = a

\* Every member of t's queue is waiting for t, and is there once.
QueueSound(t) ==
    \A i \in 1..Len(holders[t].queue) :
        /\ pc[holders[t].queue[i]] = "waiting"
        /\ on[holders[t].queue[i]] = t
        /\ \A j \in 1..Len(holders[t].queue) :
              holders[t].queue[i] = holders[t].queue[j] => i = j

\* A pending acquire is in the queue of its token, once, with its timer
\* armed: neither a hand-over nor another waiter's deadline loses it.
NoLostWaiter ==
    /\ \A a \in Attempts : (pc[a] = "waiting") <=> (a \in timers)
    /\ \A a \in Attempts : pc[a] = "waiting" => a \in Queued(on[a])
    /\ \A t \in Tokens : Held(t) => QueueSound(t)

\* Whoever waits has preempted the present holder: a request that arrived
\* under an earlier holder still presses on the one that took over from it.
WaiterHasPreempted ==
    \A t \in Tokens :
        Held(t) /\ holders[t].queue # <<>> => aborted[holders[t].controller]

\* The invariant the other safety properties follow from.
Inv == TypeOK /\ PreemptLandsOnHolder /\ NoLostWaiter /\ WaiterHasPreempted

\* The queue keeps the order of arrival: a member's elders are those before
\* it (what NoOvertaking follows from).
OrderKept ==
    \A t \in Tokens : Held(t) =>
        \A i \in 1..Len(holders[t].queue) :
            elders[holders[t].queue[i]] =
                {b \in Attempts : \E j \in 1..(i - 1) : holders[t].queue[j] = b}

\* First come, first served: a step never grants the lock to an attempt while
\* one that asked for the same token before it still waits, and a newcomer
\* never takes a lock others wait for.
NoOvertaking ==
    [][\A a \in Attempts :
          pc[a] # "holding" /\ pc'[a] = "holding" =>
             IF pc[a] = "waiting" THEN elders[a] = {}
             ELSE \A b \in Attempts : ~(pc[b] = "waiting" /\ on[b] = on'[a])]_vars

\* A tenure starts unpreempted unless someone already waits behind it: the
\* abort that ended one tenure never leaks into the next.
FreshTenure ==
    [][\A a \in Attempts :
          pc[a] # "holding" /\ pc'[a] = "holding" =>
             (aborted[a] <=> Queued(on[a]) # {})']_vars

\* Preemption alone drains the queue: every waiter is granted the lock or
\* gives up, with no help from any timer.
WaiterServed ==
    \A a \in Attempts : (pc[a] = "waiting") ~> (pc[a] # "waiting")

\* The locker is an UploadLock: who holds each token, and who is queued for it.
lockOwner   == [t \in Tokens |-> IF Held(t) THEN holders[t].controller ELSE NoHolder]
lockWaiting == [t \in Tokens |-> Queued(t)]

Lock == INSTANCE UploadLock WITH
            Nobody <- NoHolder, owner <- lockOwner, waiting <- lockWaiting

\* Every interleaving is one the UploadLocker interface allows: a lock passes
\* only from its owner's release, and never to nobody past a waiter.
ImplementsUploadLock == Lock!Spec
===============================================================================

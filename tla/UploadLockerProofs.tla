-------------------------- MODULE UploadLockerProofs --------------------------
(***************************************************************************)
(* Proofs about memoryUploadLocker for any set of uploads and of callers:  *)
(* the invariant Inv, mutual exclusion, the two hand-over action           *)
(* properties, and that the locker implements UploadLock.                  *)
(***************************************************************************)
EXTENDS UploadLocker, TLAPS

\* The one-line helpers of the actions stand for their definitions throughout.
USE DEF Live, Vacant, Vacated, Push, NewTenure, Pressed

\* queue.push
LEMMA AppendQueue ==
    ASSUME NEW q \in Seq(Attempts), NEW a \in Attempts
    PROVE  /\ Append(q, a) \in Seq(Attempts)
           /\ Len(Append(q, a)) = Len(q) + 1
           /\ \A i \in 1..Len(q) : Append(q, a)[i] = q[i]
           /\ Append(q, a)[Len(q) + 1] = a
OBVIOUS

\* queue.shift
LEMMA ShiftQueue ==
    ASSUME NEW q \in Seq(Attempts), q # <<>>
    PROVE  /\ Head(q) \in Attempts
           /\ Head(q) = q[1]
           /\ Len(q) >= 1
           /\ Tail(q) \in Seq(Attempts)
           /\ Len(Tail(q)) = Len(q) - 1
           /\ \A i \in 1..Len(Tail(q)) : Tail(q)[i] = q[i + 1]
OBVIOUS

\* queue.splice(i, 1)
LEMMA SpliceQueue ==
    ASSUME NEW q \in Seq(Attempts), NEW i \in 1..Len(q)
    PROVE  /\ Splice(q, i) \in Seq(Attempts)
           /\ Len(Splice(q, i)) = Len(q) - 1
           /\ \A j \in 1..Len(Splice(q, i)) :
                 Splice(q, i)[j] = q[IF j < i THEN j ELSE j + 1]
<1>1. Len(q) - 1 \in Nat
    OBVIOUS
<1>2. \A j \in 1..(Len(q) - 1) : (IF j < i THEN q[j] ELSE q[j + 1]) \in Attempts
    OBVIOUS
<1>3. Splice(q, i) \in [1..(Len(q) - 1) -> Attempts]
    BY <1>2 DEF Splice
<1>4. Splice(q, i) \in Seq(Attempts) /\ Len(Splice(q, i)) = Len(q) - 1
    BY <1>1, <1>3
<1>5. QED
    BY <1>4 DEF Splice

\* holders.set(token, {controller, queue})
LEMMA HolderEntry ==
    ASSUME NEW c \in Attempts, NEW q \in Seq(Attempts)
    PROVE  /\ [controller |-> c, queue |-> q] \in Holder
           /\ [controller |-> c, queue |-> q] # NoHolder
           /\ [controller |-> c, queue |-> q].controller = c
           /\ [controller |-> c, queue |-> q].queue = q
<1>1. [controller |-> c, queue |-> q] \in Holder
    BY DEF Holder
<1>2. QED
    BY <1>1, NoHolderAssumption

\* {...held, queue} keeps the controller.
LEMMA Requeued ==
    ASSUME NEW held \in Holder, NEW queue
    PROVE  [held EXCEPT !.queue = queue]
             = [controller |-> held.controller, queue |-> queue]
<1>1. held = [controller |-> held.controller, queue |-> held.queue]
    BY DEF Holder
<1>2. QED
    BY <1>1

\* An entry of the Map is a lock, held by an attempt, with a queue of attempts.
LEMMA HeldEntry ==
    ASSUME TypeOK, NEW t \in Tokens, Held(t)
    PROVE  /\ holders[t] \in Holder
           /\ holders[t].controller \in Attempts
           /\ holders[t].queue \in Seq(Attempts)
           /\ Len(holders[t].queue) \in Nat
           /\ \A i \in 1..Len(holders[t].queue) : holders[t].queue[i] \in Attempts
BY DEF TypeOK, Held, Holder

-------------------------------------------------------------------------------
\* With an empty Map nothing can be amiss.
LEMMA InitInv == Init => Inv
BY NoHolderAssumption
   DEF Init, Inv, TypeOK, Held, Stages, Queued, PreemptLandsOnHolder,
       NoLostWaiter, WaiterHasPreempted

\* Whoever finds no entry creates the lock, with an empty queue.
LEMMA AcquireFreeInv ==
    ASSUME Inv, NEW a \in Attempts, NEW t \in Tokens, AcquireFree(a, t)
    PROVE  Inv'
<1> DEFINE h == [controller |-> a, queue |-> <<>>]
<1>1. h \in Holder /\ h # NoHolder /\ h.controller = a /\ Len(h.queue) = 0
    <2>1. <<>> \in Seq(Attempts) /\ Len(<<>>) = 0
        OBVIOUS
    <2>2. QED
        BY <2>1, HolderEntry
<1>2. /\ holders[t] = NoHolder
      /\ holders' = [holders EXCEPT ![t] = h]
      /\ holders'[t] = h
      /\ \A u \in Tokens \ {t} : holders'[u] = holders[u]
    BY DEF Inv, TypeOK, AcquireFree, Held
<1> HIDE DEF h
<1>3. TypeOK'
    BY <1>1, <1>2 DEF Inv, TypeOK, Stages, AcquireFree
<1>4. PreemptLandsOnHolder'
    <2>1. ASSUME NEW u \in Tokens, Held(u)'
          PROVE  /\ pc'[holders'[u].controller] = "holding"
                 /\ on'[holders'[u].controller] = u
        BY <1>1, <1>2, <2>1, HeldEntry
           DEF Inv, TypeOK, AcquireFree, Held, PreemptLandsOnHolder
    <2>2. ASSUME NEW b \in Attempts, pc'[b] = "holding"
          PROVE  Held(on[b])' /\ holders'[on'[b]].controller = b
        BY <1>1, <1>2, <2>2 DEF Inv, TypeOK, AcquireFree, Held, PreemptLandsOnHolder
    <2>3. QED
        BY <2>1, <2>2 DEF PreemptLandsOnHolder
<1>5. NoLostWaiter'
    <2>1. \A b \in Attempts : (pc'[b] = "waiting") <=> (b \in timers')
        BY DEF Inv, TypeOK, AcquireFree, NoLostWaiter
    <2>2. ASSUME NEW b \in Attempts, pc'[b] = "waiting"
          PROVE  b \in Queued(on[b])'
        BY <1>2, <2>2 DEF Inv, TypeOK, AcquireFree, NoLostWaiter, Queued, Held
    <2>3. ASSUME NEW u \in Tokens, Held(u)'
          PROVE  QueueSound(u)'
        <3>1. CASE u = t
            BY <1>1, <1>2, <3>1 DEF QueueSound
        <3>2. CASE u # t
            BY <1>2, <2>3, <3>2, HeldEntry
               DEF Inv, TypeOK, AcquireFree, NoLostWaiter, QueueSound, Held
        <3>3. QED
            BY <3>1, <3>2
    <2>4. QED
        BY <2>1, <2>2, <2>3 DEF NoLostWaiter
<1>6. WaiterHasPreempted'
    <2>1. ASSUME NEW u \in Tokens, Held(u)', holders'[u].queue # <<>>
          PROVE  aborted'[holders'[u].controller]
        <3>1. u # t
            BY <1>2, <2>1 DEF h
        <3>2. holders[u].controller # a
            BY <1>2, <2>1, <3>1 DEF Inv, PreemptLandsOnHolder, AcquireFree, Held
        <3>3. QED
            BY <1>2, <2>1, <3>1, <3>2
               DEF Inv, TypeOK, AcquireFree, Held, WaiterHasPreempted
    <2>2. QED
        BY <2>1 DEF WaiterHasPreempted
<1>7. QED
    BY <1>3, <1>4, <1>5, <1>6 DEF Inv

\* Whoever finds one preempts its holder and waits at the end of its queue.
LEMMA AcquireQueuedInv ==
    ASSUME Inv, NEW a \in Attempts, NEW t \in Tokens, AcquireQueued(a, t)
    PROVE  Inv'
<1> DEFINE q == holders[t].queue
           c == holders[t].controller
           h == [controller |-> c, queue |-> Append(q, a)]
<1>1. /\ holders[t] \in Holder /\ c \in Attempts /\ q \in Seq(Attempts)
      /\ Len(q) \in Nat
    BY HeldEntry DEF AcquireQueued, Inv
<1>2. /\ Append(q, a) \in Seq(Attempts)
      /\ Len(Append(q, a)) = Len(q) + 1 /\ Append(q, a)[Len(q) + 1] = a
      /\ \A i \in 1..Len(q) : Append(q, a)[i] = q[i]
    BY <1>1, AppendQueue
<1>3. h \in Holder /\ h # NoHolder /\ h.controller = c /\ h.queue = Append(q, a)
    BY <1>1, <1>2, HolderEntry
<1>4. /\ holders' = [holders EXCEPT ![t] = h]
      /\ holders'[t] = h
      /\ \A u \in Tokens \ {t} : holders'[u] = holders[u]
    <2>1. [holders[t] EXCEPT !.queue = Append(q, a)] = h
        BY <1>1, Requeued
    <2>2. QED
        BY <2>1 DEF Inv, TypeOK, AcquireQueued
<1>5. /\ c # a /\ pc[c] = "holding" /\ on[c] = t
      /\ \A i \in 1..Len(q) : q[i] # a
    BY <1>1 DEF Inv, PreemptLandsOnHolder, NoLostWaiter, QueueSound, AcquireQueued
<1> HIDE DEF h
<1>6. TypeOK'
    <2>1. Queued(t) \subseteq Attempts
        BY DEF Queued
    <2>2. QED
        BY <1>1, <1>3, <1>4, <2>1 DEF Inv, TypeOK, Stages, AcquireQueued
<1>7. PreemptLandsOnHolder'
    <2>1. ASSUME NEW u \in Tokens, Held(u)'
          PROVE  /\ pc'[holders'[u].controller] = "holding"
                 /\ on'[holders'[u].controller] = u
        <3>1. Held(u)
            BY <1>4, <2>1 DEF Held, AcquireQueued
        <3>2. holders'[u].controller = holders[u].controller
            BY <1>3, <1>4
        <3>3. QED
            BY <3>1, <3>2, HeldEntry DEF Inv, TypeOK, AcquireQueued, PreemptLandsOnHolder
    <2>2. ASSUME NEW b \in Attempts, pc'[b] = "holding"
          PROVE  Held(on[b])' /\ holders'[on'[b]].controller = b
        <3>1. pc[b] = "holding" /\ on'[b] = on[b] /\ on[b] \in Tokens
            BY <2>2 DEF Inv, TypeOK, AcquireQueued
        <3>2. QED
            BY <1>3, <1>4, <3>1 DEF Inv, PreemptLandsOnHolder, Held
    <2>3. QED
        BY <2>1, <2>2 DEF PreemptLandsOnHolder
<1>8. NoLostWaiter'
    <2>1. \A b \in Attempts : (pc'[b] = "waiting") <=> (b \in timers')
        BY DEF Inv, TypeOK, AcquireQueued, NoLostWaiter
    <2>2. ASSUME NEW b \in Attempts, pc'[b] = "waiting"
          PROVE  b \in Queued(on[b])'
        <3>1. CASE b = a
            <4>1. on'[b] = t /\ Len(q) + 1 \in 1..Len(h.queue)
                BY <1>1, <1>2, <1>3, <3>1 DEF Inv, TypeOK, AcquireQueued
            <4>2. QED
                BY <1>2, <1>3, <1>4, <3>1, <4>1 DEF Queued, Held
        <3>2. CASE b # a
            <4>1. b \in Queued(on[b]) /\ on'[b] = on[b] /\ on[b] \in Tokens
                BY <2>2, <3>2 DEF Inv, TypeOK, AcquireQueued, NoLostWaiter
            <4>2. CASE on[b] = t
                <5>1. PICK i \in 1..Len(q) : q[i] = b
                    BY <4>1, <4>2 DEF Queued, Held, AcquireQueued
                <5>2. i \in 1..Len(h.queue) /\ h.queue[i] = b
                    BY <1>1, <1>2, <1>3, <5>1
                <5>3. QED
                    BY <1>3, <1>4, <4>1, <4>2, <5>2 DEF Queued, Held
            <4>3. CASE on[b] # t
                BY <1>4, <4>1, <4>3 DEF Queued, Held
            <4>4. QED
                BY <4>2, <4>3
        <3>3. QED
            BY <3>1, <3>2
    <2>3. ASSUME NEW u \in Tokens, Held(u)'
          PROVE  QueueSound(u)'
        <3>1. CASE u = t
            <4>1. QueueSound(t)
                BY DEF Inv, NoLostWaiter, AcquireQueued
            <4>2. ASSUME NEW i \in 1..(Len(q) + 1)
                  PROVE  /\ pc'[h.queue[i]] = "waiting"
                         /\ on'[h.queue[i]] = t
                         /\ h.queue[i] = (IF i <= Len(q) THEN q[i] ELSE a)
                <5>1. CASE i \in 1..Len(q)
                    BY <1>1, <1>2, <1>3, <1>5, <4>1, <5>1
                       DEF QueueSound, Inv, TypeOK, AcquireQueued
                <5>2. CASE i = Len(q) + 1
                    BY <1>1, <1>2, <1>3, <5>2 DEF Inv, TypeOK, AcquireQueued
                <5>3. QED
                    BY <1>1, <5>1, <5>2
            <4>3. \A i, j \in 1..(Len(q) + 1) : h.queue[i] = h.queue[j] => i = j
                BY <1>1, <1>5, <4>1, <4>2 DEF QueueSound
            <4>4. holders'[u].queue = h.queue /\ Len(h.queue) = Len(q) + 1
                BY <1>2, <1>3, <1>4, <3>1
            <4>5. QED
                BY <3>1, <4>2, <4>3, <4>4 DEF QueueSound
        <3>2. CASE u # t
            BY <1>4, <2>3, <3>2, HeldEntry
               DEF Inv, TypeOK, AcquireQueued, NoLostWaiter, QueueSound, Held
        <3>3. QED
            BY <3>1, <3>2
    <2>4. QED
        BY <2>1, <2>2, <2>3 DEF NoLostWaiter
<1>9. WaiterHasPreempted'
    <2>1. ASSUME NEW u \in Tokens, Held(u)', holders'[u].queue # <<>>
          PROVE  aborted'[holders'[u].controller]
        BY <1>1, <1>3, <1>4, <2>1, HeldEntry
           DEF Inv, TypeOK, AcquireQueued, Held, WaiterHasPreempted
    <2>2. QED
        BY <2>1 DEF WaiterHasPreempted
<1>10. QED
    BY <1>6, <1>7, <1>8, <1>9 DEF Inv

\* A release that nobody waits for forgets the lock.
LEMMA ReleaseLastInv ==
    ASSUME Inv, NEW a \in Attempts, ReleaseLast(a)
    PROVE  Inv'
<1> DEFINE t == on[a]
<1>1. /\ t \in Tokens /\ Held(t) /\ holders[t].queue = <<>>
      /\ holders'[t] = NoHolder
      /\ \A u \in Tokens \ {t} : holders'[u] = holders[u]
    BY DEF Inv, TypeOK, ReleaseLast
<1>2. TypeOK'
    BY DEF Inv, TypeOK, Stages, ReleaseLast
<1> HIDE DEF t
<1>3. PreemptLandsOnHolder'
    <2>1. ASSUME NEW u \in Tokens, Held(u)'
          PROVE  /\ pc'[holders'[u].controller] = "holding"
                 /\ on'[holders'[u].controller] = u
        <3>1. u # t /\ Held(u) /\ holders'[u] = holders[u]
            BY <1>1, <2>1 DEF Held
        <3>2. /\ pc[holders[u].controller] = "holding"
              /\ on[holders[u].controller] = u /\ holders[u].controller # a
            BY <3>1 DEF Inv, PreemptLandsOnHolder, t
        <3>3. QED
            BY <3>1, <3>2, HeldEntry DEF Inv, TypeOK, ReleaseLast
    <2>2. ASSUME NEW b \in Attempts, pc'[b] = "holding"
          PROVE  Held(on[b])' /\ holders'[on'[b]].controller = b
        <3>1. pc[b] = "holding" /\ b # a /\ on'[b] = on[b] /\ on[b] \in Tokens
            BY <2>2 DEF Inv, TypeOK, ReleaseLast
        <3>2. on[b] # t
            BY <3>1 DEF Inv, PreemptLandsOnHolder, ReleaseLast, t
        <3>3. QED
            BY <1>1, <3>1, <3>2 DEF Inv, PreemptLandsOnHolder, Held
    <2>3. QED
        BY <2>1, <2>2 DEF PreemptLandsOnHolder
<1>4. NoLostWaiter'
    <2>1. \A b \in Attempts : (pc'[b] = "waiting") <=> (b \in timers')
        BY DEF Inv, TypeOK, ReleaseLast, NoLostWaiter
    <2>2. ASSUME NEW b \in Attempts, pc'[b] = "waiting"
          PROVE  b \in Queued(on[b])'
        <3>1. b \in Queued(on[b]) /\ on'[b] = on[b] /\ on[b] \in Tokens
            BY <2>2 DEF Inv, TypeOK, ReleaseLast, NoLostWaiter
        <3>2. on[b] # t
            BY <1>1, <3>1 DEF Queued, Held
        <3>3. QED
            BY <1>1, <3>1, <3>2 DEF Queued, Held
    <2>3. ASSUME NEW u \in Tokens, Held(u)'
          PROVE  QueueSound(u)'
        BY <1>1, <2>3, HeldEntry
           DEF Inv, TypeOK, ReleaseLast, NoLostWaiter, QueueSound, Held
    <2>4. QED
        BY <2>1, <2>2, <2>3 DEF NoLostWaiter
<1>5. WaiterHasPreempted'
    BY <1>1 DEF Inv, ReleaseLast, WaiterHasPreempted, Held
<1>6. QED
    BY <1>2, <1>3, <1>4, <1>5 DEF Inv

\* A release hands the lock to the first in the queue, whose tenure starts
\* preempted if others wait behind it.
LEMMA ReleaseHandOverInv ==
    ASSUME Inv, NEW a \in Attempts, ReleaseHandOver(a)
    PROVE  Inv'
<1> DEFINE t == on[a]
           q == holders[t].queue
           next == Head(q)
           h == [controller |-> next, queue |-> Tail(q)]
<1>1. /\ t \in Tokens /\ Held(t) /\ q \in Seq(Attempts) /\ q # <<>>
      /\ holders[t].controller = a
    BY HeldEntry DEF ReleaseHandOver, Inv, TypeOK, PreemptLandsOnHolder
<1>2. /\ next \in Attempts /\ next = q[1] /\ Len(q) \in Nat /\ Len(q) >= 1
      /\ Tail(q) \in Seq(Attempts) /\ Len(Tail(q)) = Len(q) - 1
      /\ \A i \in 1..Len(Tail(q)) : Tail(q)[i] = q[i + 1]
    BY <1>1, ShiftQueue
<1>3. h \in Holder /\ h # NoHolder /\ h.controller = next /\ h.queue = Tail(q)
    BY <1>2, HolderEntry
<1>4. /\ holders' = [holders EXCEPT ![t] = h]
      /\ holders'[t] = h
      /\ \A u \in Tokens \ {t} : holders'[u] = holders[u]
    BY <1>1 DEF Inv, TypeOK, ReleaseHandOver
<1>5. /\ \A i \in 1..Len(q) : pc[q[i]] = "waiting" /\ on[q[i]] = t /\ q[i] # a
      /\ \A i, j \in 1..Len(q) : q[i] = q[j] => i = j
    BY <1>1 DEF Inv, NoLostWaiter, QueueSound, ReleaseHandOver
<1>6. next # a /\ pc[next] = "waiting" /\ on[next] = t
    BY <1>2, <1>5
<1>7. /\ timers' = timers \ {next}
      /\ pc' = [pc EXCEPT ![a] = "released", ![next] = "holding"]
      /\ aborted' = [aborted EXCEPT ![next] = Tail(q) # <<>>]
      /\ on' = on /\ elders' = NoLonger(next)
    BY DEF ReleaseHandOver
<1> HIDE DEF h, next, q, t
<1>8. TypeOK'
    BY <1>1, <1>2, <1>3, <1>4, <1>7 DEF Inv, TypeOK, Stages, NoLonger
<1>9. PreemptLandsOnHolder'
    <2>1. ASSUME NEW u \in Tokens, Held(u)'
          PROVE  /\ pc'[holders'[u].controller] = "holding"
                 /\ on'[holders'[u].controller] = u
        <3>1. CASE u = t
            BY <1>2, <1>3, <1>4, <1>6, <1>7, <3>1 DEF Inv, TypeOK
        <3>2. CASE u # t
            <4>1. Held(u) /\ holders'[u] = holders[u]
                BY <1>4, <2>1, <3>2 DEF Held
            <4>2. /\ pc[holders[u].controller] = "holding"
                  /\ on[holders[u].controller] = u /\ holders[u].controller # a
                BY <3>2, <4>1 DEF Inv, PreemptLandsOnHolder, t
            <4>3. QED
                BY <1>6, <1>7, <4>1, <4>2, HeldEntry DEF Inv, TypeOK
        <3>3. QED
            BY <3>1, <3>2
    <2>2. ASSUME NEW b \in Attempts, pc'[b] = "holding"
          PROVE  Held(on[b])' /\ holders'[on'[b]].controller = b
        <3>1. CASE b = next
            BY <1>3, <1>4, <1>6, <1>7, <3>1 DEF Held
        <3>2. CASE b # next
            <4>1. pc[b] = "holding" /\ b # a /\ on'[b] = on[b] /\ on[b] \in Tokens
                BY <1>7, <2>2, <3>2 DEF Inv, TypeOK
            <4>2. on[b] # t
                BY <1>1, <4>1 DEF Inv, PreemptLandsOnHolder
            <4>3. QED
                BY <1>4, <4>1, <4>2 DEF Inv, PreemptLandsOnHolder, Held
        <3>3. QED
            BY <3>1, <3>2
    <2>3. QED
        BY <2>1, <2>2 DEF PreemptLandsOnHolder
<1>10. NoLostWaiter'
    <2>1. \A b \in Attempts : (pc'[b] = "waiting") <=> (b \in timers')
        BY <1>6, <1>7 DEF Inv, TypeOK, NoLostWaiter, ReleaseHandOver
    <2>2. ASSUME NEW b \in Attempts, pc'[b] = "waiting"
          PROVE  b \in Queued(on[b])'
        <3>1. /\ b \in Queued(on[b]) /\ on'[b] = on[b] /\ on[b] \in Tokens
              /\ b # next
            BY <1>6, <1>7, <2>2 DEF Inv, TypeOK, NoLostWaiter
        <3>2. CASE on[b] = t
            <4>1. PICK i \in 1..Len(q) : q[i] = b
                BY <1>1, <3>1, <3>2 DEF Queued, q
            <4>2. /\ i - 1 \in 1..Len(Tail(q)) /\ Tail(q)[i - 1] = b
                BY <1>2, <3>1, <4>1
            <4>3. QED
                BY <1>3, <1>4, <3>1, <3>2, <4>2 DEF Queued, Held
        <3>3. CASE on[b] # t
            BY <1>4, <3>1, <3>3 DEF Queued, Held
        <3>4. QED
            BY <3>2, <3>3
    <2>3. ASSUME NEW u \in Tokens, Held(u)'
          PROVE  QueueSound(u)'
        <3>1. CASE u = t
            <4>1. ASSUME NEW i \in 1..Len(Tail(q))
                  PROVE  /\ pc'[Tail(q)[i]] = "waiting" /\ on'[Tail(q)[i]] = t
                         /\ \A j \in 1..Len(Tail(q)) : Tail(q)[i] = Tail(q)[j] => i = j
                <5>1. i + 1 \in 1..Len(q) /\ Tail(q)[i] = q[i + 1] /\ q[i + 1] \in Attempts
                    BY <1>1, <1>2
                <5>2. q[i + 1] # next /\ q[i + 1] # a
                    BY <1>2, <1>5, <5>1
                <5>3. \A j \in 1..Len(Tail(q)) :
                         /\ j + 1 \in 1..Len(q) /\ Tail(q)[j] = q[j + 1]
                         /\ j \in Nat
                    BY <1>2
                <5>4. QED
                    BY <1>5, <1>7, <5>1, <5>2, <5>3 DEF Inv, TypeOK
            <4>2. holders'[u].queue = Tail(q)
                BY <1>3, <1>4, <3>1
            <4>3. QED
                BY <3>1, <4>1, <4>2 DEF QueueSound
        <3>2. CASE u # t
            <4>1. /\ Held(u) /\ holders'[u] = holders[u] /\ QueueSound(u)
                BY <1>4, <2>3, <3>2 DEF Held, Inv, NoLostWaiter
            <4>2. \A i \in 1..Len(holders[u].queue) :
                     /\ holders[u].queue[i] \in Attempts
                     /\ holders[u].queue[i] # a /\ holders[u].queue[i] # next
                BY <1>6, <3>2, <4>1, HeldEntry DEF QueueSound, Inv, ReleaseHandOver
            <4>3. QED
                BY <1>7, <4>1, <4>2 DEF QueueSound, Inv, TypeOK
        <3>3. QED
            BY <3>1, <3>2
    <2>4. QED
        BY <2>1, <2>2, <2>3 DEF NoLostWaiter
<1>11. WaiterHasPreempted'
    <2>1. ASSUME NEW u \in Tokens, Held(u)', holders'[u].queue # <<>>
          PROVE  aborted'[holders'[u].controller]
        <3>1. CASE u = t
            BY <1>2, <1>3, <1>4, <1>7, <2>1, <3>1, ZenonT(60) DEF Inv, TypeOK
        <3>2. CASE u # t
            <4>1. Held(u) /\ holders'[u] = holders[u] /\ aborted[holders[u].controller]
                BY <1>4, <2>1, <3>2 DEF Held, Inv, WaiterHasPreempted
            <4>2. holders[u].controller # next
                BY <1>6, <4>1 DEF Inv, PreemptLandsOnHolder
            <4>3. QED
                BY <1>7, <4>1, <4>2, HeldEntry DEF Inv, TypeOK
        <3>3. QED
            BY <3>1, <3>2
    <2>2. QED
        BY <2>1 DEF WaiterHasPreempted
<1>12. QED
    BY <1>8, <1>9, <1>10, <1>11 DEF Inv

\* A waiter whose deadline passes leaves its queue, and nobody else does.
LEMMA TimeoutInv ==
    ASSUME Inv, NEW a \in Attempts, Timeout(a)
    PROVE  Inv'
<1> DEFINE t == on[a]
           q == holders[t].queue
           c == holders[t].controller
<1>1. /\ t \in Tokens /\ a \in timers /\ pc[a] = "waiting" /\ a \in Queued(t)
      /\ Held(t)
    BY DEF Timeout, Inv, TypeOK, NoLostWaiter, Queued
<1>2. PICK i \in 1..Len(q) :
        q[i] = a /\ holders' = [holders EXCEPT ![t].queue = Splice(q, i)]
    BY DEF Timeout
<1> DEFINE r == Splice(q, i)
           h == [controller |-> c, queue |-> r]
<1>3. /\ holders[t] \in Holder /\ c \in Attempts /\ q \in Seq(Attempts)
      /\ Len(q) \in Nat /\ i \in 1..Len(q)
    BY <1>1, <1>2, HeldEntry DEF Inv
<1>4. /\ r \in Seq(Attempts) /\ Len(r) = Len(q) - 1
      /\ \A j \in 1..Len(r) : r[j] = q[IF j < i THEN j ELSE j + 1]
    BY <1>3, SpliceQueue
<1>5. h \in Holder /\ h # NoHolder /\ h.controller = c /\ h.queue = r
    BY <1>3, <1>4, HolderEntry
<1>6. /\ holders' = [holders EXCEPT ![t] = h]
      /\ holders'[t] = h
      /\ \A u \in Tokens \ {t} : holders'[u] = holders[u]
    <2>1. [holders[t] EXCEPT !.queue = r] = h
        BY <1>3, Requeued
    <2>2. QED
        BY <1>1, <1>2, <2>1 DEF Inv, TypeOK
<1>7. /\ \A j \in 1..Len(q) : pc[q[j]] = "waiting" /\ on[q[j]] = t
      /\ \A j, k \in 1..Len(q) : q[j] = q[k] => j = k
      /\ c # a /\ q[i] = a
    BY <1>1, <1>2 DEF Inv, NoLostWaiter, QueueSound, PreemptLandsOnHolder
<1>8. /\ timers' = timers \ {a} /\ pc' = [pc EXCEPT ![a] = "timedOut"]
      /\ aborted' = aborted /\ on' = on /\ elders' = NoLonger(a)
    BY DEF Timeout
<1> HIDE DEF h, r, c, q, t
<1>9. TypeOK'
    BY <1>5, <1>6, <1>8 DEF Inv, TypeOK, Stages, NoLonger
<1>10. PreemptLandsOnHolder'
    <2>1. ASSUME NEW u \in Tokens, Held(u)'
          PROVE  /\ pc'[holders'[u].controller] = "holding"
                 /\ on'[holders'[u].controller] = u
        <3>1. Held(u) /\ holders'[u].controller = holders[u].controller
            BY <1>1, <1>5, <1>6, <2>1 DEF Held, c
        <3>2. QED
            BY <1>1, <1>8, <3>1, HeldEntry DEF Inv, TypeOK, PreemptLandsOnHolder
    <2>2. ASSUME NEW b \in Attempts, pc'[b] = "holding"
          PROVE  Held(on[b])' /\ holders'[on'[b]].controller = b
        <3>1. pc[b] = "holding" /\ on'[b] = on[b] /\ on[b] \in Tokens
            BY <1>8, <2>2 DEF Inv, TypeOK
        <3>2. Held(on[b]) /\ holders[on[b]].controller = b
            BY <3>1 DEF Inv, PreemptLandsOnHolder
        <3>3. QED
            BY <1>5, <1>6, <3>1, <3>2 DEF Held, c
    <2>3. QED
        BY <2>1, <2>2 DEF PreemptLandsOnHolder
<1>11. NoLostWaiter'
    <2>1. \A b \in Attempts : (pc'[b] = "waiting") <=> (b \in timers')
        BY <1>8 DEF Inv, TypeOK, NoLostWaiter
    <2>2. ASSUME NEW b \in Attempts, pc'[b] = "waiting"
          PROVE  b \in Queued(on[b])'
        <3>1. /\ b \in Queued(on[b]) /\ on'[b] = on[b] /\ on[b] \in Tokens
              /\ b # a
            BY <1>8, <2>2 DEF Inv, TypeOK, NoLostWaiter
        <3>2. CASE on[b] = t
            <4>1. PICK j \in 1..Len(q) : q[j] = b
                BY <1>1, <3>1, <3>2 DEF Queued, q
            <4>2. j # i
                BY <1>7, <3>1, <4>1
            <4>3. \E k \in 1..Len(r) : r[k] = b
                <5>1. CASE j < i
                    <6>1. j \in 1..Len(r) /\ r[j] = q[j]
                        BY <1>3, <1>4, <4>1, <5>1
                    <6>2. QED
                        BY <4>1, <6>1
                <5>2. CASE j > i
                    <6>1. j - 1 \in 1..Len(r) /\ r[j - 1] = q[j]
                        BY <1>3, <1>4, <4>1, <5>2
                    <6>2. QED
                        BY <4>1, <6>1
                <5>3. QED
                    BY <1>3, <4>1, <4>2, <5>1, <5>2
            <4>4. QED
                BY <1>5, <1>6, <3>1, <3>2, <4>3 DEF Queued, Held
        <3>3. CASE on[b] # t
            BY <1>6, <3>1, <3>3 DEF Queued, Held
        <3>4. QED
            BY <3>2, <3>3
    <2>3. ASSUME NEW u \in Tokens, Held(u)'
          PROVE  QueueSound(u)'
        <3>1. CASE u = t
            <4>1. ASSUME NEW j \in 1..Len(r)
                  PROVE  /\ pc'[r[j]] = "waiting" /\ on'[r[j]] = t
                         /\ \A k \in 1..Len(r) : r[j] = r[k] => j = k
                <5>1. \A k \in 1..Len(r) :
                         /\ (IF k < i THEN k ELSE k + 1) \in (1..Len(q)) \ {i}
                         /\ r[k] = q[IF k < i THEN k ELSE k + 1]
                         /\ k \in Nat
                    BY <1>3, <1>4
                <5>2. r[j] \in Attempts /\ r[j] # a
                    BY <1>3, <1>4, <1>7, <5>1, SMTT(60)
                <5>3. pc'[r[j]] = "waiting" /\ on'[r[j]] = t
                    BY <1>7, <1>8, <5>1, <5>2 DEF Inv, TypeOK
                <5>4. ASSUME NEW k \in 1..Len(r), r[j] = r[k]
                      PROVE  j = k
                    <6>1. PICK m \in (1..Len(q)) \ {i} :
                             r[j] = q[m] /\ m = IF j < i THEN j ELSE j + 1
                        BY <5>1
                    <6>2. PICK n \in (1..Len(q)) \ {i} :
                             r[k] = q[n] /\ n = IF k < i THEN k ELSE k + 1
                        BY <5>1
                    <6>3. m = n
                        BY <1>7, <5>4, <6>1, <6>2
                    <6>4. i \in Nat /\ j \in Nat /\ k \in Nat
                        BY <1>3, <5>1
                    <6>5. QED
                        BY <6>1, <6>2, <6>3, <6>4
                <5>5. QED
                    BY <5>3, <5>4
            <4>2. holders'[u].queue = r
                BY <1>5, <1>6, <3>1
            <4>3. QED
                BY <3>1, <4>1, <4>2 DEF QueueSound
        <3>2. CASE u # t
            <4>1. /\ Held(u) /\ holders'[u] = holders[u] /\ QueueSound(u)
                BY <1>6, <2>3, <3>2 DEF Held, Inv, NoLostWaiter
            <4>2. \A j \in 1..Len(holders[u].queue) :
                     /\ holders[u].queue[j] \in Attempts
                     /\ holders[u].queue[j] # a
                BY <3>2, <4>1, HeldEntry DEF QueueSound, Inv, t
            <4>3. QED
                BY <1>8, <4>1, <4>2 DEF QueueSound, Inv, TypeOK
        <3>3. QED
            BY <3>1, <3>2
    <2>4. QED
        BY <2>1, <2>2, <2>3 DEF NoLostWaiter
<1>12. WaiterHasPreempted'
    <2>1. q # <<>>
        BY <1>3
    <2>2. ASSUME NEW u \in Tokens, Held(u)', holders'[u].queue # <<>>
          PROVE  aborted'[holders'[u].controller]
        BY <1>1, <1>5, <1>6, <1>8, <2>1, <2>2 DEF Inv, WaiterHasPreempted, Held, q, c
    <2>3. QED
        BY <2>2 DEF WaiterHasPreempted
<1>13. QED
    BY <1>9, <1>10, <1>11, <1>12 DEF Inv

\* An attempt that is over may be begun anew.
LEMMA ForgetInv ==
    ASSUME Inv, NEW a \in Attempts, Forget(a)
    PROVE  Inv'
<1>1. \A b \in Attempts :
        /\ (pc'[b] = "waiting") <=> (pc[b] = "waiting")
        /\ (pc'[b] = "holding") <=> (pc[b] = "holding")
    BY DEF Inv, TypeOK, Forget
<1>2. TypeOK'
    BY DEF Inv, TypeOK, Forget, Stages
<1>3. \A u \in Tokens : Held(u) => QueueSound(u)'
    BY <1>1, HeldEntry DEF Inv, NoLostWaiter, QueueSound, Forget
<1>4. \A u \in Tokens : (Held(u)' <=> Held(u)) /\ Queued(u)' = Queued(u)
    BY DEF Held, Queued, Forget
<1>5. PreemptLandsOnHolder'
    BY <1>1, <1>4, HeldEntry DEF Inv, PreemptLandsOnHolder, Forget, TypeOK
<1>6. NoLostWaiter'
    BY <1>1, <1>3, <1>4 DEF Inv, NoLostWaiter, Forget, TypeOK
<1>7. WaiterHasPreempted'
    BY <1>4 DEF Inv, WaiterHasPreempted, Forget
<1>8. QED
    BY <1>2, <1>5, <1>6, <1>7 DEF Inv

\* A step that changes nothing.
LEMMA StutterInv == ASSUME Inv, UNCHANGED vars PROVE Inv'
BY DEF vars, Inv, TypeOK, Held, PreemptLandsOnHolder, NoLostWaiter, QueueSound,
       Queued, WaiterHasPreempted

\* Inv, and with it the type invariant and the map/queue/timer agreement, holds
\* of every interleaving of acquires, releases and deadlines.
THEOREM Invariance == Spec => []Inv
<1>1. Inv /\ [Next]_vars => Inv'
    BY AcquireFreeInv, AcquireQueuedInv, ReleaseLastInv, ReleaseHandOverInv,
       TimeoutInv, ForgetInv, StutterInv DEF Next
<1>2. QED
    BY InitInv, <1>1, PTL DEF Spec

\* At most one lock object is live per upload.
THEOREM Exclusion == Spec => []MutualExclusion
<1>1. Inv => MutualExclusion
    BY DEF Inv, PreemptLandsOnHolder, MutualExclusion
<1>2. QED
    BY Invariance, <1>1, PTL

-------------------------------------------------------------------------------
(* The order of hand-overs. *)

\* Only an acquire of a free token and a hand-over start a tenure, and the
\* one hand-over grants is the head of the queue.
LEMMA Grants ==
    ASSUME Inv, [Next]_vars, NEW a \in Attempts, pc[a] # "holding", pc'[a] = "holding"
    PROVE  \/ \E t \in Tokens : AcquireFree(a, t)
           \/ \E r \in Attempts : ReleaseHandOver(r) /\ a = Head(holders[on[r]].queue)
<1>1. CASE \E b \in Attempts, t \in Tokens : AcquireFree(b, t)
    BY <1>1 DEF Inv, TypeOK, AcquireFree
<1>2. CASE \E b \in Attempts, t \in Tokens : AcquireQueued(b, t)
    BY <1>2 DEF Inv, TypeOK, AcquireQueued
<1>3. CASE \E b \in Attempts : ReleaseLast(b)
    BY <1>3 DEF Inv, TypeOK, ReleaseLast
<1>4. CASE \E b \in Attempts : ReleaseHandOver(b)
    BY <1>4 DEF Inv, TypeOK, ReleaseHandOver
<1>5. CASE \E b \in Attempts : Timeout(b)
    BY <1>5 DEF Inv, TypeOK, Timeout
<1>6. CASE \E b \in Attempts : Forget(b)
    BY <1>6 DEF Inv, TypeOK, Forget
<1>7. CASE UNCHANGED vars
    BY <1>7 DEF vars
<1>8. QED
    BY <1>1, <1>2, <1>3, <1>4, <1>5, <1>6, <1>7 DEF Next

\* What precedes position i of a queue.
Earlier(q, i) == {b \in Attempts : \E j \in 1..(i - 1) : q[j] = b}

\* OrderKept, in terms of what precedes a position.
LEMMA OrderKeptDef ==
    OrderKept <=> \A t \in Tokens : Held(t) =>
                    \A i \in 1..Len(holders[t].queue) :
                       elders[holders[t].queue[i]] = Earlier(holders[t].queue, i)
BY DEF OrderKept, Earlier

\* The order of a queue no step of whose members changed is kept.
LEMMA OrderFrame ==
    ASSUME OrderKept, NEW t \in Tokens, Held(t), holders'[t].queue = holders[t].queue,
           \A i \in 1..Len(holders[t].queue) :
              elders'[holders[t].queue[i]] = elders[holders[t].queue[i]]
    PROVE  \A i \in 1..Len(holders'[t].queue) :
              elders'[holders'[t].queue[i]] = Earlier(holders'[t].queue, i)
BY OrderKeptDef

\* A new lock has an empty queue.
LEMMA AcquireFreeOrder ==
    ASSUME Inv, OrderKept, NEW a \in Attempts, NEW t \in Tokens, AcquireFree(a, t)
    PROVE  OrderKept'
<1>1. ASSUME NEW u \in Tokens, Held(u)', NEW i \in 1..Len(holders'[u].queue)
      PROVE  elders'[holders'[u].queue[i]] = Earlier(holders'[u].queue, i)
    <2>1. CASE u = t
        BY <1>1, <2>1 DEF Inv, TypeOK, AcquireFree
    <2>2. CASE u # t
        <3>1. holders'[u] = holders[u] /\ elders' = elders /\ Held(u)
            BY <1>1, <2>2 DEF Inv, TypeOK, AcquireFree, Held
        <3>2. QED
            BY <1>1, <3>1, OrderKeptDef
    <2>3. QED
        BY <2>1, <2>2
<1>2. QED
    BY <1>1 DEF OrderKept, Earlier

\* A newcomer's elders are those it finds in the queue.
LEMMA AcquireQueuedOrder ==
    ASSUME Inv, OrderKept, NEW a \in Attempts, NEW t \in Tokens, AcquireQueued(a, t)
    PROVE  OrderKept'
<1> DEFINE q == holders[t].queue
<1>1. /\ holders[t] \in Holder /\ q \in Seq(Attempts) /\ Len(q) \in Nat /\ Held(t)
      /\ \A i \in 1..Len(q) : q[i] \in Attempts
    BY HeldEntry DEF AcquireQueued, Inv
<1>2. /\ holders'[t].queue = Append(q, a)
      /\ \A u \in Tokens \ {t} : holders'[u] = holders[u]
    BY <1>1 DEF Inv, TypeOK, AcquireQueued, Holder
<1>3. elders' = [elders EXCEPT ![a] = Queued(t)]
    BY DEF AcquireQueued
<1>4. \A u \in Tokens : Held(u) => \A i \in 1..Len(holders[u].queue) :
         holders[u].queue[i] \in Attempts /\ holders[u].queue[i] # a
    BY HeldEntry DEF Inv, NoLostWaiter, QueueSound, AcquireQueued
<1>5. Queued(t) = Earlier(Append(q, a), Len(q) + 1)
    BY <1>1, AppendQueue DEF Queued, Earlier
<1> HIDE DEF q
<1>6. ASSUME NEW i \in 1..(Len(q) + 1)
      PROVE  elders'[Append(q, a)[i]] = Earlier(Append(q, a), i)
    <2>1. CASE i = Len(q) + 1
        BY <1>1, <1>3, <1>5, <2>1, AppendQueue DEF Inv, TypeOK
    <2>2. CASE i \in 1..Len(q)
        <3>1. Append(q, a)[i] = q[i] /\ q[i] \in Attempts /\ q[i] # a
            BY <1>1, <1>4, <2>2, AppendQueue DEF q
        <3>2. elders'[q[i]] = elders[q[i]]
            BY <1>3, <3>1 DEF Inv, TypeOK
        <3>3. elders[q[i]] = Earlier(q, i)
            BY <1>1, <2>2, OrderKeptDef DEF q
        <3>4. Earlier(Append(q, a), i) = Earlier(q, i)
            <4>1. \A j \in 1..(i - 1) : Append(q, a)[j] = q[j]
                BY <1>1, <2>2, AppendQueue
            <4>2. QED
                BY <4>1 DEF Earlier
        <3>5. QED
            BY <3>1, <3>2, <3>3, <3>4
    <2>3. QED
        BY <1>1, <2>1, <2>2
<1>7. ASSUME NEW u \in Tokens, Held(u)', NEW i \in 1..Len(holders'[u].queue)
      PROVE  elders'[holders'[u].queue[i]] = Earlier(holders'[u].queue, i)
    <2>1. CASE u = t
        <3>1. holders'[u].queue = Append(q, a) /\ Len(Append(q, a)) = Len(q) + 1
            BY <1>1, <1>2, <2>1, AppendQueue
        <3>2. QED
            BY <1>6, <1>7, <3>1
    <2>2. CASE u # t
        <3>1. holders'[u] = holders[u] /\ Held(u)
            BY <1>2, <1>7, <2>2 DEF Held
        <3>2. \A j \in 1..Len(holders[u].queue) :
                 elders'[holders[u].queue[j]] = elders[holders[u].queue[j]]
            BY <1>3, <1>4, <3>1 DEF Inv, TypeOK
        <3>3. QED
            BY <1>7, <3>1, <3>2, OrderFrame
    <2>3. QED
        BY <2>1, <2>2
<1>8. QED
    BY <1>7 DEF OrderKept, Earlier

\* A forgotten lock had an empty queue.
LEMMA ReleaseLastOrder ==
    ASSUME Inv, OrderKept, NEW a \in Attempts, ReleaseLast(a)
    PROVE  OrderKept'
<1>1. ASSUME NEW u \in Tokens, Held(u)'
      PROVE  holders'[u] = holders[u] /\ elders' = elders /\ Held(u)
    BY <1>1 DEF Inv, TypeOK, ReleaseLast, Held
<1>2. QED
    BY <1>1, SMTT(60) DEF OrderKept

\* Whoever leaves from the front is dropped from the elders of the rest.
LEMMA ReleaseHandOverOrder ==
    ASSUME Inv, OrderKept, NEW a \in Attempts, ReleaseHandOver(a)
    PROVE  OrderKept'
<1>0. PICK t \in Tokens : t = on[a]
    BY DEF Inv, TypeOK
<1> DEFINE q == holders[t].queue
           next == Head(q)
<1>1. /\ Held(t) /\ q \in Seq(Attempts) /\ q # <<>>
      /\ \A i, j \in 1..Len(q) : q[i] = q[j] => i = j
      /\ \A i \in 1..Len(q) : on[q[i]] = t
    BY <1>0, HeldEntry, ZenonT(60) DEF ReleaseHandOver, Inv, NoLostWaiter, QueueSound
<1>2. /\ next \in Attempts /\ next = q[1] /\ Len(q) \in Nat /\ Len(q) >= 1
      /\ Tail(q) \in Seq(Attempts) /\ Len(Tail(q)) = Len(q) - 1
      /\ \A i \in 1..Len(Tail(q)) : Tail(q)[i] = q[i + 1]
    BY <1>1, ShiftQueue
<1>3. /\ holders'[t].queue = Tail(q)
      /\ \A u \in Tokens \ {t} : holders'[u] = holders[u]
    BY <1>0, <1>1 DEF Inv, TypeOK, ReleaseHandOver
<1>4. \A b \in Attempts : elders'[b] = elders[b] \ {next}
    BY <1>0 DEF ReleaseHandOver, NoLonger
<1>5. \A i \in 1..Len(q) : q[i] \in Attempts /\ elders[q[i]] = Earlier(q, i)
    BY <1>1, OrderKeptDef
<1>6. on[next] = t
    BY <1>1, <1>2
<1> HIDE DEF next, q
<1>7. ASSUME NEW i \in 1..Len(Tail(q))
      PROVE  elders'[Tail(q)[i]] = Earlier(Tail(q), i)
    <2>1. i + 1 \in 1..Len(q) /\ Tail(q)[i] = q[i + 1] /\ i \in Nat
        BY <1>2
    <2>2. elders'[Tail(q)[i]] = Earlier(q, i + 1) \ {next}
        BY <1>4, <1>5, <2>1
    <2>3. ASSUME NEW b, b \in Earlier(q, i + 1) \ {next}
          PROVE  b \in Earlier(Tail(q), i)
        <3>1. PICK j \in 1..i : q[j] = b /\ j # 1 /\ b \in Attempts
            BY <1>2, <2>1, <2>3 DEF Earlier
        <3>2. j - 1 \in 1..(i - 1) /\ Tail(q)[j - 1] = b
            BY <1>2, <2>1, <3>1
        <3>3. QED
            BY <3>1, <3>2 DEF Earlier
    <2>4. ASSUME NEW b, b \in Earlier(Tail(q), i)
          PROVE  b \in Earlier(q, i + 1) \ {next}
        <3>1. PICK j \in 1..(i - 1) : Tail(q)[j] = b /\ b \in Attempts
            BY <2>4 DEF Earlier
        <3>2. j + 1 \in 1..i /\ q[j + 1] = b /\ j + 1 \in 1..Len(q) /\ j + 1 # 1
              /\ 1 \in 1..Len(q)
            BY <1>2, <2>1, <3>1
        <3>3. b # next
            BY <1>1, <1>2, <3>2
        <3>4. QED
            BY <2>1, <3>1, <3>2, <3>3 DEF Earlier
    <2>5. QED
        BY <2>2, <2>3, <2>4
<1>8. ASSUME NEW u \in Tokens, Held(u)', NEW i \in 1..Len(holders'[u].queue)
      PROVE  elders'[holders'[u].queue[i]] = Earlier(holders'[u].queue, i)
    <2>1. CASE u = t
        BY <1>3, <1>7, <1>8, <2>1
    <2>2. CASE u # t
        <3>1. holders'[u] = holders[u] /\ Held(u)
            BY <1>3, <1>8, <2>2 DEF Held
        <3>2. ASSUME NEW j \in 1..Len(holders[u].queue)
              PROVE  elders'[holders[u].queue[j]] = elders[holders[u].queue[j]]
            <4>1. holders[u].queue[j] \in Attempts
                BY <3>1, HeldEntry DEF Inv
            <4>2. \A k \in 1..Len(holders[u].queue) : on[holders[u].queue[k]] = u
                BY <3>1 DEF Inv, NoLostWaiter, QueueSound
            <4>3. elders[holders[u].queue[j]] = Earlier(holders[u].queue, j)
                BY <3>1, OrderKeptDef
            <4>4. next \notin Earlier(holders[u].queue, j)
                <5>1. Len(holders[u].queue) \in Nat
                    BY <3>1, HeldEntry DEF Inv
                <5>2. \A k \in 1..(j - 1) : k \in 1..Len(holders[u].queue)
                    BY <3>2, <5>1
                <5>3. QED
                    BY <1>6, <2>2, <4>2, <5>2 DEF Earlier
            <4>5. elders'[holders[u].queue[j]] = elders[holders[u].queue[j]] \ {next}
                BY <1>4, <4>1
            <4>6. elders[holders[u].queue[j]] \ {next} = elders[holders[u].queue[j]]
                BY <4>3, <4>4
            <4>7. QED
                BY <4>5, <4>6
        <3>3. QED
            BY <1>8, <3>1, <3>2, OrderFrame
    <2>3. QED
        BY <2>1, <2>2
<1>9. QED
    BY <1>8 DEF OrderKept, Earlier

\* Whoever leaves from within is dropped from the elders of those behind it.
LEMMA TimeoutOrder ==
    ASSUME Inv, OrderKept, NEW a \in Attempts, Timeout(a)
    PROVE  OrderKept'
<1>0. PICK t \in Tokens : t = on[a]
    BY DEF Inv, TypeOK
<1> DEFINE q == holders[t].queue
<1>1. /\ Held(t)
      /\ \A j, k \in 1..Len(q) : q[j] = q[k] => j = k
    BY <1>0 DEF Timeout, Inv, TypeOK, NoLostWaiter, Queued, QueueSound
<1>2. PICK i \in 1..Len(q) :
        q[i] = a /\ holders' = [holders EXCEPT ![t].queue = Splice(q, i)]
    BY <1>0 DEF Timeout
<1> DEFINE r == Splice(q, i)
           P(j) == IF j < i THEN j ELSE j + 1
<1>3. /\ holders[t] \in Holder /\ q \in Seq(Attempts) /\ Len(q) \in Nat
      /\ i \in 1..Len(q) /\ \A j \in 1..Len(q) : q[j] \in Attempts
    BY <1>1, HeldEntry DEF Inv
<1>4. r \in Seq(Attempts) /\ Len(r) = Len(q) - 1 /\ \A j \in 1..Len(r) : r[j] = q[P(j)]
    BY <1>3, SpliceQueue
<1>5. /\ holders'[t].queue = r
      /\ \A u \in Tokens \ {t} : holders'[u] = holders[u]
    BY <1>2, <1>3 DEF Inv, TypeOK, Holder
<1>6. \A b \in Attempts : elders'[b] = elders[b] \ {a}
    BY DEF Timeout, NoLonger
<1>7. \A j \in 1..Len(q) : elders[q[j]] = Earlier(q, j)
    BY <1>1, OrderKeptDef
<1>8. q[i] = a
    BY <1>2
<1> HIDE DEF q, r
<1>9. ASSUME NEW j \in 1..Len(r)
      PROVE  elders'[r[j]] = Earlier(r, j)
    <2>1. P(j) \in 1..Len(q) /\ r[j] = q[P(j)] /\ j \in Nat
        BY <1>3, <1>4, SMTT(60)
    <2>2. elders'[r[j]] = Earlier(q, P(j)) \ {a}
        BY <1>3, <1>6, <1>7, <2>1
    <2>3. ASSUME NEW b, b \in Earlier(q, P(j)) \ {a}
          PROVE  b \in Earlier(r, j)
        <3>1. PICK k \in 1..(P(j) - 1) : q[k] = b /\ k # i /\ b \in Attempts
            BY <1>8, <2>3 DEF Earlier
        <3>2. \E m \in 1..(j - 1) : P(m) = k
            <4>1. CASE k < i
                BY <1>3, <2>1, <3>1, <4>1
            <4>2. CASE k > i
                <5>1. k - 1 \in 1..(j - 1) /\ P(k - 1) = k
                    BY <1>3, <2>1, <3>1, <4>2
                <5>2. QED
                    BY <5>1
            <4>3. QED
                BY <1>3, <2>1, <3>1, <4>1, <4>2
        <3>3. \A m \in 1..(j - 1) : m \in 1..Len(r)
            BY <1>3, <1>4
        <3>4. QED
            BY <1>4, <3>1, <3>2, <3>3 DEF Earlier
    <2>4. ASSUME NEW b, b \in Earlier(r, j)
          PROVE  b \in Earlier(q, P(j)) \ {a}
        <3>1. PICK m \in 1..(j - 1) : r[m] = b /\ b \in Attempts
            BY <2>4 DEF Earlier
        <3>2. /\ m \in 1..Len(r) /\ P(m) \in 1..(P(j) - 1) /\ P(m) \in 1..Len(q)
              /\ P(m) # i
            BY <1>3, <1>4, <2>1, <3>1
        <3>3. q[P(m)] = b
            BY <1>4, <3>1, <3>2
        <3>4. b # a
            BY <1>1, <1>3, <1>8, <3>2, <3>3 DEF q
        <3>5. QED
            BY <3>1, <3>2, <3>3, <3>4 DEF Earlier
    <2>5. QED
        BY <2>2, <2>3, <2>4
<1>10. ASSUME NEW u \in Tokens, Held(u)', NEW j \in 1..Len(holders'[u].queue)
      PROVE  elders'[holders'[u].queue[j]] = Earlier(holders'[u].queue, j)
    <2>1. CASE u = t
        BY <1>5, <1>9, <1>10, <2>1
    <2>2. CASE u # t
        <3>1. holders'[u] = holders[u] /\ Held(u)
            BY <1>5, <1>10, <2>2 DEF Held
        <3>2. ASSUME NEW k \in 1..Len(holders[u].queue)
              PROVE  elders'[holders[u].queue[k]] = elders[holders[u].queue[k]]
            <4>1. holders[u].queue[k] \in Attempts /\ Len(holders[u].queue) \in Nat
                BY <3>1, HeldEntry DEF Inv
            <4>2. \A m \in 1..Len(holders[u].queue) : on[holders[u].queue[m]] = u
                BY <3>1 DEF Inv, NoLostWaiter, QueueSound
            <4>3. elders[holders[u].queue[k]] = Earlier(holders[u].queue, k)
                BY <3>1, OrderKeptDef
            <4>4. \A m \in 1..(k - 1) : m \in 1..Len(holders[u].queue)
                BY <3>2, <4>1
            <4>5. a \notin Earlier(holders[u].queue, k)
                BY <1>0, <2>2, <4>2, <4>4 DEF Earlier
            <4>6. elders[holders[u].queue[k]] \ {a} = elders[holders[u].queue[k]]
                BY <4>3, <4>5
            <4>7. QED
                BY <1>6, <4>1, <4>6
        <3>3. QED
            BY <1>10, <3>1, <3>2, OrderFrame
    <2>3. QED
        BY <2>1, <2>2
<1>11. QED
    BY <1>10 DEF OrderKept, Earlier

\* Queues keep the order of arrival.
THEOREM Order == Spec => []OrderKept
<1>1. Init => OrderKept
    BY DEF Init, OrderKept, Held
<1>2. Inv /\ OrderKept /\ [Next]_vars => OrderKept'
    <2>1. ASSUME OrderKept, NEW a \in Attempts, Forget(a)
          PROVE  OrderKept'
        BY <2>1 DEF Forget, OrderKept, Held
    <2>2. ASSUME OrderKept, UNCHANGED vars
          PROVE  OrderKept'
        BY <2>2 DEF vars, OrderKept, Held
    <2>3. QED
        BY <2>1, <2>2, AcquireFreeOrder, AcquireQueuedOrder, ReleaseLastOrder,
           ReleaseHandOverOrder, TimeoutOrder DEF Next
<1>3. QED
    BY <1>1, <1>2, Invariance, PTL DEF Spec

\* First come, first served, for any number of callers.
THEOREM Fifo == Spec => NoOvertaking
<1> DEFINE InTurn(a) ==
              pc[a] # "holding" /\ pc'[a] = "holding" =>
                 IF pc[a] = "waiting" THEN elders[a] = {}
                 ELSE \A b \in Attempts : ~(pc[b] = "waiting" /\ on[b] = on'[a])
<1>1. ASSUME Inv, OrderKept, [Next]_vars, NEW a \in Attempts,
             pc[a] # "holding", pc'[a] = "holding"
      PROVE  InTurn(a)
    <2>1. ASSUME NEW t \in Tokens, AcquireFree(a, t)
          PROVE  InTurn(a)
        <3>1. pc[a] # "waiting" /\ on'[a] = t /\ ~Held(t)
            BY <1>1, <2>1 DEF Inv, TypeOK, AcquireFree
        <3>2. \A b \in Attempts : pc[b] = "waiting" => Held(on[b])
            BY <1>1 DEF Inv, NoLostWaiter, Queued
        <3>3. QED
            BY <3>1, <3>2
    <2>2. ASSUME NEW r \in Attempts, ReleaseHandOver(r), a = Head(holders[on[r]].queue)
          PROVE  InTurn(a)
        <3>1. on[r] \in Tokens /\ Held(on[r]) /\ holders[on[r]].queue # <<>>
            BY <1>1, <2>2 DEF ReleaseHandOver, Inv, TypeOK
        <3>2. 1 \in 1..Len(holders[on[r]].queue) /\ holders[on[r]].queue[1] = a
            BY <1>1, <2>2, <3>1, HeldEntry, ShiftQueue DEF Inv
        <3>3. elders[a] = Earlier(holders[on[r]].queue, 1)
            BY <1>1, <3>1, <3>2, OrderKeptDef
        <3>4. Earlier(holders[on[r]].queue, 1) = {}
            BY DEF Earlier
        <3>5. pc[a] = "waiting"
            BY <1>1, <3>1, <3>2 DEF Inv, NoLostWaiter, QueueSound
        <3>6. QED
            BY <3>3, <3>4, <3>5
    <2>3. QED
        BY <1>1, <2>1, <2>2, Grants
<1>2. Inv /\ OrderKept /\ [Next]_vars => [\A a \in Attempts : InTurn(a)]_vars
    BY <1>1
<1>3. QED
    BY <1>2, Invariance, Order, PTL DEF Spec, NoOvertaking

\* A tenure starts preempted exactly when someone already waits behind it.
THEOREM Fresh == Spec => FreshTenure
<1>1. ASSUME Inv, [Next]_vars, NEW a \in Attempts, pc[a] # "holding", pc'[a] = "holding"
      PROVE  aborted'[a] <=> Queued(on[a])' # {}
    <2>1. ASSUME NEW t \in Tokens, AcquireFree(a, t)
          PROVE  ~aborted'[a] /\ Queued(on[a])' = {}
        <3>1. holders'[on'[a]].queue = <<>> /\ ~aborted'[a]
            BY <1>1, <2>1 DEF Inv, TypeOK, AcquireFree
        <3>2. QED
            BY <3>1 DEF Queued, Held
    <2>2. ASSUME NEW r \in Attempts, ReleaseHandOver(r), a = Head(holders[on[r]].queue)
          PROVE  aborted'[a] <=> Queued(on[a])' # {}
        <3> DEFINE q == holders[on[r]].queue
        <3>1. on[r] \in Tokens /\ Held(on[r]) /\ q \in Seq(Attempts) /\ q # <<>>
            BY <1>1, <2>2, HeldEntry DEF ReleaseHandOver, Inv, TypeOK
        <3>2. /\ Len(q) \in Nat /\ 1 \in 1..Len(q) /\ q[1] = a
              /\ Tail(q) \in Seq(Attempts) /\ Len(Tail(q)) \in Nat
            BY <2>2, <3>1, ShiftQueue
        <3>3. on'[a] = on[r]
            <4>1. QueueSound(on[r])
                BY <1>1, <3>1 DEF Inv, NoLostWaiter
            <4>2. on' = on
                BY <2>2 DEF ReleaseHandOver
            <4>3. QED
                BY <3>2, <4>1, <4>2 DEF QueueSound
        <3>4. /\ holders'[on[r]] = [controller |-> a, queue |-> Tail(q)]
              /\ aborted'[a] <=> Tail(q) # <<>>
            BY <1>1, <2>2, <3>1 DEF Inv, TypeOK, ReleaseHandOver
        <3> HIDE DEF q
        <3>5. Held(on[a])' /\ holders'[on'[a]].queue = Tail(q)
            <4> DEFINE h == [controller |-> a, queue |-> Tail(q)]
            <4>1. holders'[on'[a]] = h
                BY <3>3, <3>4
            <4>2. h # NoHolder /\ h.queue = Tail(q)
                BY <3>2, HolderEntry
            <4>3. QED
                BY <4>1, <4>2 DEF Held
        <3>6. Queued(on[a])' # {} <=> Tail(q) # <<>>
            <4>1. \A b \in Attempts :
                     b \in Queued(on[a])' <=> \E i \in 1..Len(Tail(q)) : Tail(q)[i] = b
                BY <3>5 DEF Queued
            <4>2. CASE Tail(q) = <<>>
                <5>1. 1..Len(Tail(q)) = {}
                    BY <4>2
                <5>2. \A b \in Queued(on[a])' : b \in Attempts
                    BY DEF Queued
                <5>3. QED
                    BY <4>1, <4>2, <5>1, <5>2
            <4>3. CASE Tail(q) # <<>>
                <5>1. 1 \in 1..Len(Tail(q)) /\ Tail(q)[1] \in Attempts
                    BY <3>2, <4>3
                <5>2. QED
                    BY <4>1, <4>3, <5>1
            <4>4. QED
                BY <4>2, <4>3
        <3>7. QED
            BY <3>4, <3>6
    <2>3. QED
        BY <1>1, <2>1, <2>2, Grants
<1>2. Inv /\ [Next]_vars =>
        [\A a \in Attempts : pc[a] # "holding" /\ pc'[a] = "holding"
            => (aborted[a] <=> Queued(on[a]) # {})']_vars
    BY <1>1
<1>3. QED
    BY <1>2, Invariance, PTL DEF Spec, FreshTenure

-------------------------------------------------------------------------------
(* The locker implements UploadLock. *)

\* The owner and the waiters of UploadLock are the holder and the queue.
LEMMA OwnerAndWaiting ==
    ASSUME Inv, NEW t \in Tokens
    PROVE  /\ lockOwner[t] = IF Held(t) THEN holders[t].controller ELSE NoHolder
           /\ lockWaiting[t] = Queued(t)
           /\ \A b \in lockWaiting[t] : b \in Attempts /\ pc[b] = "waiting" /\ on[b] = t
           /\ \A b \in Attempts : lockOwner[t] = b => pc[b] = "holding" /\ on[b] = t
<1>1. \A b \in Queued(t) : b \in Attempts /\ pc[b] = "waiting" /\ on[b] = t
    BY HeldEntry DEF Inv, NoLostWaiter, QueueSound, Queued
<1>2. \A b \in Attempts :
        Held(t) /\ holders[t].controller = b => pc[b] = "holding" /\ on[b] = t
    BY DEF Inv, PreemptLandsOnHolder
<1>3. QED
    BY <1>1, <1>2, NoHolderAssumption DEF lockOwner, lockWaiting

\* An entry that stays keeps its queue.
LEMMA QueuedFrame ==
    ASSUME NEW u \in Tokens, holders'[u] = holders[u]
    PROVE  Queued(u)' = Queued(u)
BY DEF Queued, Held

\* A step on one entry changes the waiters of that upload only,
LEMMA WaitingUpdate ==
    ASSUME NEW t \in Tokens, \A u \in Tokens \ {t} : holders'[u] = holders[u]
    PROVE  lockWaiting' = [lockWaiting EXCEPT ![t] = Queued(t)']
BY QueuedFrame DEF lockWaiting

\* and its owner only.
LEMMA OwnerUpdate ==
    ASSUME NEW t \in Tokens, \A u \in Tokens \ {t} : holders'[u] = holders[u]
    PROVE  lockOwner' = [lockOwner EXCEPT ![t] =
                            IF holders'[t] # NoHolder THEN holders'[t].controller ELSE NoHolder]
BY DEF lockOwner, Held

\* A free acquire takes the lock.
LEMMA TakeStep ==
    ASSUME Inv, NEW a \in Attempts, NEW t \in Tokens, AcquireFree(a, t)
    PROVE  Lock!Take(a, t)
<1> DEFINE h == [controller |-> a, queue |-> <<>>]
<1>1. h # NoHolder /\ h.controller = a /\ h.queue = <<>>
    <2>1. <<>> \in Seq(Attempts)
        OBVIOUS
    <2>2. QED
        BY <2>1, HolderEntry
<1>2. /\ holders[t] = NoHolder /\ holders'[t] = h
      /\ \A u \in Tokens \ {t} : holders'[u] = holders[u]
    BY DEF Inv, TypeOK, AcquireFree, Held
<1> HIDE DEF h
<1>3. lockOwner[t] = NoHolder
    BY <1>2, OwnerAndWaiting DEF Held
<1>4. \A u \in Tokens : lockOwner[u] # a /\ a \notin lockWaiting[u]
    BY OwnerAndWaiting DEF AcquireFree
<1>5. lockOwner' = [lockOwner EXCEPT ![t] = a]
    BY <1>1, <1>2, OwnerUpdate
<1>6. lockWaiting' = lockWaiting
    <2>1. Queued(t) = {}
        BY <1>2 DEF Queued, Held
    <2>2. Queued(t)' = {}
        <3>1. {h.queue[i] : i \in 1..Len(h.queue)} = {}
            BY <1>1
        <3>2. QED
            BY <1>1, <1>2, <3>1 DEF Queued, Held
    <2>3. QED
        BY <1>2, <2>1, <2>2, WaitingUpdate DEF lockWaiting
<1>7. QED
    BY <1>3, <1>4, <1>5, <1>6 DEF Lock!Take

\* A queued one waits for it.
LEMMA WaitStep ==
    ASSUME Inv, NEW a \in Attempts, NEW t \in Tokens, AcquireQueued(a, t)
    PROVE  Lock!Wait(a, t)
<1> DEFINE q == holders[t].queue
<1>1. /\ holders[t] \in Holder /\ q \in Seq(Attempts) /\ Len(q) \in Nat /\ Held(t)
    BY HeldEntry DEF AcquireQueued, Inv
<1>2. /\ holders'[t].controller = holders[t].controller
      /\ holders'[t].queue = Append(q, a) /\ holders'[t] # NoHolder
      /\ \A u \in Tokens \ {t} : holders'[u] = holders[u]
    <2>1. /\ holders'[t] = [holders[t] EXCEPT !.queue = Append(q, a)]
          /\ \A u \in Tokens \ {t} : holders'[u] = holders[u]
        BY DEF Inv, TypeOK, AcquireQueued
    <2>2. holders'[t] = [controller |-> holders[t].controller, queue |-> Append(q, a)]
        BY <1>1, <2>1, Requeued
    <2>3. Append(q, a) \in Seq(Attempts) /\ holders[t].controller \in Attempts
        BY <1>1 DEF Holder
    <2> DEFINE h == [controller |-> holders[t].controller, queue |-> Append(q, a)]
    <2>4. h # NoHolder /\ h.controller = holders[t].controller /\ h.queue = Append(q, a)
        BY <2>3, HolderEntry
    <2>5. holders'[t] = h
        BY <2>2
    <2> HIDE DEF h
    <2>6. QED
        BY <2>1, <2>4, <2>5
<1> HIDE DEF q
<1>3. lockOwner[t] # NoHolder
    <2>1. holders[t].controller \in Attempts
        BY <1>1 DEF Holder
    <2>2. QED
        BY <1>1, <2>1, OwnerAndWaiting, NoHolderAssumption
<1>4. \A u \in Tokens : lockOwner[u] # a /\ a \notin lockWaiting[u]
    BY OwnerAndWaiting DEF AcquireQueued
<1>5. lockOwner' = lockOwner
    BY <1>1, <1>2, OwnerUpdate DEF lockOwner, Held
<1>6. Queued(t) = {q[i] : i \in 1..Len(q)}
    BY <1>1 DEF Queued, Held, q
<1>7. Queued(t)' = {Append(q, a)[i] : i \in 1..(Len(q) + 1)}
    BY <1>1, <1>2, AppendQueue DEF Queued, Held
<1>8. Queued(t)' = Queued(t) \cup {a}
    <2>1. \A i \in 1..(Len(q) + 1) :
             Append(q, a)[i] = IF i \in 1..Len(q) THEN q[i] ELSE a
        BY <1>1, AppendQueue
    <2>2. Len(q) + 1 \in 1..(Len(q) + 1) /\ Len(q) + 1 \notin 1..Len(q)
          /\ \A i \in 1..Len(q) : i \in 1..(Len(q) + 1)
        BY <1>1
    <2>3. QED
        BY <1>6, <1>7, <2>1, <2>2
<1>9. lockWaiting' = [lockWaiting EXCEPT ![t] = lockWaiting[t] \cup {a}]
    BY <1>2, <1>8, WaitingUpdate, OwnerAndWaiting
<1>10. QED
    BY <1>3, <1>4, <1>5, <1>9 DEF Lock!Wait

\* A release without waiters lets it go.
LEMMA LeaveLastStep ==
    ASSUME Inv, NEW a \in Attempts, ReleaseLast(a)
    PROVE  Lock!Leave(a, on[a])
<1>0. PICK t \in Tokens : t = on[a]
    BY DEF Inv, TypeOK
<1>1. /\ t \in Tokens /\ Held(t) /\ holders[t].queue = <<>>
      /\ holders[t].controller = a /\ holders'[t] = NoHolder
      /\ \A u \in Tokens \ {t} : holders'[u] = holders[u]
    BY <1>0 DEF Inv, TypeOK, ReleaseLast, PreemptLandsOnHolder
<1>2. Queued(t) = {}
    BY <1>1 DEF Queued, Held
<1>3. Queued(t)' = {}
    BY <1>1 DEF Queued, Held
<1>4. lockOwner[t] = a /\ lockWaiting[t] = {}
    BY <1>1, <1>2, OwnerAndWaiting
<1>5. lockOwner' = [lockOwner EXCEPT ![t] = NoHolder]
    BY <1>1, OwnerUpdate
<1>6. lockWaiting' = lockWaiting
    BY <1>1, <1>2, <1>3, WaitingUpdate DEF lockWaiting
<1>7. QED
    BY <1>0, <1>4, <1>5, <1>6 DEF Lock!Leave

\* A release with waiters gives it to one of them.
LEMMA LeaveHandOverStep ==
    ASSUME Inv, NEW a \in Attempts, ReleaseHandOver(a)
    PROVE  Lock!Leave(a, on[a])
<1>0. PICK t \in Tokens : t = on[a]
    BY DEF Inv, TypeOK
<1> DEFINE q == holders[t].queue
           h == [controller |-> Head(q), queue |-> Tail(q)]
<1>1. /\ t \in Tokens /\ Held(t) /\ q \in Seq(Attempts) /\ q # <<>>
      /\ holders[t].controller = a
      /\ \A i, j \in 1..Len(q) : q[i] = q[j] => i = j
    BY <1>0, HeldEntry
       DEF ReleaseHandOver, Inv, TypeOK, PreemptLandsOnHolder, NoLostWaiter, QueueSound
<1>2. /\ Head(q) \in Attempts /\ Head(q) = q[1] /\ Len(q) \in Nat /\ Len(q) >= 1
      /\ Tail(q) \in Seq(Attempts) /\ Len(Tail(q)) = Len(q) - 1
      /\ \A i \in 1..Len(Tail(q)) : Tail(q)[i] = q[i + 1]
    BY <1>1, ShiftQueue
<1>3. h # NoHolder /\ h.controller = Head(q) /\ h.queue = Tail(q)
    BY <1>2, HolderEntry
<1>4. holders'[t] = h /\ \A u \in Tokens \ {t} : holders'[u] = holders[u]
    BY <1>0, <1>1 DEF Inv, TypeOK, ReleaseHandOver
<1> HIDE DEF h, q
<1>5. \A b : b \in Queued(t) <=> b \in Attempts /\ \E i \in 1..Len(q) : q[i] = b
    BY <1>1 DEF Queued, q
<1>6. \A b : b \in Queued(t)' <=> b \in Attempts /\ \E i \in 1..Len(Tail(q)) : Tail(q)[i] = b
    BY <1>3, <1>4 DEF Queued, Held
<1>7. Head(q) \in Queued(t)
    BY <1>2, <1>5
<1>8. Queued(t)' = Queued(t) \ {Head(q)}
    <2>1. ASSUME NEW b, b \in Queued(t)'
          PROVE  b \in Queued(t) \ {Head(q)}
        <3>1. PICK i \in 1..Len(Tail(q)) : Tail(q)[i] = b /\ b \in Attempts
            BY <1>6, <2>1
        <3>2. i + 1 \in 1..Len(q) /\ q[i + 1] = b /\ i + 1 # 1 /\ 1 \in 1..Len(q)
            BY <1>2, <3>1
        <3>3. QED
            BY <1>1, <1>2, <1>5, <3>1, <3>2
    <2>2. ASSUME NEW b, b \in Queued(t) \ {Head(q)}
          PROVE  b \in Queued(t)'
        <3>1. PICK i \in 1..Len(q) : q[i] = b /\ i # 1
            BY <1>2, <1>5, <2>2
        <3>2. b \in Attempts /\ i - 1 \in 1..Len(Tail(q)) /\ Tail(q)[i - 1] = b
            BY <1>2, <1>5, <2>2, <3>1
        <3>3. QED
            BY <1>6, <3>2
    <2>3. QED
        BY <2>1, <2>2
<1>9. lockOwner[t] = a /\ Head(q) \in lockWaiting[t]
    BY <1>1, <1>7, OwnerAndWaiting
<1>10. lockOwner' = [lockOwner EXCEPT ![t] = Head(q)]
    BY <1>1, <1>3, <1>4, OwnerUpdate
<1>11. lockWaiting' = [lockWaiting EXCEPT ![t] = lockWaiting[t] \ {Head(q)}]
    BY <1>1, <1>4, <1>8, WaitingUpdate, OwnerAndWaiting
<1>12. QED
    BY <1>0, <1>1, <1>9, <1>10, <1>11 DEF Lock!Leave

\* A deadline makes a waiter give up.
LEMMA GiveUpStep ==
    ASSUME Inv, NEW a \in Attempts, Timeout(a)
    PROVE  Lock!GiveUp(a, on[a])
<1>0. PICK t \in Tokens : t = on[a]
    BY DEF Inv, TypeOK
<1> DEFINE q == holders[t].queue
<1>1. /\ t \in Tokens /\ Held(t) /\ a \in Queued(t)
      /\ \A j, k \in 1..Len(q) : q[j] = q[k] => j = k
    BY <1>0 DEF Timeout, Inv, TypeOK, NoLostWaiter, Queued, QueueSound
<1>2. PICK i \in 1..Len(q) :
        q[i] = a /\ holders' = [holders EXCEPT ![t].queue = Splice(q, i)]
    BY <1>0 DEF Timeout
<1> DEFINE r == Splice(q, i)
<1>3. /\ holders[t] \in Holder /\ q \in Seq(Attempts) /\ Len(q) \in Nat
      /\ i \in 1..Len(q) /\ holders[t].controller \in Attempts
    BY <1>1, HeldEntry DEF Inv
<1>4. /\ r \in Seq(Attempts) /\ Len(r) = Len(q) - 1
      /\ \A j \in 1..Len(r) : r[j] = q[IF j < i THEN j ELSE j + 1]
    BY <1>3, SpliceQueue
<1>5. /\ holders'[t].controller = holders[t].controller
      /\ holders'[t].queue = r /\ holders'[t] # NoHolder
      /\ \A u \in Tokens \ {t} : holders'[u] = holders[u]
    <2>1. /\ holders'[t] = [holders[t] EXCEPT !.queue = r]
          /\ \A u \in Tokens \ {t} : holders'[u] = holders[u]
        BY <1>1, <1>2 DEF Inv, TypeOK
    <2>2. holders'[t] = [controller |-> holders[t].controller, queue |-> r]
        BY <1>3, <2>1, Requeued
    <2>3. QED
        BY <1>3, <1>4, <2>1, <2>2, HolderEntry
<1> HIDE DEF r, q
<1>6. /\ \A b : b \in Queued(t) <=> b \in Attempts /\ \E j \in 1..Len(q) : q[j] = b
      /\ \A b : b \in Queued(t)' <=> b \in Attempts /\ \E j \in 1..Len(r) : r[j] = b
    BY <1>1, <1>5 DEF Queued, Held, q
<1>7. Queued(t)' = Queued(t) \ {a}
    <2>1. ASSUME NEW b, b \in Queued(t)'
          PROVE  b \in Queued(t) \ {a}
        <3>1. PICK j \in 1..Len(r) : r[j] = b /\ b \in Attempts
            BY <1>6, <2>1
        <3>2. \E k \in 1..Len(q) : k # i /\ q[k] = b
            <4>1. (IF j < i THEN j ELSE j + 1) \in (1..Len(q)) \ {i}
                BY <1>3, <1>4
            <4>2. QED
                BY <1>4, <3>1, <4>1
        <3>3. QED
            BY <1>1, <1>2, <1>6, <3>1, <3>2 DEF q
    <2>2. ASSUME NEW b, b \in Queued(t) \ {a}
          PROVE  b \in Queued(t)'
        <3>1. PICK k \in 1..Len(q) : q[k] = b /\ k # i /\ b \in Attempts
            BY <1>2, <1>6, <2>2 DEF q
        <3>2. \E j \in 1..Len(r) : r[j] = b
            <4>1. CASE k < i
                <5>1. k \in 1..Len(r) /\ r[k] = q[k]
                    BY <1>3, <1>4, <4>1
                <5>2. QED
                    BY <3>1, <5>1
            <4>2. CASE k > i
                <5>1. k - 1 \in 1..Len(r) /\ r[k - 1] = q[k]
                    BY <1>3, <1>4, <4>2
                <5>2. QED
                    BY <3>1, <5>1
            <4>3. QED
                BY <1>3, <3>1, <4>1, <4>2
        <3>3. QED
            BY <1>6, <3>1, <3>2
    <2>3. QED
        BY <2>1, <2>2
<1>8. a \in lockWaiting[t]
    BY <1>1, OwnerAndWaiting
<1>9. lockOwner' = lockOwner
    BY <1>1, <1>5, OwnerUpdate DEF lockOwner, Held
<1>10. lockWaiting' = [lockWaiting EXCEPT ![t] = lockWaiting[t] \ {a}]
    BY <1>1, <1>5, <1>7, WaitingUpdate, OwnerAndWaiting
<1>11. QED
    BY <1>0, <1>8, <1>9, <1>10 DEF Lock!GiveUp

\* Every behaviour of the in-memory locker is a behaviour of UploadLock.
THEOREM Refinement == Spec => ImplementsUploadLock
<1>1. Init => Lock!Init
    BY DEF Init, Lock!Init, lockOwner, lockWaiting, Held, Queued
<1>2. ASSUME Inv, [Next]_vars
      PROVE  [Lock!Next]_(Lock!lockVars)
    <2>1. ASSUME NEW a \in Attempts, NEW t \in Tokens, AcquireFree(a, t) \/ AcquireQueued(a, t)
          PROVE  Lock!Next
        BY <1>2, <2>1, TakeStep, WaitStep DEF Lock!Next
    <2>2. ASSUME NEW a \in Attempts, ReleaseLast(a) \/ ReleaseHandOver(a)
          PROVE  Lock!Next
        <3>1. on[a] \in Tokens
            BY <1>2 DEF Inv, TypeOK
        <3>2. QED
            BY <1>2, <2>2, <3>1, LeaveLastStep, LeaveHandOverStep DEF Lock!Next
    <2>3. ASSUME NEW a \in Attempts, Timeout(a)
          PROVE  Lock!Next
        <3>1. on[a] \in Tokens
            BY <1>2 DEF Inv, TypeOK
        <3>2. QED
            BY <1>2, <2>3, <3>1, GiveUpStep DEF Lock!Next
    <2>4. ASSUME holders' = holders
          PROVE  UNCHANGED <<lockOwner, lockWaiting>>
        BY <2>4 DEF lockOwner, lockWaiting, Held, Queued
    <2>5. QED
        BY <1>2, <2>1, <2>2, <2>3, <2>4 DEF Next, Forget, vars, Lock!lockVars
<1>3. QED
    BY <1>1, <1>2, Invariance, PTL DEF Spec, ImplementsUploadLock, Lock!Spec
===============================================================================

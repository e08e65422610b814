------------------------------ MODULE UploadProofs ------------------------------
(***************************************************************************)
(* Theorems about the memory store under any callers (MemoryStoreUnlocked): *)
(* its invariants, what it never overwrites, and that it implements the    *)
(* contract of ResumableUpload, for any number of uploads, keys and calls, *)
(* any bounds and bodies of any size.                                      *)
(***************************************************************************)
EXTENDS MemoryStoreUnlocked, SequenceTheorems, TLAPS

\* What a record owes to its bytes and to its seal.
Whole(r) == ~r.isComplete => r.size = Len(r.bytes)
SealIsOpen(r) == r.seal # NoSeal => ~r.isComplete /\ ~r.isInvalidated
SealIsOld(u) == record[u].seal # NoSeal => record[u].seal.destination.edition <= sealedOver[u]
RecordsSound == \A u \in Uploads : Whole(record[u]) /\ SealIsOpen(record[u]) /\ SealIsOld(u)

\* A token not minted has nothing, in the Map or at a key.
Unborn == \A u \in Uploads \ minted : record[u] = EmptyRecord(Unset)

\* What a key names came there in its turn, and an upload's comes last in its life.
ObjectsSound ==
    \A k \in Keys :
        LET o == objects[k] IN
        /\ o.edition <= editions
        /\ o.writer \in Uploads => o.writer \in minted /\ record[o.writer].isComplete

\* What a call keeps at each of its awaits.
CallSound(c) ==
    /\ call[c].pc # "idle" => call[c].upload \in minted
    /\ call[c].pc # "settled" => call[c].answer.kind = "pending"
    /\ call[c].pc = "streaming" /\ call[c].max # Unset => call[c].flushed <= call[c].max
    /\ call[c].pc = "hashing" => call[c].seal # NoSeal

\* A call that has not begun has sealed nothing: no two seals are by one call.
Unsigned(c) ==
    call[c].pc = "idle" =>
        /\ \A u \in Uploads : record[u].seal.by # c
        /\ \A d \in Calls : call[d].seal.by # c
CallsSound == \A c \in Calls : CallSound(c) /\ Unsigned(c)

\* Where its bytes are once an append has been answered.
Stands(c) ==
    LET u == call[c].upload IN
    Landed(c) > 0 =>
        /\ u \in stored /\ ~record[u].isComplete => FoundIn(c, record[u].bytes)
        /\ Destination(u).writer = u => FoundIn(c, Destination(u).body)

IInv ==
    /\ Inv /\ AcknowledgedBytesStand
    /\ RecordsSound /\ Unborn /\ ObjectsSound /\ CallsSound

-------------------------------------------------------------------------------
(* Calls *)

\* An answer is one.
LEMMA AnswerType ==
    /\ \A kind \in Kinds, bytes \in Nat : Answered(kind, bytes) \in Answer
    /\ \A bytes \in Nat, interrupted \in BOOLEAN : Wrote(bytes, interrupted) \in Answer
    BY DEF Answered, Wrote, Answer, Kinds

\* So is a call that was given an upload, or none.
LEMMA CallOnType == \A u \in Uploads \cup {Unset} : CallOn(u) \in Call
<1>1. Answered("pending", 0) \in Answer
    BY AnswerType DEF Kinds
<1> QED BY <1>1 DEF CallOn, Call, Optional, Content

\* What a call keeps once it is settled.
LEMMA Settling ==
    ASSUME call \in [Calls -> Call], NEW c \in Calls, NEW u \in Uploads, NEW offset \in Nat,
           NEW answer \in Answer, call' = Settle(c, u, offset, answer)
    PROVE  /\ call' \in [Calls -> Call]
           /\ call'[c].pc = "settled" /\ call'[c].upload = u /\ call'[c].offset = offset
           /\ call'[c].answer = answer /\ call'[c].seal = NoSeal
           /\ \A d \in Calls \ {c} : call'[d] = call[d]
<1>1. CallOn(u) \in Call
    BY CallOnType
<1> QED BY <1>1 DEF Settle, CallOn, Call, Seal, NoSeal

\* What a call is answered has a type.
LEMMA RefusalType ==
    ASSUME TypeOK, NEW u \in Uploads
    PROVE  Refusal(u) \in Answer /\ CompleteRefusal(u) \in Answer
<1>1. record[u].size \in Nat
    BY DEF TypeOK, Record
<1> QED BY <1>1, AnswerType DEF Refusal, CompleteRefusal, Kinds

\* Bytes of one call are content.
LEMMA BytesOf ==
    ASSUME NEW c \in Calls, NEW n \in Nat
    PROVE  /\ [i \in 1..n |-> c] \in Content /\ Len([i \in 1..n |-> c]) = n
           /\ \A i \in 1..n : [j \in 1..n |-> c][i] = c
    BY DEF Content

\* Bytes added at the end leave those before them where they are.
LEMMA Added ==
    ASSUME NEW body \in Content, NEW c \in Calls, NEW n \in Nat
    PROVE  /\ body \o [i \in 1..n |-> c] \in Content
           /\ Len(body \o [i \in 1..n |-> c]) = Len(body) + n
           /\ \A i \in 1..Len(body) : (body \o [j \in 1..n |-> c])[i] = body[i]
           /\ \A i \in 1..n : (body \o [j \in 1..n |-> c])[Len(body) + i] = c
<1> DEFINE more == [j \in 1..n |-> c]
<1>1. more \in Seq(Calls) /\ Len(more) = n /\ \A i \in 1..n : more[i] = c
    BY BytesOf DEF Content
<1>2. body \in Seq(Calls) /\ Len(body) \in Nat
    BY DEF Content
<1> HIDE DEF more
<1>3. /\ body \o more \in Seq(Calls) /\ Len(body \o more) = Len(body) + n
      /\ \A i \in 1..(Len(body) + n) :
            (body \o more)[i] = IF i <= Len(body) THEN body[i] ELSE more[i - Len(body)]
    BY <1>1, <1>2, ConcatProperties
<1>4. ASSUME NEW i \in 1..n
      PROVE  (body \o more)[Len(body) + i] = c
  <2>1. Len(body) + i \in 1..(Len(body) + n) /\ ~(Len(body) + i <= Len(body))
        /\ Len(body) + i - Len(body) = i
    BY <1>2
  <2> QED BY <1>1, <1>3, <2>1
<1>5. ASSUME NEW i \in 1..Len(body)
      PROVE  (body \o more)[i] = body[i]
    BY <1>2, <1>3
<1> QED BY <1>3, <1>4, <1>5 DEF Content, more

-------------------------------------------------------------------------------
(* Types *)

\* The room there is under a bound is a number of bytes, and no more than came.
LEMMA RoomType ==
    ASSUME TypeOK, NEW c \in Calls, call[c].max # Unset => call[c].flushed <= call[c].max,
           NEW n \in Nat
    PROVE  /\ Room(c, n) \in Nat /\ Room(c, n) <= n
           /\ call[c].max # Unset => call[c].flushed + Room(c, n) <= call[c].max
<1>1. call[c].flushed \in Nat /\ call[c].max \in Nat \cup {Unset}
    BY DEF TypeOK, Call, Optional
<1> QED BY <1>1 DEF Room

\* The state at the start is typed.
LEMMA InitType == Init => TypeOK
<1> SUFFICES ASSUME Init PROVE TypeOK
    OBVIOUS
<1>1. EmptyRecord(Unset) \in Record
    BY DEF EmptyRecord, Record, Content, Optional
<1>2. Absent \in Entry
    BY DEF Absent, Entry, Content
<1>3. CallOn(Unset) \in Call
    BY CallOnType
<1> QED BY <1>1, <1>2, <1>3 DEF Init, TypeOK

\* The record of an upload whose append is committed.
Lands(c, flushed, crossed) ==
    record' = [record EXCEPT
                  ![call[c].upload].bytes = @ \o [i \in 1..flushed |-> c],
                  ![call[c].upload].size = @ + flushed,
                  ![call[c].upload].isInvalidated = crossed /\ call[c].fatal]

\* What becomes of an upload whose append is committed, or refused.
LEMMA Committing ==
    ASSUME TypeOK, NEW c \in Calls, call[c].upload \in Uploads, NEW flushed \in Nat,
           NEW crossed \in BOOLEAN, NEW interrupted \in BOOLEAN,
           Commit(c, flushed, crossed, interrupted)
    PROVE  LET u == call[c].upload IN
           /\ call' \in [Calls -> Call] /\ record' \in [Uploads -> Record]
           /\ call'[c].pc = "settled" /\ call'[c].upload = u /\ call'[c].seal = NoSeal
           /\ call'[c].offset = call[c].offset
           /\ \A d \in Calls \ {c} : call'[d] = call[d]
           /\ \/ /\ ClaimHolds(u, call[c].offset) /\ Lands(c, flushed, crossed)
                 /\ call'[c].answer = CommitAnswer(c, flushed, crossed, interrupted)
              \/ record' = record /\ call'[c].answer = Refusal(u)
<1> DEFINE u == call[c].upload
<1>1. call \in [Calls -> Call] /\ record \in [Uploads -> Record]
      /\ call[c].offset \in Nat /\ call[c].fatal \in BOOLEAN
    BY DEF TypeOK, Call
<1>2. CASE ClaimStillHolds(u, call[c].offset)
  <2> DEFINE more == [i \in 1..flushed |-> c]
  <2>1. call' = Settle(c, u, call[c].offset, CommitAnswer(c, flushed, crossed, interrupted))
    BY <1>2 DEF Commit, Settled
  <2>2. CommitAnswer(c, flushed, crossed, interrupted) \in Answer
    BY <1>1, AnswerType, SMTT(60) DEF CommitAnswer, Kinds
  <2>3. record' = [record EXCEPT ![u].bytes = @ \o more, ![u].size = @ + flushed,
                                 ![u].isInvalidated = crossed /\ call[c].fatal]
    BY <1>2 DEF Commit
  <2>4. record[u].bytes \o more \in Content /\ record[u].size + flushed \in Nat
    BY <1>1, Added DEF Record
  <2>5. record' \in [Uploads -> Record]
    <3> DEFINE bytes == record[u].bytes \o more
               r == [record[u] EXCEPT !.bytes = bytes, !.size = record[u].size + flushed,
                                      !.isInvalidated = crossed /\ call[c].fatal]
    <3>1. record' = [record EXCEPT ![u] = r]
      BY <1>1, <2>3
    <3>2. bytes \in Content /\ record[u].size + flushed \in Nat
          /\ (crossed /\ call[c].fatal) \in BOOLEAN /\ record[u] \in Record
      BY <1>1, <2>4
    <3> HIDE DEF bytes
    <3>3. r \in Record
      BY <3>2 DEF Record
    <3> QED BY <1>1, <3>1, <3>3
  <2>6. Lands(c, flushed, crossed)
    BY <2>3 DEF Lands
  <2> QED BY <1>1, <1>2, <2>1, <2>2, <2>5, <2>6, Settling, SMTT(60) DEF ClaimStillHolds
<1>3. CASE ~ClaimStillHolds(u, call[c].offset)
  <2>1. call' = Settle(c, u, call[c].offset, Refusal(u)) /\ record' = record
    BY <1>3 DEF Commit, Settled
  <2> QED BY <1>1, <2>1, RefusalType, Settling
<1> QED BY <1>2, <1>3

-------------------------------------------------------------------------------
(* Steps that keep the invariant *)

Same == UNCHANGED <<minted, stored, objects, editions, sealedOver>>

\* What is known of a call that has not settled: nothing has landed of it yet.
LEMMA Pending ==
    ASSUME IInv, NEW c \in Calls, call[c].pc # "settled"
    PROVE  Landed(c) = 0 /\ call[c].answer.kind # "destination-conflict"
    BY DEF IInv, CallsSound, CallSound, Landed

\* A call that is answered without anything landing disturbs nothing, unless
\* it was the completion that an upload's seal is kept for.
LEMMA Answers ==
    ASSUME IInv, NEW c \in Calls, call[c].pc # "settled", Same, record' = record,
           call' \in [Calls -> Call], \A d \in Calls \ {c} : call'[d] = call[d],
           call'[c].pc = "settled", call'[c].seal = NoSeal, call'[c].upload \in minted,
           Landed(c)' = 0, yielding' \subseteq Calls,
           call[c].pc = "hashing" /\ call[c].upload \in stored
              /\ record[call[c].upload].seal = call[c].seal =>
                 /\ call'[c].upload = call[c].upload
                 /\ call'[c].answer.kind = "destination-conflict"
    PROVE  IInv'
<1>0. \A d \in Calls \ {c} : Landed(d)' = Landed(d)
    BY DEF Landed
<1>1. TypeOK'
    BY DEF IInv, Inv, TypeOK, Same
<1>2. PlanIsCurrent'
    BY DEF IInv, Inv, PlanIsCurrent, Same
<1>3. NoStuckSeal'
  <2> SUFFICES ASSUME NEW u \in stored, record[u].seal # NoSeal
               PROVE  \E d \in Calls :
                         /\ call'[d].upload = u
                         /\ \/ call'[d].pc = "hashing" /\ call'[d].seal = record[u].seal
                            \/ call'[d].answer.kind = "destination-conflict"
    BY DEF NoStuckSeal, Same
  <2>1. PICK d \in Calls :
            /\ call[d].upload = u
            /\ \/ call[d].pc = "hashing" /\ call[d].seal = record[u].seal
               \/ call[d].answer.kind = "destination-conflict"
    BY DEF IInv, Inv, NoStuckSeal
  <2>2. CASE d # c
    BY <2>1, <2>2
  <2>3. CASE d = c
    BY <2>1, <2>3, Pending
  <2> QED BY <2>2, <2>3
<1>4. AcknowledgedBytesStand'
  <2> SUFFICES ASSUME NEW d \in Calls, Landed(d)' > 0
               PROVE  Stands(d)'
    BY DEF AcknowledgedBytesStand, Stands
  <2>1. d # c /\ call'[d] = call[d] /\ Landed(d) > 0
    BY <1>0
  <2>2. Stands(d)
    BY DEF IInv, AcknowledgedBytesStand, Stands
  <2> QED BY <1>0, <2>1, <2>2 DEF Stands, FoundIn, Same, Destination
<1>5. RecordsSound' /\ Unborn' /\ ObjectsSound'
    BY DEF IInv, RecordsSound, SealIsOld, Unborn, ObjectsSound, Same
<1>6. CallsSound'
  <2> SUFFICES ASSUME NEW d \in Calls
               PROVE  CallSound(d)' /\ Unsigned(d)'
    BY DEF CallsSound
  <2>1. CallSound(d) /\ Unsigned(d)
    BY DEF IInv, CallsSound
  <2>2. CallSound(d)'
    BY <2>1 DEF CallSound, Same
  <2>3. Unsigned(d)'
    <3> SUFFICES ASSUME call'[d].pc = "idle"
                 PROVE  /\ \A u \in Uploads : record[u].seal.by # d
                        /\ \A e \in Calls : call'[e].seal.by # d
      BY DEF Unsigned
    <3>1. d # c /\ call[d].pc = "idle"
      OBVIOUS
    <3>2. NoSeal.by # d
      BY StoreAssumption DEF NoSeal
    <3> QED BY <2>1, <3>1, <3>2 DEF Unsigned
  <2> QED BY <2>2, <2>3
<1> QED BY <1>1, <1>2, <1>3, <1>4, <1>5, <1>6 DEF IInv, Inv

\* An append that claims an upload's end, and adds there what has come of its
\* body, or nothing yet.
LEMMA Gains ==
    ASSUME IInv, NEW c \in Calls, NEW u \in Uploads, NEW n \in Nat, Same,
           call[c].pc \in {"idle", "streaming"}, ClaimHolds(u, call'[c].offset),
           record' \in [Uploads -> Record], \A v \in Uploads \ {u} : record'[v] = record[v],
           record'[u].bytes = record[u].bytes \o [i \in 1..n |-> c],
           record'[u].size = record[u].size + n,
           ~record'[u].isComplete, record'[u].seal = NoSeal,
           call' \in [Calls -> Call], \A d \in Calls \ {c} : call'[d] = call[d],
           call'[c].pc \in {"streaming", "settled"}, call'[c].upload = u,
           call'[c].seal = NoSeal, Landed(c)' \in {0, n},
           call'[c].pc = "streaming" =>
              /\ call'[c].answer.kind = "pending"
              /\ call'[c].max # Unset => call'[c].flushed <= call'[c].max,
           yielding' \subseteq Calls
    PROVE  IInv'
<1>0. \A d \in Calls \ {c} : Landed(d)' = Landed(d)
    BY DEF Landed
<1>1. /\ u \in stored /\ u \in minted /\ ~record[u].isComplete /\ record[u].seal = NoSeal
      /\ record[u].size = Len(record[u].bytes) /\ call'[c].offset = record[u].size
      /\ record[u].bytes \in Content
    BY DEF ClaimHolds, IInv, Inv, TypeOK, RecordsSound, Whole, Record
<1>2. TypeOK'
    BY DEF IInv, Inv, TypeOK, Same
<1>3. PlanIsCurrent'
  <2> SUFFICES ASSUME NEW d \in Calls, call'[d].pc = "hashing",
                      ~record'[call'[d].upload].isComplete,
                      record'[call'[d].upload].seal = call'[d].seal
               PROVE  call'[d].plan = record'[call'[d].upload].bytes
    BY DEF PlanIsCurrent
  <2>1. d # c /\ call'[d] = call[d] /\ call[d].seal # NoSeal /\ call[d].upload \in Uploads
    BY DEF IInv, Inv, TypeOK, CallsSound, CallSound
  <2>2. call[d].upload # u
    BY <2>1
  <2> QED BY <2>1, <2>2 DEF IInv, Inv, PlanIsCurrent
<1>4. NoStuckSeal'
  <2> SUFFICES ASSUME NEW v \in stored, record'[v].seal # NoSeal
               PROVE  \E d \in Calls :
                         /\ call'[d].upload = v
                         /\ \/ call'[d].pc = "hashing" /\ call'[d].seal = record'[v].seal
                            \/ call'[d].answer.kind = "destination-conflict"
    BY DEF NoStuckSeal, Same
  <2>1. v # u /\ v \in Uploads /\ record'[v] = record[v]
    BY DEF IInv, Inv, TypeOK
  <2>2. PICK d \in Calls :
            /\ call[d].upload = v
            /\ \/ call[d].pc = "hashing" /\ call[d].seal = record[v].seal
               \/ call[d].answer.kind = "destination-conflict"
    BY <2>1 DEF IInv, Inv, NoStuckSeal
  <2>3. d # c
    BY <2>2, Pending
  <2> QED BY <2>1, <2>2, <2>3
<1>5. AcknowledgedBytesStand'
  <2> SUFFICES ASSUME NEW d \in Calls, Landed(d)' > 0
               PROVE  Stands(d)'
    BY DEF AcknowledgedBytesStand, Stands
  <2>1. /\ \A i \in 1..Len(record[u].bytes) : record'[u].bytes[i] = record[u].bytes[i]
        /\ \A i \in 1..n : record'[u].bytes[Len(record[u].bytes) + i] = c
        /\ Len(record'[u].bytes) = Len(record[u].bytes) + n
    BY <1>1, Added
  <2>2. CASE d = c
    <3>1. Landed(c)' = n /\ n > 0
      BY <2>2
    <3>2. FoundIn(c, record[u].bytes)'
      BY <1>1, <2>1, <3>1 DEF FoundIn
    <3>3. Destination(u)'.writer # u
      BY <1>1, StoreAssumption DEF IInv, ObjectsSound, Destination, Same
    <3> QED BY <2>2, <3>2, <3>3 DEF Stands, Destination
  <2>3. CASE d # c
    <3>1. call'[d] = call[d] /\ Landed(d)' = Landed(d) /\ Stands(d)
      BY <1>0, <2>3 DEF IInv, AcknowledgedBytesStand, Stands
    <3>2. CASE call[d].upload = u
      <4>1. FoundIn(d, record[u].bytes)
        BY <1>1, <3>1, <3>2 DEF Stands
      <4>2. call[d].offset \in Nat /\ Len(record[u].bytes) \in Nat
        BY <1>1, SMTT(60) DEF IInv, Inv, TypeOK, Call, Content
      <4>3. ASSUME NEW i \in 1..Landed(d)
            PROVE  /\ call[d].offset + i <= Len(record'[u].bytes)
                   /\ record'[u].bytes[call[d].offset + i] = d
        <5>1. /\ call[d].offset + i <= Len(record[u].bytes)
              /\ record[u].bytes[call[d].offset + i] = d
          BY <4>1, <4>3 DEF FoundIn
        <5>2. call[d].offset + i \in 1..Len(record[u].bytes)
          BY <4>2, <4>3, <5>1
        <5> QED BY <2>1, <4>2, <5>1, <5>2
      <4>4. FoundIn(d, record[u].bytes)'
        BY <3>1, <4>3 DEF FoundIn
      <4>5. Destination(u)'.writer # u
        BY <1>1, StoreAssumption DEF IInv, ObjectsSound, Destination, Same
      <4> QED BY <3>1, <3>2, <4>4, <4>5 DEF Stands, Destination
    <3>3. CASE call[d].upload # u
      <4>1. call[d].upload \in minted
        BY <3>1 DEF IInv, CallsSound, CallSound, Landed
      <4>2. record'[call[d].upload] = record[call[d].upload]
        BY <3>3, <4>1 DEF IInv, Inv, TypeOK
      <4> QED BY <3>1, <4>2 DEF Stands, FoundIn, Destination, Same
    <3> QED BY <3>2, <3>3
  <2> QED BY <2>2, <2>3
<1>6. RecordsSound'
  <2> SUFFICES ASSUME NEW v \in Uploads
               PROVE  Whole(record'[v]) /\ SealIsOpen(record'[v]) /\ SealIsOld(v)'
    BY DEF RecordsSound
  <2>1. CASE v = u
    <3>1. Len(record'[u].bytes) = Len(record[u].bytes) + n
      BY <1>1, Added
    <3> QED BY <1>1, <2>1, <3>1 DEF Whole, SealIsOpen, SealIsOld
  <2>2. CASE v # u
    BY <2>2 DEF IInv, RecordsSound, SealIsOld, Same
  <2> QED BY <2>1, <2>2
<1>7. Unborn' /\ ObjectsSound'
  <2>1. Unborn'
    BY <1>1 DEF IInv, Unborn, Same
  <2>2. ObjectsSound'
    BY <1>1 DEF IInv, Inv, TypeOK, ObjectsSound, Same, Entry
  <2> QED BY <2>1, <2>2
<1>8. CallsSound'
  <2> SUFFICES ASSUME NEW d \in Calls
               PROVE  CallSound(d)' /\ Unsigned(d)'
    BY DEF CallsSound
  <2>1. CallSound(d) /\ Unsigned(d)
    BY DEF IInv, CallsSound
  <2>2. CallSound(d)'
    BY <1>1, <2>1 DEF CallSound, Same
  <2>3. Unsigned(d)'
    <3> SUFFICES ASSUME call'[d].pc = "idle"
                 PROVE  /\ \A v \in Uploads : record'[v].seal.by # d
                        /\ \A e \in Calls : call'[e].seal.by # d
      BY DEF Unsigned
    <3>1. d # c /\ call[d].pc = "idle"
      OBVIOUS
    <3>2. NoSeal.by # d
      BY StoreAssumption DEF NoSeal
    <3> QED BY <2>1, <3>1, <3>2 DEF Unsigned
  <2> QED BY <2>2, <2>3
<1> QED BY <1>2, <1>3, <1>4, <1>5, <1>6, <1>7, <1>8 DEF IInv, Inv

-------------------------------------------------------------------------------
(* Refusals *)

\* An append that is refused, or asked to yield before it began.
LEMMA AppendRefusedKeeps ==
    ASSUME IInv, NEW c \in Calls, NEW u \in Uploads, NEW offset \in Nat,
           AppendRefused(c, u, offset), yielding' \subseteq Calls
    PROVE  IInv'
<1> DEFINE answer == IF c \in yielding THEN Wrote(0, TRUE) ELSE Refusal(u)
<1>1. call \in [Calls -> Call] /\ call[c].pc = "idle" /\ u \in minted
    BY DEF IInv, Inv, TypeOK, AppendRefused
<1>2. answer \in Answer
    BY AnswerType, RefusalType DEF IInv, Inv
<1>3. call' = Settle(c, u, offset, answer) /\ record' = record /\ Same
    BY DEF AppendRefused, Same
<1>4. answer.kind \in {"wrote", "conflict", "not-found"} /\ (answer.kind = "wrote" => answer.bytes = 0)
    BY DEF Wrote, Refusal, Answered
<1> HIDE DEF answer
<1>5. /\ call' \in [Calls -> Call] /\ call'[c].pc = "settled" /\ call'[c].seal = NoSeal
      /\ call'[c].upload = u /\ call'[c].answer = answer
      /\ \A d \in Calls \ {c} : call'[d] = call[d]
    BY <1>1, <1>2, <1>3, Settling
<1>6. Landed(c)' = 0
    BY <1>4, <1>5 DEF Landed
<1> QED BY <1>1, <1>3, <1>5, <1>6, Answers

\* A completion answered without a plan.
LEMMA CompleteRefusedKeeps ==
    ASSUME IInv, NEW c \in Calls, NEW u \in Uploads, NEW expected \in Nat,
           CompleteRefused(c, u, expected), yielding' \subseteq Calls
    PROVE  IInv'
<1> DEFINE answer == CompleteRefusal(u)
<1>1. call \in [Calls -> Call] /\ call[c].pc = "idle" /\ u \in minted
    BY DEF IInv, Inv, TypeOK, CompleteRefused
<1>2. answer \in Answer
    BY RefusalType DEF IInv, Inv
<1>3. call' = Settle(c, u, 0, answer) /\ record' = record /\ Same
    BY DEF CompleteRefused, Same
<1>4. answer.kind \in {"not-found", "completed", "invalidated", "conflict"}
    BY DEF CompleteRefusal, Answered
<1> HIDE DEF answer
<1>5. /\ call' \in [Calls -> Call] /\ call'[c].pc = "settled" /\ call'[c].seal = NoSeal
      /\ call'[c].upload = u /\ call'[c].answer = answer
      /\ \A d \in Calls \ {c} : call'[d] = call[d]
    BY <1>1, <1>2, <1>3, Settling
<1>6. Landed(c)' = 0
    BY <1>4, <1>5 DEF Landed
<1> QED BY <1>1, <1>3, <1>5, <1>6, Answers

\* A completion that hashed its bytes and may not publish them.  When the
\* upload is kept sealed for it, its plan still stands, so it is the
\* destination that was taken.
LEMMA PublishRefusedKeeps ==
    ASSUME IInv, NEW c \in Calls, PublishRefused(c), yielding' \subseteq Calls
    PROVE  IInv'
<1> DEFINE u == call[c].upload
           answer == IF ~StillListed(c) THEN Answered("not-found", 0)
                     ELSE IF record[u].isComplete THEN Answered("completed", record[u].size)
                     ELSE IF ~PlanStands(c) THEN Answered("conflict", record[u].size)
                     ELSE Answered("destination-conflict", 0)
<1>1. /\ call \in [Calls -> Call] /\ call[c].pc = "hashing"
      /\ u \in minted /\ u \in Uploads /\ call[c].seal # NoSeal /\ call[c].offset \in Nat
    BY DEF IInv, Inv, TypeOK, PublishRefused, CallsSound, CallSound, Call
<1>2. record[u].size \in Nat
    BY <1>1 DEF IInv, Inv, TypeOK, Record
<1>3. answer \in Answer
    BY <1>2, AnswerType DEF Kinds
<1>4. call' = Settle(c, u, call[c].offset, answer) /\ record' = record /\ Same
    BY DEF PublishRefused, Settled, Same
<1>5. answer.kind \in {"not-found", "completed", "conflict", "destination-conflict"}
    BY DEF Answered
<1>6. u \in stored /\ record[u].seal = call[c].seal => answer.kind = "destination-conflict"
  <2> SUFFICES ASSUME u \in stored, record[u].seal = call[c].seal
               PROVE  StillListed(c) /\ ~record[u].isComplete /\ PlanStands(c)
    BY DEF Answered
  <2>1. ~record[u].isComplete /\ ~record[u].isInvalidated /\ record[u].size = Len(record[u].bytes)
    BY <1>1 DEF IInv, RecordsSound, SealIsOpen, Whole
  <2>2. call[c].plan = record[u].bytes
    BY <1>1, <2>1 DEF IInv, Inv, PlanIsCurrent
  <2> QED BY <2>1, <2>2 DEF PlanStands, StillListed
<1> HIDE DEF answer
<1>7. /\ call' \in [Calls -> Call] /\ call'[c].pc = "settled" /\ call'[c].seal = NoSeal
      /\ call'[c].upload = u /\ call'[c].answer = answer
      /\ \A d \in Calls \ {c} : call'[d] = call[d]
    BY <1>1, <1>3, <1>4, Settling
<1>8. Landed(c)' = 0
    BY <1>5, <1>7 DEF Landed
<1> QED BY <1>1, <1>4, <1>6, <1>7, <1>8, Answers

-------------------------------------------------------------------------------
(* Appends *)

\* An append that claims the upload's end and waits for its body.
LEMMA AppendBeginsKeeps ==
    ASSUME IInv, NEW c \in Calls, NEW u \in Uploads, NEW offset \in Nat,
           NEW max \in Optional, NEW fatal \in BOOLEAN, NEW length \in Optional,
           AppendBegins(c, u, offset, max, fatal, length), yielding' \subseteq Calls
    PROVE  IInv'
<1> DEFINE began == [CallOn(u) EXCEPT !.pc = "streaming", !.offset = offset, !.max = max,
                                      !.fatal = fatal]
<1>1. /\ call \in [Calls -> Call] /\ record \in [Uploads -> Record]
      /\ call[c].pc = "idle" /\ ClaimHolds(u, offset)
    BY DEF IInv, Inv, TypeOK, AppendBegins
<1>2. CallOn(u) \in Call
    BY CallOnType
<1>3. /\ began \in Call /\ began.pc = "streaming" /\ began.upload = u /\ began.offset = offset
      /\ began.max = max /\ began.flushed = 0 /\ began.seal = NoSeal
      /\ began.answer = Answered("pending", 0)
    BY <1>2 DEF Call, CallOn
<1>4. call' = [call EXCEPT ![c] = began] /\ Same
    BY DEF AppendBegins, Same
<1> HIDE DEF began
<1>5. /\ call' \in [Calls -> Call] /\ call'[c] = began /\ \A d \in Calls \ {c} : call'[d] = call[d]
    BY <1>1, <1>3, <1>4
<1>6. /\ record' \in [Uploads -> Record] /\ \A v \in Uploads \ {u} : record'[v] = record[v]
      /\ record'[u].bytes = record[u].bytes /\ record'[u].size = record[u].size
      /\ record'[u].isComplete = record[u].isComplete /\ record'[u].seal = record[u].seal
    BY <1>1 DEF AppendBegins, Record
<1>7. record[u].bytes \o [i \in 1..0 |-> c] = record[u].bytes /\ record[u].size + 0 = record[u].size
  <2>1. record[u].bytes \in Seq(Calls) /\ record[u].size \in Nat
    BY <1>1 DEF Record, Content
  <2> QED BY <2>1, ConcatEmptySeq
<1>8. Landed(c)' = 0
    BY <1>3, <1>5 DEF Landed, Answered
<1>9. max # Unset => 0 <= max
    BY DEF Optional
<1>10. /\ ClaimHolds(u, call'[c].offset) /\ call[c].pc \in {"idle", "streaming"} /\ 0 \in Nat
       /\ record'[u].bytes = record[u].bytes \o [i \in 1..0 |-> c]
       /\ record'[u].size = record[u].size + 0
       /\ ~record'[u].isComplete /\ record'[u].seal = NoSeal
    BY <1>1, <1>3, <1>5, <1>6, <1>7 DEF ClaimHolds
<1>11. /\ call'[c].pc \in {"streaming", "settled"} /\ call'[c].upload = u /\ call'[c].seal = NoSeal
       /\ call'[c].answer.kind = "pending" /\ (call'[c].max # Unset => call'[c].flushed <= call'[c].max)
    BY <1>3, <1>5, <1>9 DEF Answered
<1>12. Landed(c)' \in {0, 0}
    BY <1>8
<1> QED BY <1>4, <1>5, <1>6, <1>10, <1>11, <1>12, Gains, ZenonT(60)

\* An append whose body is one buffer.
LEMMA AppendBufferKeeps ==
    ASSUME IInv, NEW c \in Calls, NEW u \in Uploads, NEW offset \in Nat, NEW n \in Nat,
           NEW length \in Optional, AppendBuffer(c, u, offset, n, length),
           yielding' \subseteq Calls
    PROVE  IInv'
<1>1. /\ call \in [Calls -> Call] /\ record \in [Uploads -> Record]
      /\ call[c].pc = "idle" /\ ClaimHolds(u, offset) /\ Same
    BY DEF IInv, Inv, TypeOK, AppendBuffer, Same
<1>2. Wrote(n, FALSE) \in Answer
    BY AnswerType
<1>3. /\ call' \in [Calls -> Call] /\ call'[c].pc = "settled" /\ call'[c].seal = NoSeal
      /\ call'[c].upload = u /\ call'[c].offset = offset /\ call'[c].answer = Wrote(n, FALSE)
      /\ \A d \in Calls \ {c} : call'[d] = call[d]
    BY <1>1, <1>2, Settling, ZenonT(60) DEF AppendBuffer
<1> DEFINE bytes == record[u].bytes \o [i \in 1..n |-> c]
           r == [record[u] EXCEPT !.length = IF @ = Unset THEN length ELSE @,
                                  !.bytes = bytes, !.size = record[u].size + n]
<1>4. record' = [record EXCEPT ![u] = r]
    BY <1>1 DEF AppendBuffer
<1>5. bytes \in Content /\ record[u].size + n \in Nat /\ record[u] \in Record
    BY <1>1, Added DEF Record
<1> HIDE DEF bytes
<1>6. r \in Record /\ r.bytes = bytes /\ r.size = record[u].size + n
      /\ r.isComplete = record[u].isComplete /\ r.seal = record[u].seal
    BY <1>5 DEF Record
<1> HIDE DEF r
<1>7. /\ record' \in [Uploads -> Record] /\ \A v \in Uploads \ {u} : record'[v] = record[v]
      /\ record'[u] = r
    BY <1>1, <1>4, <1>6
<1>8. Landed(c)' = n
    BY <1>3 DEF Landed, Wrote
<1> QED BY <1>1, <1>3, <1>6, <1>7, <1>8, Gains DEF ClaimHolds, bytes

\* An append that commits what it accepted, or finds its claim gone.
LEMMA CommitKeeps ==
    ASSUME IInv, NEW c \in Calls, call[c].pc = "streaming", NEW flushed \in Nat,
           NEW crossed \in BOOLEAN, NEW interrupted \in BOOLEAN,
           Commit(c, flushed, crossed, interrupted), Same, yielding' \subseteq Calls
    PROVE  IInv'
<1> DEFINE u == call[c].upload
<1>1. call[c].upload \in Uploads /\ u \in minted /\ call[c].offset \in Nat
      /\ call \in [Calls -> Call] /\ record \in [Uploads -> Record]
    BY DEF IInv, Inv, TypeOK, CallsSound, CallSound, Call
<1>2. /\ call' \in [Calls -> Call] /\ record' \in [Uploads -> Record]
      /\ call'[c].pc = "settled" /\ call'[c].upload = u /\ call'[c].seal = NoSeal
      /\ call'[c].offset = call[c].offset
      /\ \A d \in Calls \ {c} : call'[d] = call[d]
    BY <1>1, Committing DEF IInv, Inv
<1>3. CASE /\ ClaimHolds(u, call[c].offset) /\ Lands(c, flushed, crossed)
           /\ call'[c].answer = CommitAnswer(c, flushed, crossed, interrupted)
  <2>1. Landed(c)' = flushed
    BY <1>1, <1>2, <1>3 DEF Landed, CommitAnswer, Wrote, Answered
  <2>2. /\ \A v \in Uploads \ {u} : record'[v] = record[v]
        /\ record'[u].bytes = record[u].bytes \o [i \in 1..flushed |-> c]
        /\ record'[u].size = record[u].size + flushed
        /\ record'[u].isComplete = record[u].isComplete /\ record'[u].seal = record[u].seal
    BY <1>1, <1>3, ZenonT(60) DEF Record, Lands
  <2>3. /\ ClaimHolds(u, call'[c].offset) /\ call[c].pc \in {"idle", "streaming"}
        /\ ~record'[u].isComplete /\ record'[u].seal = NoSeal
        /\ call'[c].pc \in {"streaming", "settled"} /\ call'[c].pc # "streaming"
        /\ Landed(c)' \in {0, flushed}
    BY <1>2, <1>3, <2>1, <2>2 DEF ClaimHolds
  <2> QED BY <1>1, <1>2, <2>2, <2>3, Gains, ZenonT(60)
<1>4. CASE record' = record /\ call'[c].answer = Refusal(u)
  <2>1. Landed(c)' = 0
    BY <1>2, <1>4 DEF Landed, Refusal, Answered
  <2>2. /\ call[c].pc # "settled" /\ call'[c].upload \in minted
        /\ ~(call[c].pc = "hashing" /\ u \in stored /\ record[u].seal = call[c].seal)
    BY <1>1, <1>2
  <2>3. record' = record
    BY <1>4
  <2> QED BY <1>2, <2>1, <2>2, <2>3, Answers
<1>5. \/ /\ ClaimHolds(u, call[c].offset) /\ Lands(c, flushed, crossed)
         /\ call'[c].answer = CommitAnswer(c, flushed, crossed, interrupted)
      \/ record' = record /\ call'[c].answer = Refusal(u)
    BY <1>1, Committing DEF IInv, Inv
<1> QED BY <1>3, <1>4, <1>5

\* A chunk of a body that goes on only adds to what the call accepted.
LEMMA ChunkArrivesKeeps ==
    ASSUME IInv, NEW c \in Calls, NEW n \in Nat, ChunkArrives(c, n), yielding' \subseteq Calls
    PROVE  IInv'
<1>1. /\ call \in [Calls -> Call] /\ call[c] \in Call /\ call[c].pc = "streaming" /\ Same
      /\ call[c].flushed \in Nat
      /\ call[c].max # Unset => call[c].flushed <= call[c].max
    BY DEF IInv, Inv, TypeOK, ChunkArrives, Same, CallsSound, CallSound, Call
<1>2. /\ Room(c, n) \in Nat /\ Room(c, n) <= n
      /\ call[c].max # Unset => call[c].flushed + Room(c, n) <= call[c].max
    BY <1>1, RoomType DEF IInv, Inv
<1>3. CASE Room(c, n) < n \/ c \in yielding
  <2>1. Commit(c, call[c].flushed + Room(c, n), Room(c, n) < n, Room(c, n) = n)
    BY <1>3 DEF ChunkArrives
  <2>2. /\ call[c].flushed + Room(c, n) \in Nat
        /\ (Room(c, n) < n) \in BOOLEAN /\ (Room(c, n) = n) \in BOOLEAN
    BY <1>1, <1>2
  <2> QED BY <1>1, <2>1, <2>2, CommitKeeps
<1>4. CASE ~(Room(c, n) < n \/ c \in yielding)
  <2> DEFINE more == [call[c] EXCEPT !.flushed = call[c].flushed + n]
  <2>1. call' = [call EXCEPT ![c] = more] /\ record' = record
    BY <1>1, <1>4 DEF ChunkArrives
  <2>2. Room(c, n) = n
    BY <1>2, <1>4
  <2>3. call[c].flushed + n \in Nat
    BY <1>1
  <2>4. /\ more \in Call /\ more.pc = "streaming" /\ more.upload = call[c].upload
        /\ more.seal = call[c].seal /\ more.answer = call[c].answer /\ more.max = call[c].max
        /\ more.offset = call[c].offset /\ more.flushed = call[c].flushed + n
    BY <1>1, <2>3 DEF Call
  <2> HIDE DEF more
  <2>5. /\ call' \in [Calls -> Call] /\ call'[c] = more
        /\ \A d \in Calls \ {c} : call'[d] = call[d]
    BY <1>1, <2>1, <2>4
  <2>6. \A d \in Calls : Landed(d)' = Landed(d) /\ call'[d].upload = call[d].upload
                         /\ call'[d].offset = call[d].offset /\ call'[d].seal = call[d].seal
                         /\ call'[d].answer = call[d].answer /\ call'[d].pc = call[d].pc
    BY <1>1, <2>4, <2>5 DEF Landed
  <2>7. TypeOK'
    BY <1>1, <2>1, <2>5 DEF IInv, Inv, TypeOK, Same
  <2>8. PlanIsCurrent'
    BY <1>1, <2>1, <2>4, <2>5 DEF IInv, Inv, PlanIsCurrent
  <2>9. NoStuckSeal'
    BY <1>1, <2>1, <2>6 DEF IInv, Inv, NoStuckSeal, Same
  <2>10. AcknowledgedBytesStand'
    <3> SUFFICES ASSUME NEW d \in Calls
                 PROVE  Stands(d)'
      BY DEF AcknowledgedBytesStand, Stands
    <3>1. Stands(d)
      BY DEF IInv, AcknowledgedBytesStand, Stands
    <3> QED BY <1>1, <2>1, <2>6, <3>1, SMTT(60) DEF Stands, FoundIn, Destination, Same
  <2>11. RecordsSound' /\ Unborn' /\ ObjectsSound'
    BY <1>1, <2>1 DEF IInv, RecordsSound, SealIsOld, Unborn, ObjectsSound, Same
  <2>12. CallsSound'
    <3> SUFFICES ASSUME NEW d \in Calls
                 PROVE  CallSound(d)' /\ Unsigned(d)'
      BY DEF CallsSound
    <3>1. CallSound(d) /\ Unsigned(d)
      BY DEF IInv, CallsSound
    <3>2. CallSound(d)'
      BY <1>1, <1>2, <2>2, <2>4, <2>5, <2>6, <3>1 DEF CallSound, Same
    <3>3. Unsigned(d)'
      BY <2>1, <2>6, <3>1 DEF Unsigned
    <3> QED BY <3>2, <3>3
  <2> QED BY <2>7, <2>8, <2>9, <2>10, <2>11, <2>12 DEF IInv, Inv
<1> QED BY <1>3, <1>4

-------------------------------------------------------------------------------
(* The host program, and whoever aborts, sweeps or asks to yield *)

\* Uploads the Map forgets, calls asked to yield, and steps that change nothing.
LEMMA ForgetsKeeps ==
    ASSUME IInv, stored' \subseteq stored, yielding' \subseteq Calls,
           UNCHANGED <<minted, record, objects, call, editions, sealedOver>>
    PROVE  IInv'
<1>1. TypeOK' /\ PlanIsCurrent'
    BY DEF IInv, Inv, TypeOK, PlanIsCurrent
<1>2. NoStuckSeal'
    BY DEF IInv, Inv, NoStuckSeal
<1>3. AcknowledgedBytesStand'
  <2> SUFFICES ASSUME NEW d \in Calls
               PROVE  Stands(d)'
    BY DEF AcknowledgedBytesStand, Stands
  <2>1. Stands(d)
    BY DEF IInv, AcknowledgedBytesStand, Stands
  <2> QED BY <2>1 DEF Stands, Landed, FoundIn, Destination
<1>4. RecordsSound' /\ Unborn' /\ ObjectsSound'
    BY DEF IInv, RecordsSound, SealIsOld, Unborn, ObjectsSound
<1>5. CallsSound'
    BY DEF IInv, CallsSound, CallSound, Unsigned
<1> QED BY <1>1, <1>2, <1>3, <1>4, <1>5 DEF IInv, Inv

\* A new upload: nobody knew its token.
LEMMA CreateKeeps ==
    ASSUME IInv, NEW u \in Uploads, CreateUpload(u, Unset), yielding' = yielding
    PROVE  IInv'
<1>1. /\ u \notin minted /\ record[u] = EmptyRecord(Unset) /\ record' = record
      /\ record[u].seal = NoSeal
    BY DEF IInv, Inv, TypeOK, Unborn, CreateUpload, EmptyRecord
<1>2. TypeOK' /\ PlanIsCurrent'
    BY <1>1 DEF IInv, Inv, TypeOK, PlanIsCurrent, CreateUpload
<1>3. NoStuckSeal'
  <2> SUFFICES ASSUME NEW v \in stored', record[v].seal # NoSeal
               PROVE  \E d \in Calls :
                         /\ call[d].upload = v
                         /\ \/ call[d].pc = "hashing" /\ call[d].seal = record[v].seal
                            \/ call[d].answer.kind = "destination-conflict"
    BY <1>1 DEF NoStuckSeal, CreateUpload
  <2>1. v \in stored
    BY <1>1 DEF CreateUpload
  <2> QED BY <2>1 DEF IInv, Inv, NoStuckSeal
<1>4. AcknowledgedBytesStand'
  <2> SUFFICES ASSUME NEW d \in Calls, Landed(d)' > 0
               PROVE  Stands(d)'
    BY DEF AcknowledgedBytesStand, Stands
  <2>1. Landed(d) > 0 /\ Landed(d)' = Landed(d) /\ call' = call
    BY DEF Landed, CreateUpload
  <2>2. Stands(d) /\ CallSound(d)
    BY DEF IInv, AcknowledgedBytesStand, Stands, CallsSound
  <2>3. call[d].upload # u
    BY <1>1, <2>1, <2>2, Pending DEF CallSound, Landed
  <2> QED BY <1>1, <2>1, <2>2, <2>3 DEF Stands, FoundIn, Destination, CreateUpload
<1>5. RecordsSound' /\ Unborn' /\ ObjectsSound'
    BY <1>1 DEF IInv, RecordsSound, SealIsOld, Unborn, ObjectsSound, CreateUpload
<1>6. CallsSound'
    BY <1>1 DEF IInv, CallsSound, CallSound, Unsigned, CreateUpload
<1> QED BY <1>2, <1>3, <1>4, <1>5, <1>6 DEF IInv, Inv

\* An entry no upload wrote takes the place of what was at a key.
LEMMA StrangerKeeps ==
    ASSUME IInv, NEW k \in Keys, objects' \in [Keys -> Entry],
           \A l \in Keys \ {k} : objects'[l] = objects[l],
           objects'[k].writer = Stranger, objects'[k].edition <= editions',
           editions' \in Nat, editions <= editions',
           UNCHANGED <<minted, stored, record, call, sealedOver, yielding>>
    PROVE  IInv'
<1>1. TypeOK' /\ PlanIsCurrent'
    BY DEF IInv, Inv, TypeOK, PlanIsCurrent
<1>2. NoStuckSeal'
    BY DEF IInv, Inv, NoStuckSeal
<1>3. objects \in [Keys -> Entry] /\ Stranger \notin Uploads
    BY StoreAssumption DEF IInv, Inv, TypeOK
<1>4. AcknowledgedBytesStand'
  <2> SUFFICES ASSUME NEW d \in Calls, Landed(d)' > 0
               PROVE  Stands(d)'
    BY DEF AcknowledgedBytesStand, Stands
  <2>1. Stands(d) /\ Landed(d) > 0 /\ Landed(d)' = Landed(d) /\ CallSound(d)
    BY DEF IInv, AcknowledgedBytesStand, Stands, Landed, CallsSound
  <2>2. call[d].upload \in Uploads
    BY <2>1, Pending DEF CallSound, Landed, IInv, Inv, TypeOK
  <2>3. KeyOf[call[d].upload] \in Keys
    BY <2>2, StoreAssumption
  <2>4. CASE KeyOf[call[d].upload] = k
    BY <1>3, <2>1, <2>2, <2>4 DEF Stands, FoundIn, Destination
  <2>5. CASE KeyOf[call[d].upload] # k
    BY <1>3, <2>1, <2>3, <2>5 DEF Stands, FoundIn, Destination
  <2> QED BY <2>4, <2>5
<1>5. RecordsSound' /\ Unborn'
    BY DEF IInv, RecordsSound, SealIsOld, Unborn
<1>6. ObjectsSound'
  <2> SUFFICES ASSUME NEW l \in Keys
               PROVE  /\ objects'[l].edition <= editions'
                      /\ objects'[l].writer \in Uploads =>
                            objects'[l].writer \in minted /\ record[objects'[l].writer].isComplete
    BY DEF ObjectsSound
  <2>1. /\ objects[l].edition <= editions /\ objects[l].edition \in Nat /\ editions \in Nat
        /\ objects[l].writer \in Uploads =>
              objects[l].writer \in minted /\ record[objects[l].writer].isComplete
    BY <1>3 DEF IInv, Inv, TypeOK, ObjectsSound, Entry
  <2> QED BY <1>3, <2>1
<1>7. CallsSound'
    BY DEF IInv, CallsSound, CallSound, Unsigned
<1> QED BY <1>1, <1>2, <1>4, <1>5, <1>6, <1>7 DEF IInv, Inv

\* The two steps of that kind.
LEMMA HostKeeps ==
    ASSUME IInv, NEW k \in Keys, StrangerWrites(k) \/ StrangerDeletes(k), yielding' = yielding
    PROVE  IInv'
<1>1. editions \in Nat /\ objects \in [Keys -> Entry]
    BY DEF IInv, Inv, TypeOK
<1>2. CASE StrangerWrites(k)
  <2> DEFINE entry == [body |-> <<>>, writer |-> Stranger, edition |-> editions + 1]
  <2>1. entry \in Entry /\ entry.writer = Stranger /\ entry.edition = editions + 1
    BY <1>1 DEF Entry, Content
  <2>2. objects' = [objects EXCEPT ![k] = entry]
    BY <1>2 DEF StrangerWrites
  <2> HIDE DEF entry
  <2>3. /\ objects' \in [Keys -> Entry] /\ objects'[k] = entry
        /\ \A l \in Keys \ {k} : objects'[l] = objects[l]
    BY <1>1, <2>1, <2>2
  <2>4. /\ editions' \in Nat /\ editions <= editions' /\ entry.edition <= editions'
        /\ UNCHANGED <<minted, stored, record, call, sealedOver, yielding>>
    BY <1>1, <1>2, <2>1 DEF StrangerWrites
  <2> QED BY <2>1, <2>3, <2>4, StrangerKeeps
<1>3. CASE StrangerDeletes(k)
  <2>1. Absent \in Entry /\ Absent.writer = Stranger /\ Absent.edition = 0
    BY DEF Entry, Absent, Content
  <2>2. /\ objects' \in [Keys -> Entry] /\ objects'[k] = Absent
        /\ \A l \in Keys \ {k} : objects'[l] = objects[l]
    BY <1>1, <1>3, <2>1 DEF StrangerDeletes
  <2>3. /\ editions' \in Nat /\ editions <= editions' /\ Absent.edition <= editions'
        /\ UNCHANGED <<minted, stored, record, call, sealedOver, yielding>>
    BY <1>1, <1>3, <2>1 DEF StrangerDeletes
  <2> QED BY <2>1, <2>2, <2>3, StrangerKeeps
<1> QED BY <1>2, <1>3

-------------------------------------------------------------------------------
(* Completions *)

\* A completion that seals the upload, or adopts the seal it finds.
LEMMA CompleteSealsKeeps ==
    ASSUME IInv, NEW c \in Calls, NEW u \in Uploads, NEW expected \in Nat,
           CompleteSeals(c, u, expected), yielding' = yielding
    PROVE  IInv'
<1> DEFINE seal == SealFor(c, u)
           sealing == [CallOn(u) EXCEPT !.pc = "hashing", !.plan = record[u].bytes, !.seal = seal]
<1>1. /\ call \in [Calls -> Call] /\ record \in [Uploads -> Record] /\ objects \in [Keys -> Entry]
      /\ sealedOver \in [Uploads -> Nat] /\ editions \in Nat
      /\ call[c].pc = "idle" /\ Completable(u, expected) /\ u \in minted
      /\ CallSound(c) /\ Unsigned(c)
    BY DEF IInv, Inv, TypeOK, CompleteSeals, Completable, CallsSound
<1>2. Destination(u) \in Entry /\ Destination(u).edition \in Nat /\ Destination(u).edition <= editions
    BY <1>1, StoreAssumption DEF Destination, Entry, IInv, ObjectsSound
<1>3. c # Unset
    BY StoreAssumption
<1>4. /\ seal \in Seal /\ seal # NoSeal
      /\ record[u].seal # NoSeal => seal = record[u].seal
      /\ record[u].seal = NoSeal => seal = [destination |-> Destination(u), by |-> c]
    BY <1>1, <1>2, <1>3 DEF SealFor, Seal, NoSeal, Record
<1> DEFINE r == [record[u] EXCEPT !.seal = seal]
<1>5. record' = [record EXCEPT ![u] = r]
    BY <1>1 DEF CompleteSeals
<1>6. call' = [call EXCEPT ![c] = sealing]
    BY DEF CompleteSeals
<1> HIDE DEF seal
<1>7. /\ r \in Record /\ r.seal = seal /\ r.bytes = record[u].bytes /\ r.size = record[u].size
      /\ r.isComplete = record[u].isComplete /\ r.isInvalidated = record[u].isInvalidated
    BY <1>1, <1>4 DEF Record
<1>8. /\ sealing \in Call /\ sealing.pc = "hashing" /\ sealing.upload = u /\ sealing.seal = seal
      /\ sealing.plan = record[u].bytes /\ sealing.answer = Answered("pending", 0)
    BY <1>1, <1>4, CallOnType DEF Call, CallOn, Record
<1> HIDE DEF r, sealing
<1>9. /\ record' \in [Uploads -> Record] /\ record'[u] = r
      /\ \A v \in Uploads \ {u} : record'[v] = record[v]
      /\ call' \in [Calls -> Call] /\ call'[c] = sealing
      /\ \A d \in Calls \ {c} : call'[d] = call[d]
    BY <1>1, <1>5, <1>6, <1>7, <1>8
<1>10. /\ sealedOver' \in [Uploads -> Nat] /\ \A v \in Uploads \ {u} : sealedOver'[v] = sealedOver[v]
       /\ sealedOver'[u] = IF record[u].seal = NoSeal THEN editions ELSE sealedOver[u]
       /\ UNCHANGED <<minted, stored, objects, editions>>
    BY <1>1 DEF CompleteSeals
<1>11. \A d \in Calls : Landed(d)' = IF d = c THEN 0 ELSE Landed(d)
    BY <1>8, <1>9 DEF Landed, Answered
<1>12. TypeOK'
    BY <1>9, <1>10 DEF IInv, Inv, TypeOK
<1>13. PlanIsCurrent'
  <2> SUFFICES ASSUME NEW d \in Calls, call'[d].pc = "hashing",
                      ~record'[call'[d].upload].isComplete,
                      record'[call'[d].upload].seal = call'[d].seal
               PROVE  call'[d].plan = record'[call'[d].upload].bytes
    BY DEF PlanIsCurrent
  <2>1. CASE d = c
    BY <1>7, <1>8, <1>9, <2>1
  <2>2. CASE d # c
    <3>1. call'[d] = call[d] /\ call[d].upload \in Uploads
      BY <1>9, <2>2 DEF IInv, Inv, TypeOK, CallsSound, CallSound
    <3>2. CASE call[d].upload = u
      <4>1. seal.by # c
        BY <1>1, <1>7, <1>9, <3>1, <3>2 DEF Unsigned
      <4>2. record[u].seal = call[d].seal
        BY <1>4, <1>7, <1>9, <3>1, <3>2, <4>1
      <4> QED BY <1>7, <1>9, <3>1, <3>2, <4>2 DEF IInv, Inv, PlanIsCurrent
    <3>3. CASE call[d].upload # u
      BY <1>9, <3>1, <3>3 DEF IInv, Inv, PlanIsCurrent
    <3> QED BY <3>2, <3>3
  <2> QED BY <2>1, <2>2
<1>14. NoStuckSeal'
  <2> SUFFICES ASSUME NEW v \in stored, record'[v].seal # NoSeal
               PROVE  \E d \in Calls :
                         /\ call'[d].upload = v
                         /\ \/ call'[d].pc = "hashing" /\ call'[d].seal = record'[v].seal
                            \/ call'[d].answer.kind = "destination-conflict"
    BY <1>10 DEF NoStuckSeal
  <2>1. CASE v = u
    BY <1>7, <1>8, <1>9, <2>1
  <2>2. CASE v # u
    <3>1. v \in Uploads /\ record'[v] = record[v]
      BY <1>9, <2>2 DEF IInv, Inv, TypeOK
    <3>2. PICK d \in Calls :
              /\ call[d].upload = v
              /\ \/ call[d].pc = "hashing" /\ call[d].seal = record[v].seal
                 \/ call[d].answer.kind = "destination-conflict"
      BY <3>1 DEF IInv, Inv, NoStuckSeal
    <3>3. d # c
      BY <1>1, <3>2, Pending, SMTT(60)
    <3> QED BY <1>9, <3>1, <3>2, <3>3
  <2> QED BY <2>1, <2>2
<1>15. AcknowledgedBytesStand'
  <2> SUFFICES ASSUME NEW d \in Calls, Landed(d)' > 0
               PROVE  Stands(d)'
    BY DEF AcknowledgedBytesStand, Stands
  <2>1. d # c /\ Landed(d)' = Landed(d) /\ call'[d] = call[d] /\ Landed(d) > 0
    BY <1>9, <1>11
  <2>2. Stands(d) /\ CallSound(d)
    BY DEF IInv, AcknowledgedBytesStand, Stands, CallsSound
  <2>3. call[d].upload \in Uploads
    BY <2>1, <2>2, Pending DEF CallSound, Landed, IInv, Inv, TypeOK
  <2>4. /\ record'[call[d].upload].bytes = record[call[d].upload].bytes
        /\ record'[call[d].upload].isComplete = record[call[d].upload].isComplete
    BY <1>7, <1>9, <2>3
  <2> QED BY <1>10, <2>1, <2>2, <2>4 DEF Stands, FoundIn, Destination
<1>16. RecordsSound'
  <2> SUFFICES ASSUME NEW v \in Uploads
               PROVE  Whole(record'[v]) /\ SealIsOpen(record'[v]) /\ SealIsOld(v)'
    BY DEF RecordsSound
  <2>1. Whole(record[v]) /\ SealIsOpen(record[v]) /\ SealIsOld(v)
    BY DEF IInv, RecordsSound
  <2>2. CASE v = u
    BY <1>1, <1>2, <1>4, <1>7, <1>9, <1>10, <2>1, <2>2
       DEF Whole, SealIsOpen, SealIsOld, Completable
  <2>3. CASE v # u
    BY <1>9, <1>10, <2>1, <2>3 DEF SealIsOld
  <2> QED BY <2>2, <2>3
<1>17. Unborn' /\ ObjectsSound'
  <2>1. Unborn'
    BY <1>1, <1>9, <1>10 DEF IInv, Unborn
  <2>2. ObjectsSound'
    BY <1>7, <1>9, <1>10 DEF IInv, ObjectsSound
  <2> QED BY <2>1, <2>2
<1>18. CallsSound'
  <2> SUFFICES ASSUME NEW d \in Calls
               PROVE  CallSound(d)' /\ Unsigned(d)'
    BY DEF CallsSound
  <2>1. CallSound(d) /\ Unsigned(d)
    BY DEF IInv, CallsSound
  <2>2. CallSound(d)'
    BY <1>1, <1>4, <1>8, <1>9, <1>10, <2>1 DEF CallSound, Answered
  <2>3. Unsigned(d)'
    <3> SUFFICES ASSUME call'[d].pc = "idle"
                 PROVE  /\ \A v \in Uploads : record'[v].seal.by # d
                        /\ \A e \in Calls : call'[e].seal.by # d
      BY DEF Unsigned
    <3>1. d # c /\ call[d].pc = "idle"
      BY <1>8, <1>9
    <3>2. seal.by # d
      BY <1>4, <2>1, <3>1 DEF Unsigned
    <3> QED BY <1>7, <1>8, <1>9, <2>1, <3>1, <3>2 DEF Unsigned
  <2> QED BY <2>2, <2>3
<1> QED BY <1>12, <1>13, <1>14, <1>15, <1>16, <1>17, <1>18 DEF IInv, Inv

\* A completion whose digest fails takes back the seal of its own plan only.
LEMMA DigestMismatchKeeps ==
    ASSUME IInv, NEW c \in Calls, DigestMismatch(c), yielding' = yielding
    PROVE  IInv'
<1> DEFINE u == call[c].upload
           lifted == IF LiftsSeal(c, u) THEN NoSeal ELSE record[u].seal
           r == [record[u] EXCEPT !.seal = lifted]
<1>1. /\ call \in [Calls -> Call] /\ record \in [Uploads -> Record]
      /\ call[c].pc = "hashing" /\ u \in Uploads /\ u \in minted /\ call[c].offset \in Nat
      /\ call[c].seal # NoSeal /\ Same
    BY DEF IInv, Inv, TypeOK, DigestMismatch, CallsSound, CallSound, Call, Same
<1>2. lifted \in {NoSeal, record[u].seal}
      /\ (lifted # NoSeal => record[u].seal # call[c].seal)
    BY DEF LiftsSeal
<1>3. record' = [record EXCEPT ![u] = r]
    BY <1>1 DEF DigestMismatch
<1> HIDE DEF lifted
<1>4. /\ r \in Record /\ r.seal = lifted /\ r.bytes = record[u].bytes /\ r.size = record[u].size
      /\ r.isComplete = record[u].isComplete /\ r.isInvalidated = record[u].isInvalidated
    BY <1>1, <1>2 DEF Record
<1> HIDE DEF r
<1>5. /\ record' \in [Uploads -> Record] /\ record'[u] = r
      /\ \A v \in Uploads \ {u} : record'[v] = record[v]
    BY <1>1, <1>3, <1>4
<1>6. Answered("digest-mismatch", 0) \in Answer
    BY AnswerType DEF Kinds
<1>7. /\ call' \in [Calls -> Call] /\ call'[c].pc = "settled" /\ call'[c].upload = u
      /\ call'[c].seal = NoSeal /\ call'[c].answer = Answered("digest-mismatch", 0)
      /\ \A d \in Calls \ {c} : call'[d] = call[d]
    BY <1>1, <1>6, Settling DEF DigestMismatch, Settled
<1>8. \A d \in Calls : Landed(d)' = IF d = c THEN 0 ELSE Landed(d)
    BY <1>7 DEF Landed, Answered
<1>9. TypeOK'
    BY <1>1, <1>5, <1>7 DEF IInv, Inv, TypeOK, Same
<1>10. PlanIsCurrent'
  <2> SUFFICES ASSUME NEW d \in Calls, call'[d].pc = "hashing",
                      ~record'[call'[d].upload].isComplete,
                      record'[call'[d].upload].seal = call'[d].seal
               PROVE  call'[d].plan = record'[call'[d].upload].bytes
    BY DEF PlanIsCurrent
  <2>1. d # c /\ call'[d] = call[d] /\ call[d].upload \in Uploads /\ call[d].seal # NoSeal
    BY <1>7 DEF IInv, Inv, TypeOK, CallsSound, CallSound
  <2>2. /\ record'[call[d].upload].bytes = record[call[d].upload].bytes
        /\ record'[call[d].upload].isComplete = record[call[d].upload].isComplete
        /\ record[call[d].upload].seal = call[d].seal
    BY <1>2, <1>4, <1>5, <2>1
  <2> QED BY <2>1, <2>2 DEF IInv, Inv, PlanIsCurrent
<1>11. NoStuckSeal'
  <2> SUFFICES ASSUME NEW v \in stored, record'[v].seal # NoSeal
               PROVE  \E d \in Calls :
                         /\ call'[d].upload = v
                         /\ \/ call'[d].pc = "hashing" /\ call'[d].seal = record'[v].seal
                            \/ call'[d].answer.kind = "destination-conflict"
    BY <1>1 DEF NoStuckSeal, Same
  <2>1. v \in Uploads /\ record'[v].seal = record[v].seal
        /\ (v = u => record[u].seal # call[c].seal)
    BY <1>2, <1>4, <1>5 DEF IInv, Inv, TypeOK
  <2>2. PICK d \in Calls :
            /\ call[d].upload = v
            /\ \/ call[d].pc = "hashing" /\ call[d].seal = record[v].seal
               \/ call[d].answer.kind = "destination-conflict"
    BY <2>1 DEF IInv, Inv, NoStuckSeal
  <2>3. d # c
    BY <1>1, <2>1, <2>2, Pending
  <2> QED BY <1>7, <2>1, <2>2, <2>3
<1>12. AcknowledgedBytesStand'
  <2> SUFFICES ASSUME NEW d \in Calls, Landed(d)' > 0
               PROVE  Stands(d)'
    BY DEF AcknowledgedBytesStand, Stands
  <2>1. d # c /\ Landed(d)' = Landed(d) /\ call'[d] = call[d] /\ Landed(d) > 0
    BY <1>7, <1>8
  <2>2. Stands(d) /\ CallSound(d)
    BY DEF IInv, AcknowledgedBytesStand, Stands, CallsSound
  <2>3. call[d].upload \in Uploads
    BY <2>1, <2>2, Pending DEF CallSound, Landed, IInv, Inv, TypeOK
  <2>4. /\ record'[call[d].upload].bytes = record[call[d].upload].bytes
        /\ record'[call[d].upload].isComplete = record[call[d].upload].isComplete
    BY <1>4, <1>5, <2>3
  <2> QED BY <1>1, <2>1, <2>2, <2>4 DEF Stands, FoundIn, Destination, Same
<1>13. RecordsSound' /\ Unborn' /\ ObjectsSound'
  <2>1. RecordsSound'
    BY <1>1, <1>2, <1>4, <1>5 DEF IInv, RecordsSound, Whole, SealIsOpen, SealIsOld, Same
  <2>2. Unborn'
    BY <1>1, <1>5 DEF IInv, Unborn, Same
  <2>3. ObjectsSound'
    BY <1>1, <1>4, <1>5 DEF IInv, ObjectsSound, Same
  <2> QED BY <2>1, <2>2, <2>3
<1>14. CallsSound'
  <2> SUFFICES ASSUME NEW d \in Calls
               PROVE  CallSound(d)' /\ Unsigned(d)'
    BY DEF CallsSound
  <2>1. CallSound(d) /\ Unsigned(d)
    BY DEF IInv, CallsSound
  <2>2. CallSound(d)'
    BY <1>1, <1>7, <2>1 DEF CallSound, Same
  <2>3. Unsigned(d)'
    <3> SUFFICES ASSUME call'[d].pc = "idle"
                 PROVE  /\ \A v \in Uploads : record'[v].seal.by # d
                        /\ \A e \in Calls : call'[e].seal.by # d
      BY DEF Unsigned
    <3>1. d # c /\ call[d].pc = "idle"
      BY <1>7
    <3>2. NoSeal.by # d
      BY StoreAssumption DEF NoSeal
    <3> QED BY <1>2, <1>4, <1>5, <1>7, <2>1, <3>1, <3>2 DEF Unsigned
  <2> QED BY <2>2, <2>3
<1> QED BY <1>9, <1>10, <1>11, <1>12, <1>13, <1>14 DEF IInv, Inv

\* The object of all of an upload's bytes.
Puts(u) ==
    objects' = [objects EXCEPT
                   ![KeyOf[u]] = [body |-> record[u].bytes, writer |-> u, edition |-> editions + 1]]

\* What a publication puts where: all the bytes of the upload, over what was
\* there when it was sealed.
LEMMA Publishing ==
    ASSUME IInv, NEW c \in Calls, Publish(c)
    PROVE  LET u == call[c].upload IN
           /\ u \in Uploads /\ u \in minted /\ u \in stored /\ KeyOf[u] \in Keys
           /\ ~record[u].isComplete /\ ~record[u].isInvalidated
           /\ Destination(u) = record[u].seal.destination /\ record[u].seal # NoSeal
           /\ Puts(u)
           /\ record' \in [Uploads -> Record]
           /\ record'[u].isComplete /\ record'[u].seal = NoSeal /\ record'[u].bytes = <<>>
           /\ record'[u].isInvalidated = record[u].isInvalidated
           /\ \A v \in Uploads \ {u} : record'[v] = record[v]
           /\ call' \in [Calls -> Call] /\ call'[c].pc = "settled" /\ call'[c].upload = u
           /\ call'[c].seal = NoSeal /\ call'[c].answer = Answered("completed", record[u].size)
           /\ \A d \in Calls \ {c} : call'[d] = call[d]
<1> DEFINE u == call[c].upload
<1>1. /\ call \in [Calls -> Call] /\ record \in [Uploads -> Record]
      /\ call[c].pc = "hashing" /\ u \in Uploads /\ u \in minted /\ call[c].offset \in Nat
      /\ call[c].seal # NoSeal /\ KeyOf[u] \in Keys
    BY StoreAssumption DEF IInv, Inv, TypeOK, Publish, CallsSound, CallSound, Call
<1>2. /\ u \in stored /\ ~record[u].isComplete /\ ~record[u].isInvalidated
      /\ record[u].seal = call[c].seal /\ call[c].seal.destination = Destination(u)
    BY DEF Publish, StillListed, PlanStands, SameDestination
<1>3. call[c].plan = record[u].bytes
    BY <1>1, <1>2 DEF IInv, Inv, PlanIsCurrent
<1>4. Answered("completed", record[u].size) \in Answer
    BY <1>1, AnswerType DEF Kinds, Record
<1>5. /\ call' \in [Calls -> Call] /\ call'[c].pc = "settled" /\ call'[c].upload = u
      /\ call'[c].seal = NoSeal /\ call'[c].answer = Answered("completed", record[u].size)
      /\ \A d \in Calls \ {c} : call'[d] = call[d]
  <2> DEFINE answer == Answered("completed", record[u].size)
  <2>1. call' = Settle(c, u, call[c].offset, answer)
    BY DEF Publish, Settled
  <2>2. answer \in Answer
    BY <1>4
  <2> HIDE DEF answer
  <2>3. /\ call' \in [Calls -> Call] /\ call'[c].pc = "settled" /\ call'[c].upload = u
        /\ call'[c].seal = NoSeal /\ call'[c].answer = answer
        /\ \A d \in Calls \ {c} : call'[d] = call[d]
    BY <1>1, <2>1, <2>2, Settling
  <2> QED BY <2>3 DEF answer
<1> DEFINE r == [record[u] EXCEPT !.isComplete = TRUE, !.seal = NoSeal, !.bytes = <<>>]
<1>6. record' = [record EXCEPT ![u] = r]
    BY <1>1 DEF Publish
<1>7. r \in Record /\ r.isComplete /\ r.seal = NoSeal /\ r.bytes = <<>>
      /\ r.isInvalidated = record[u].isInvalidated
  <2>1. <<>> \in Content /\ record[u] \in Record
    BY <1>1 DEF Content
  <2> QED BY <2>1 DEF Record
<1> HIDE DEF r
<1>8. /\ record' \in [Uploads -> Record] /\ record'[u] = r
      /\ \A v \in Uploads \ {u} : record'[v] = record[v]
    BY <1>1, <1>6, <1>7
<1>9. Puts(u)
    BY <1>3 DEF Publish, Puts
<1> QED BY <1>1, <1>2, <1>5, <1>7, <1>8, <1>9

\* A completion that publishes.
LEMMA PublishKeeps ==
    ASSUME IInv, NEW c \in Calls, Publish(c), yielding' = yielding
    PROVE  IInv'
<1> DEFINE u == call[c].upload
           entry == [body |-> record[u].bytes, writer |-> u, edition |-> editions + 1]
<1>1. /\ u \in Uploads /\ u \in minted /\ u \in stored /\ KeyOf[u] \in Keys
      /\ ~record[u].isComplete /\ ~record[u].isInvalidated
      /\ Puts(u)
      /\ record' \in [Uploads -> Record]
      /\ record'[u].isComplete /\ record'[u].seal = NoSeal
      /\ \A v \in Uploads \ {u} : record'[v] = record[v]
      /\ call' \in [Calls -> Call] /\ call'[c].pc = "settled" /\ call'[c].upload = u
      /\ call'[c].seal = NoSeal /\ call'[c].answer = Answered("completed", record[u].size)
      /\ \A d \in Calls \ {c} : call'[d] = call[d]
    BY Publishing
<1>2. /\ UNCHANGED <<minted, stored, sealedOver>> /\ editions' = editions + 1
      /\ editions \in Nat /\ objects \in [Keys -> Entry] /\ call[c].pc = "hashing"
      /\ record \in [Uploads -> Record]
    BY DEF Publish, IInv, Inv, TypeOK
<1>3. /\ entry \in Entry /\ entry.writer = u /\ entry.body = record[u].bytes
      /\ entry.edition = editions + 1
    BY <1>1, <1>2 DEF Entry, Record
<1>4. /\ objects' \in [Keys -> Entry] /\ objects'[KeyOf[u]] = entry
      /\ \A k \in Keys \ {KeyOf[u]} : objects'[k] = objects[k]
  <2>1. objects' = [objects EXCEPT ![KeyOf[u]] = entry]
    BY <1>1 DEF Puts
  <2> HIDE DEF entry
  <2> QED BY <1>1, <1>2, <1>3, <2>1
<1> HIDE DEF entry
<1>5. \A d \in Calls : Landed(d)' = IF d = c THEN 0 ELSE Landed(d)
    BY <1>1 DEF Landed, Answered
<1>6. TypeOK'
    BY <1>1, <1>2, <1>4 DEF IInv, Inv, TypeOK
<1>7. PlanIsCurrent'
  <2> SUFFICES ASSUME NEW d \in Calls, call'[d].pc = "hashing",
                      ~record'[call'[d].upload].isComplete,
                      record'[call'[d].upload].seal = call'[d].seal
               PROVE  call'[d].plan = record'[call'[d].upload].bytes
    BY DEF PlanIsCurrent
  <2>1. d # c /\ call'[d] = call[d] /\ call[d].upload \in Uploads /\ call[d].upload # u
    BY <1>1 DEF IInv, Inv, TypeOK, CallsSound, CallSound
  <2> QED BY <1>1, <2>1 DEF IInv, Inv, PlanIsCurrent
<1>8. NoStuckSeal'
  <2> SUFFICES ASSUME NEW v \in stored, record'[v].seal # NoSeal
               PROVE  \E d \in Calls :
                         /\ call'[d].upload = v
                         /\ \/ call'[d].pc = "hashing" /\ call'[d].seal = record'[v].seal
                            \/ call'[d].answer.kind = "destination-conflict"
    BY <1>2 DEF NoStuckSeal
  <2>1. v # u /\ record'[v] = record[v]
    BY <1>1 DEF IInv, Inv, TypeOK
  <2>2. PICK d \in Calls :
            /\ call[d].upload = v
            /\ \/ call[d].pc = "hashing" /\ call[d].seal = record[v].seal
               \/ call[d].answer.kind = "destination-conflict"
    BY <2>1 DEF IInv, Inv, NoStuckSeal
  <2> QED BY <1>1, <2>1, <2>2
<1>9. AcknowledgedBytesStand'
  <2> SUFFICES ASSUME NEW d \in Calls, Landed(d)' > 0
               PROVE  Stands(d)'
    BY DEF AcknowledgedBytesStand, Stands
  <2> DEFINE v == call[d].upload
  <2>1. d # c /\ Landed(d)' = Landed(d) /\ call'[d] = call[d] /\ Landed(d) > 0
    BY <1>1, <1>5
  <2>2. Stands(d) /\ CallSound(d)
    BY DEF IInv, AcknowledgedBytesStand, Stands, CallsSound
  <2>3. v \in Uploads /\ KeyOf[v] \in Keys
    BY <2>1, <2>2, Pending, StoreAssumption DEF CallSound, Landed, IInv, Inv, TypeOK
  <2>4. CASE v = u
    <3>1. FoundIn(d, record[u].bytes)
      BY <1>1, <2>1, <2>2, <2>4 DEF Stands
    <3>2. objects'[KeyOf[u]].body = record[u].bytes
      BY <1>3, <1>4
    <3>3. FoundIn(d, objects[KeyOf[u]].body)'
      BY <1>1, <2>1, <3>1, <3>2 DEF FoundIn
    <3> QED BY <1>1, <2>1, <2>4, <3>3 DEF Stands, Destination
  <2>5. CASE v # u /\ KeyOf[v] = KeyOf[u]
    <3>1. objects'[KeyOf[v]].writer # v
      BY <1>3, <1>4, <2>5
    <3>2. record'[v] = record[v] /\ stored' = stored
      BY <1>1, <1>2, <2>3, <2>5, SMTT(60)
    <3> QED BY <2>1, <2>2, <3>1, <3>2 DEF Stands, FoundIn, Destination
  <2>6. CASE v # u /\ KeyOf[v] # KeyOf[u]
    BY <1>1, <1>2, <1>4, <2>1, <2>2, <2>3, <2>6 DEF Stands, FoundIn, Destination
  <2> QED BY <2>4, <2>5, <2>6
<1>10. RecordsSound' /\ Unborn'
  <2>1. RecordsSound'
    BY <1>1, <1>2 DEF IInv, RecordsSound, Whole, SealIsOpen, SealIsOld
  <2>2. Unborn'
    BY <1>1, <1>2 DEF IInv, Unborn
  <2> QED BY <2>1, <2>2
<1>11. ObjectsSound'
  <2> SUFFICES ASSUME NEW k \in Keys
               PROVE  /\ objects'[k].edition <= editions'
                      /\ objects'[k].writer \in Uploads =>
                            objects'[k].writer \in minted /\ record'[objects'[k].writer].isComplete
    BY <1>2 DEF ObjectsSound
  <2>1. CASE k = KeyOf[u]
    BY <1>1, <1>2, <1>3, <1>4, <2>1
  <2>2. CASE k # KeyOf[u]
    <3>1. /\ objects'[k] = objects[k] /\ objects[k].edition \in Nat
          /\ objects[k].edition <= editions
          /\ objects[k].writer \in Uploads =>
                objects[k].writer \in minted /\ record[objects[k].writer].isComplete
      BY <1>2, <1>4, <2>2 DEF IInv, ObjectsSound, Entry
    <3> QED BY <1>1, <1>2, <3>1
  <2> QED BY <2>1, <2>2
<1>12. CallsSound'
  <2> SUFFICES ASSUME NEW d \in Calls
               PROVE  CallSound(d)' /\ Unsigned(d)'
    BY DEF CallsSound
  <2>1. CallSound(d) /\ Unsigned(d)
    BY DEF IInv, CallsSound
  <2>2. CallSound(d)'
    BY <1>1, <1>2, <2>1 DEF CallSound
  <2>3. Unsigned(d)'
    <3> SUFFICES ASSUME call'[d].pc = "idle"
                 PROVE  /\ \A v \in Uploads : record'[v].seal.by # d
                        /\ \A e \in Calls : call'[e].seal.by # d
      BY DEF Unsigned
    <3>1. d # c /\ call[d].pc = "idle"
      BY <1>1
    <3>2. NoSeal.by # d
      BY StoreAssumption DEF NoSeal
    <3> QED BY <1>1, <2>1, <3>1, <3>2 DEF Unsigned
  <2> QED BY <2>2, <2>3
<1> QED BY <1>6, <1>7, <1>8, <1>9, <1>10, <1>11, <1>12 DEF IInv, Inv

-------------------------------------------------------------------------------
(* The invariant *)

\* Next, whatever the bounds, by the steps that have a lemma.
Step ==
    \/ \E c \in Calls, u \in Uploads, n \in Nat :
          \/ AppendRefused(c, u, n)
          \/ \E max \in Optional, fatal \in BOOLEAN : AppendBegins(c, u, n, max, fatal, Unset)
          \/ \E m \in Nat : AppendBuffer(c, u, n, m, Unset)
          \/ CompleteRefused(c, u, n) \/ CompleteSeals(c, u, n)
    \/ \E c \in Calls :
          \/ \E n \in Nat : ChunkArrives(c, n)
          \/ BodyEnds(c) \/ BodyTorn(c)
          \/ DigestMismatch(c) \/ PublishRefused(c) \/ Publish(c)
    \/ \E u \in Uploads : CreateUpload(u, Unset) \/ AbortUpload(u)
    \/ \E expired \in SUBSET Uploads : SweepExpired(expired)
    \/ \E k \in Keys : StrangerWrites(k) \/ StrangerDeletes(k)

\* Every step is one of these: a call begins or goes on, or someone else acts.
LEMMA Steps ==
    ASSUME Next
    PROVE  (Step /\ yielding' = yielding) \/ \E c \in Calls : AskToYield(c)
<1>1. 0..MaxLength \subseteq Nat /\ Chunks \subseteq Nat /\ ByteBounds \subseteq Optional
    BY BoundsAssumption
<1>2. ASSUME NEW c \in Calls, Appends(c)
      PROVE  Step
  <2>1. CASE \E u \in Uploads, offset \in 0..MaxLength : AppendRefused(c, u, offset)
    BY <1>1, <2>1 DEF Step
  <2>2. CASE \E u \in Uploads, offset \in 0..MaxLength, max \in ByteBounds, fatal \in BOOLEAN :
                AppendBegins(c, u, offset, max, fatal, Unset)
    BY <1>1, <2>2 DEF Step
  <2>3. CASE \E n \in Chunks : ChunkArrives(c, n)
    BY <1>1, <2>3 DEF Step
  <2>4. CASE \E u \in Uploads, offset \in 0..MaxLength, n \in Chunks :
                AppendBuffer(c, u, offset, n, Unset)
    BY <1>1, <2>4 DEF Step
  <2>5. CASE BodyEnds(c) \/ BodyTorn(c)
    BY <2>5 DEF Step
  <2> QED BY <1>2, <2>1, <2>2, <2>3, <2>4, <2>5 DEF Appends
<1>3. ASSUME NEW c \in Calls, Completes(c)
      PROVE  Step
  <2>1. CASE \E u \in Uploads, expected \in 0..MaxLength :
                CompleteRefused(c, u, expected) \/ CompleteSeals(c, u, expected)
    BY <1>1, <2>1 DEF Step
  <2>2. CASE DigestMismatch(c) \/ PublishRefused(c) \/ Publish(c)
    BY <2>2 DEF Step
  <2> QED BY <1>3, <2>1, <2>2 DEF Completes
<1>4. Others => Step
    BY DEF Others, Step
<1> QED BY <1>2, <1>3, <1>4 DEF Next

\* The invariant holds at the start,
LEMMA InitIInv == Init => IInv
<1> SUFFICES ASSUME Init PROVE IInv
    OBVIOUS
<1>1. TypeOK
    BY InitType
<1>2. \A c \in Calls : /\ call[c].pc = "idle" /\ call[c].answer.kind = "pending"
                       /\ call[c].seal = NoSeal /\ Landed(c) = 0
    BY DEF Init, CallOn, Answered, Landed
<1>3. \A u \in Uploads : record[u] = EmptyRecord(Unset) /\ record[u].seal = NoSeal
    BY DEF Init, EmptyRecord
<1>4. PlanIsCurrent /\ NoStuckSeal /\ AcknowledgedBytesStand
    BY <1>2 DEF PlanIsCurrent, NoStuckSeal, AcknowledgedBytesStand, Init
<1>5. RecordsSound /\ Unborn
  <2>1. Len(<<>>) = 0
    OBVIOUS
  <2>2. ASSUME NEW u \in Uploads
        PROVE  Whole(record[u]) /\ SealIsOpen(record[u]) /\ SealIsOld(u)
    <3>1. record[u].bytes = <<>> /\ record[u].size = 0
      BY <1>3 DEF EmptyRecord
    <3> QED BY <1>3, <2>1, <3>1 DEF Whole, SealIsOpen, SealIsOld
  <2> QED BY <1>3, <2>2 DEF RecordsSound, Unborn
<1>6. ObjectsSound
    BY StoreAssumption DEF Init, ObjectsSound, Absent
<1>7. CallsSound
  <2>1. \A c \in Calls : NoSeal.by # c
    BY StoreAssumption DEF NoSeal
  <2> QED BY <1>2, <1>3, <2>1 DEF CallsSound, CallSound, Unsigned
<1> QED BY <1>1, <1>4, <1>5, <1>6, <1>7 DEF IInv, Inv

\* and every step keeps it.
LEMMA NextIInv == IInv /\ [Next]_vars => IInv'
<1> SUFFICES ASSUME IInv, [Next]_vars PROVE IInv'
    OBVIOUS
<1>0. yielding \subseteq Calls
    BY DEF IInv, Inv, TypeOK
<1>1. CASE UNCHANGED vars
    BY <1>0, <1>1, ForgetsKeeps DEF vars, storeVars
<1>2. CASE \E c \in Calls : AskToYield(c)
  <2>1. yielding' \subseteq Calls /\ UNCHANGED storeVars
    BY <1>0, <1>2 DEF AskToYield
  <2> QED BY <2>1, ForgetsKeeps DEF storeVars
<1>3. CASE Step /\ yielding' = yielding
  <2>1. yielding' \subseteq Calls
    BY <1>0, <1>3
  <2>2. ASSUME NEW c \in Calls, NEW u \in Uploads, NEW n \in Nat, AppendRefused(c, u, n)
        PROVE  IInv'
    BY <2>1, <2>2, AppendRefusedKeeps
  <2>3. ASSUME NEW c \in Calls, NEW u \in Uploads, NEW n \in Nat,
               NEW max \in Optional, NEW fatal \in BOOLEAN,
               AppendBegins(c, u, n, max, fatal, Unset)
        PROVE  IInv'
    BY <2>1, <2>3, AppendBeginsKeeps DEF Optional
  <2>4. ASSUME NEW c \in Calls, NEW u \in Uploads, NEW n \in Nat, NEW m \in Nat,
               AppendBuffer(c, u, n, m, Unset)
        PROVE  IInv'
    BY <2>1, <2>4, AppendBufferKeeps DEF Optional
  <2>5. ASSUME NEW c \in Calls, NEW u \in Uploads, NEW n \in Nat,
               CompleteRefused(c, u, n) \/ CompleteSeals(c, u, n)
        PROVE  IInv'
    BY <1>3, <2>1, <2>5, CompleteRefusedKeeps, CompleteSealsKeeps
  <2>6. ASSUME NEW c \in Calls, NEW n \in Nat, ChunkArrives(c, n)
        PROVE  IInv'
    BY <2>1, <2>6, ChunkArrivesKeeps
  <2>7. ASSUME NEW c \in Calls, BodyEnds(c) \/ BodyTorn(c)
        PROVE  IInv'
    <3>1. call[c].flushed \in Nat /\ call[c].pc = "streaming" /\ Same
      BY <2>7 DEF IInv, Inv, TypeOK, Call, BodyEnds, BodyTorn, Same
    <3>2. \/ Commit(c, call[c].flushed, FALSE, FALSE)
          \/ Commit(c, call[c].flushed, FALSE, TRUE)
      BY <2>7 DEF BodyEnds, BodyTorn
    <3> QED BY <2>1, <3>1, <3>2, CommitKeeps
  <2>8. ASSUME NEW c \in Calls, DigestMismatch(c) \/ PublishRefused(c) \/ Publish(c)
        PROVE  IInv'
    BY <1>3, <2>1, <2>8, DigestMismatchKeeps, PublishRefusedKeeps, PublishKeeps
  <2>9. ASSUME NEW u \in Uploads, CreateUpload(u, Unset)
        PROVE  IInv'
    BY <1>3, <2>9, CreateKeeps
  <2>10. ASSUME NEW u \in Uploads, AbortUpload(u)
         PROVE  IInv'
    BY <2>1, <2>10, ForgetsKeeps DEF AbortUpload
  <2>11. ASSUME NEW expired \in SUBSET Uploads, SweepExpired(expired)
         PROVE  IInv'
    BY <2>1, <2>11, ForgetsKeeps DEF SweepExpired
  <2>12. ASSUME NEW k \in Keys, StrangerWrites(k) \/ StrangerDeletes(k)
         PROVE  IInv'
    BY <1>3, <2>12, HostKeeps
  <2> QED BY <1>3, <2>2, <2>3, <2>4, <2>5, <2>6, <2>7, <2>8, <2>9, <2>10, <2>11, <2>12 DEF Step
<1> QED BY <1>1, <1>2, <1>3, Steps

\* Every state that can be reached has it.
LEMMA Reached == Spec => []IInv
    BY InitIInv, NextIInv, PTL DEF Spec

\* What run memory_store checks of two uploads holds of any number: a plan under
\* the seal in force is all of its upload, and no upload stays sealed for
\* nothing (claimHolds and completeUpload of src/memory.ts).
THEOREM Invariance == Spec => []Inv
<1>1. IInv => Inv
    BY DEF IInv
<1> QED BY <1>1, Reached, PTL

\* No byte an append was told is durable is ever lost from its place, in the
\* upload or in the object published from it, whatever ran in between
\* (appendChunk's second claim, src/memory.ts).
THEOREM AcknowledgedStand == Spec => []AcknowledgedBytesStand
<1>1. IInv => AcknowledgedBytesStand
    BY DEF IInv
<1> QED BY <1>1, Reached, PTL

\* An upload only ever replaces what was at its key when it was sealed, or
\* before (sameDestination, src/memory.ts).
THEOREM NeverBlind == Spec => NoBlindOverwrite
<1> DEFINE Careful ==
        \A k \in Keys :
            LET writer == objects'[k].writer IN
            objects'[k] # objects[k] /\ writer \in Uploads =>
                objects[k].edition <= sealedOver[writer]
<1>1. ASSUME IInv, [Next]_vars
      PROVE  Careful
  <2>1. objects \in [Keys -> Entry] /\ Stranger \notin Uploads
    BY <1>1, StoreAssumption DEF IInv, Inv, TypeOK
  <2>2. ASSUME NEW c \in Calls, Publish(c)
        PROVE  Careful
    <3> DEFINE u == call[c].upload
    <3>1. /\ u \in Uploads /\ Puts(u) /\ KeyOf[u] \in Keys /\ record[u].seal # NoSeal
          /\ Destination(u) = record[u].seal.destination
      BY <1>1, <2>2, Publishing
    <3>2. objects[KeyOf[u]].edition <= sealedOver[u]
      BY <1>1, <3>1 DEF IInv, RecordsSound, SealIsOld, Destination
    <3>3. objects'[KeyOf[u]].writer = u /\ \A k \in Keys \ {KeyOf[u]} : objects'[k] = objects[k]
      BY <2>1, <3>1 DEF Puts
    <3> QED BY <3>1, <3>2, <3>3
  <2>3. ASSUME NEW k \in Keys, StrangerWrites(k) \/ StrangerDeletes(k)
        PROVE  Careful
    <3>1. objects'[k].writer = Stranger /\ \A l \in Keys \ {k} : objects'[l] = objects[l]
      BY <2>1, <2>3 DEF StrangerWrites, StrangerDeletes, Absent
    <3> QED BY <2>1, <3>1
  <2>4. CASE objects' = objects
    BY <2>4
  <2>5. \/ objects' = objects \/ \E c \in Calls : Publish(c)
        \/ \E k \in Keys : StrangerWrites(k) \/ StrangerDeletes(k)
    <3>1. CASE UNCHANGED vars \/ \E c \in Calls : AskToYield(c)
      BY <3>1 DEF vars, storeVars, AskToYield
    <3>2. CASE Step
      <4>1. ASSUME NEW c \in Calls, NEW u \in Uploads, NEW n \in Nat,
                   \/ AppendRefused(c, u, n)
                   \/ \E max \in Optional, fatal \in BOOLEAN : AppendBegins(c, u, n, max, fatal, Unset)
                   \/ \E m \in Nat : AppendBuffer(c, u, n, m, Unset)
                   \/ CompleteRefused(c, u, n) \/ CompleteSeals(c, u, n)
            PROVE  objects' = objects
        BY <4>1 DEF AppendRefused, AppendBegins, AppendBuffer, CompleteRefused, CompleteSeals
      <4>2. ASSUME NEW c \in Calls,
                   \/ \E n \in Nat : ChunkArrives(c, n)
                   \/ BodyEnds(c) \/ BodyTorn(c) \/ DigestMismatch(c) \/ PublishRefused(c)
            PROVE  objects' = objects
        BY <4>2 DEF ChunkArrives, BodyEnds, BodyTorn, DigestMismatch, PublishRefused
      <4>3. ASSUME \/ \E u \in Uploads : CreateUpload(u, Unset) \/ AbortUpload(u)
                   \/ \E expired \in SUBSET Uploads : SweepExpired(expired)
            PROVE  objects' = objects
        BY <4>3 DEF CreateUpload, AbortUpload, SweepExpired
      <4> QED BY <3>2, <4>1, <4>2, <4>3 DEF Step
    <3> QED BY <1>1, <3>1, <3>2, Steps
  <2> QED BY <2>2, <2>3, <2>4, <2>5
<1> QED BY <1>1, Reached, PTL DEF Spec, NoBlindOverwrite

-------------------------------------------------------------------------------
(* The contract *)

\* What was gathered before is the beginning of what is gathered now.
LEMMA Extends ==
    ASSUME NEW body \in Content, NEW c \in Calls, NEW n \in Nat
    PROVE  SubSeq(body \o [i \in 1..n |-> c], 1, Len(body)) = body
<1> DEFINE more == [i \in 1..n |-> c]
<1>1. body \in Seq(Calls) /\ more \in Seq(Calls) /\ Len(body) \in Nat
    BY BytesOf DEF Content
<1> HIDE DEF more
<1>2. CASE Len(body) = 0
  <2>1. body = <<>>
    BY <1>1, <1>2, EmptySeq
  <2>2. SubSeq(body \o more, 1, 0) = <<>>
    BY SubSeqEmpty
  <2> QED BY <1>2, <2>1, <2>2 DEF more
<1>3. CASE Len(body) # 0
  <2>1. 1 \in 1..Len(body) /\ Len(body) \in 1..Len(body)
    BY <1>1, <1>3
  <2>2. SubSeq(body \o more, 1, Len(body)) = SubSeq(body, 1, Len(body))
    BY <1>1, <2>1, SubSeqOfConcat1
  <2>3. SubSeq(body, 1, Len(body)) = body
    BY <1>1, SubSeqFull
  <2> QED BY <2>2, <2>3 DEF more
<1> QED BY <1>2, <1>3

\* Steps the contract does not see.
Unseen ==
    /\ UNCHANGED <<minted, stored, objects>>
    /\ \A u \in Uploads :
          /\ record'[u].bytes = record[u].bytes
          /\ record'[u].isComplete = record[u].isComplete
          /\ record'[u].isInvalidated = record[u].isInvalidated

\* They leave what the contract does see alone.
LEMMA UnseenStutters == Unseen => UNCHANGED Contract!vars
    BY DEF Unseen, Contract!vars, uploadPhase, uploadContent, uploadObject

\* Bytes at the end of an upload that was open are accepted.
LEMMA Accepts ==
    ASSUME IInv, NEW c \in Calls, NEW u \in Uploads, NEW n \in Nat, NEW offset,
           ClaimHolds(u, offset), Same,
           \A v \in Uploads \ {u} : record'[v] = record[v],
           record'[u].bytes = record[u].bytes \o [i \in 1..n |-> c], ~record'[u].isComplete
    PROVE  Contract!Accept(u)
<1>1. /\ u \in stored /\ u \in minted /\ ~record[u].isComplete /\ ~record[u].isInvalidated
      /\ record[u].bytes \in Content
    BY DEF IInv, Inv, TypeOK, ClaimHolds, Record
<1>2. uploadPhase[u] = "open" /\ uploadObject' = uploadObject
    BY <1>1 DEF uploadPhase, uploadObject, Same
<1>3. /\ uploadContent[u] = record[u].bytes /\ uploadContent'[u] = record'[u].bytes
      /\ uploadContent' = [uploadContent EXCEPT ![u] = uploadContent'[u]]
    BY DEF uploadContent
<1>4. /\ uploadContent'[u] \in Seq(Calls) /\ Len(uploadContent[u]) <= Len(uploadContent'[u])
      /\ SubSeq(uploadContent'[u], 1, Len(uploadContent[u])) = uploadContent[u]
  <2>1. /\ record'[u].bytes \in Content /\ Len(record'[u].bytes) = Len(record[u].bytes) + n
        /\ Len(record[u].bytes) \in Nat
    BY <1>1, Added DEF Content
  <2>2. SubSeq(record'[u].bytes, 1, Len(record[u].bytes)) = record[u].bytes
    BY <1>1, Extends, ZenonT(60)
  <2> QED BY <1>3, <2>1, <2>2 DEF Content
<1>5. uploadPhase' \in {uploadPhase, [uploadPhase EXCEPT ![u] = "dead"]}
  <2>1. CASE record'[u].isInvalidated
    BY <1>1, <2>1 DEF uploadPhase, Same
  <2>2. CASE ~record'[u].isInvalidated
    BY <1>1, <2>2 DEF uploadPhase, Same
  <2> QED BY <2>1, <2>2
<1> QED BY <1>2, <1>3, <1>4, <1>5 DEF Contract!Accept

\* A step of an append, seen from the contract.
LEMMA AppendsRefine ==
    ASSUME IInv, NEW c \in Calls,
           \/ \E u \in Uploads, n \in Nat :
                 \/ AppendRefused(c, u, n)
                 \/ \E max \in Optional, fatal \in BOOLEAN : AppendBegins(c, u, n, max, fatal, Unset)
                 \/ \E m \in Nat : AppendBuffer(c, u, n, m, Unset)
           \/ \E n \in Nat : ChunkArrives(c, n)
           \/ BodyEnds(c) \/ BodyTorn(c)
    PROVE  Unseen \/ \E u \in Uploads : Contract!Accept(u)
<1>1. record \in [Uploads -> Record] /\ Same
    BY ZenonT(60) DEF IInv, Inv, TypeOK, AppendRefused, AppendBegins, AppendBuffer, ChunkArrives, BodyEnds,
           BodyTorn, Same
<1>2. ASSUME record' = record
      PROVE  Unseen
    BY <1>1, <1>2 DEF Unseen, Same
<1>3. ASSUME NEW u \in Uploads, NEW n \in Nat, AppendRefused(c, u, n)
      PROVE  Unseen
    BY <1>2, <1>3 DEF AppendRefused
<1>4. ASSUME NEW u \in Uploads, NEW n \in Nat, NEW max \in Optional, NEW fatal \in BOOLEAN,
             AppendBegins(c, u, n, max, fatal, Unset)
      PROVE  Unseen
  <2>1. record' = [record EXCEPT ![u].length = IF @ = Unset THEN Unset ELSE @]
    BY <1>4 DEF AppendBegins
  <2>2. \A v \in Uploads : /\ record'[v].bytes = record[v].bytes
                           /\ record'[v].isComplete = record[v].isComplete
                           /\ record'[v].isInvalidated = record[v].isInvalidated
    BY <1>1, <2>1 DEF Record
  <2> QED BY <1>1, <2>2 DEF Unseen, Same
<1>5. ASSUME NEW u \in Uploads, NEW n \in Nat, NEW m \in Nat, AppendBuffer(c, u, n, m, Unset)
      PROVE  Contract!Accept(u)
  <2>1. record' = [record EXCEPT ![u].length = IF @ = Unset THEN Unset ELSE @,
                                 ![u].bytes = @ \o [i \in 1..m |-> c],
                                 ![u].size = @ + m]
    BY <1>5 DEF AppendBuffer
  <2>2. /\ \A v \in Uploads \ {u} : record'[v] = record[v]
        /\ record'[u].bytes = record[u].bytes \o [i \in 1..m |-> c]
        /\ record'[u].isComplete = record[u].isComplete
    BY <1>1, <2>1, SMTT(60) DEF Record
  <2>3. ClaimHolds(u, n) /\ ~record'[u].isComplete
    BY <1>5, <2>2 DEF AppendBuffer, ClaimHolds
  <2> QED BY <1>1, <2>2, <2>3, Accepts
<1>6. ASSUME NEW flushed \in Nat, NEW crossed \in BOOLEAN, NEW interrupted \in BOOLEAN,
             call[c].pc = "streaming", Commit(c, flushed, crossed, interrupted)
      PROVE  Unseen \/ \E u \in Uploads : Contract!Accept(u)
  <2> DEFINE u == call[c].upload
  <2>1. u \in Uploads
    BY <1>6 DEF IInv, Inv, TypeOK, CallsSound, CallSound
  <2>2. \/ ClaimHolds(u, call[c].offset) /\ Lands(c, flushed, crossed)
        \/ record' = record
    BY <1>6, <2>1, Committing DEF IInv, Inv
  <2>3. CASE ClaimHolds(u, call[c].offset) /\ Lands(c, flushed, crossed)
    <3>1. /\ \A v \in Uploads \ {u} : record'[v] = record[v]
          /\ record'[u].bytes = record[u].bytes \o [i \in 1..flushed |-> c]
          /\ record'[u].isComplete = record[u].isComplete
      BY <1>1, <2>1, <2>3, ZenonT(60) DEF Record, Lands
    <3>2. ClaimHolds(u, call[c].offset) /\ ~record'[u].isComplete
      BY <2>3, <3>1 DEF ClaimHolds
    <3>3. Contract!Accept(u)
      BY <1>1, <2>1, <3>1, <3>2, Accepts
    <3> QED BY <2>1, <3>3, SMTT(60)
  <2> QED BY <1>2, <2>2, <2>3
<1>7. ASSUME NEW n \in Nat, ChunkArrives(c, n)
      PROVE  Unseen \/ \E u \in Uploads : Contract!Accept(u)
  <2>1. /\ call[c].pc = "streaming" /\ call[c].flushed \in Nat
        /\ call[c].max # Unset => call[c].flushed <= call[c].max
    BY <1>7 DEF IInv, Inv, TypeOK, ChunkArrives, CallsSound, CallSound, Call
  <2>2. Room(c, n) \in Nat
    BY <2>1, RoomType DEF IInv, Inv
  <2>3. CASE Room(c, n) < n \/ c \in yielding
    <3>1. Commit(c, call[c].flushed + Room(c, n), Room(c, n) < n, Room(c, n) = n)
      BY <1>7, <2>3 DEF ChunkArrives
    <3>2. /\ call[c].flushed + Room(c, n) \in Nat
          /\ (Room(c, n) < n) \in BOOLEAN /\ (Room(c, n) = n) \in BOOLEAN
      BY <2>1, <2>2
    <3> QED BY <1>6, <2>1, <3>1, <3>2
  <2>4. CASE ~(Room(c, n) < n \/ c \in yielding)
    BY <1>2, <1>7, <2>4 DEF ChunkArrives
  <2> QED BY <2>3, <2>4
<1>8. ASSUME BodyEnds(c) \/ BodyTorn(c)
      PROVE  Unseen \/ \E u \in Uploads : Contract!Accept(u)
  <2>1. call[c].flushed \in Nat /\ call[c].pc = "streaming"
    BY <1>8 DEF IInv, Inv, TypeOK, Call, BodyEnds, BodyTorn
  <2>2. \/ Commit(c, call[c].flushed, FALSE, FALSE)
        \/ Commit(c, call[c].flushed, FALSE, TRUE)
    BY <1>8 DEF BodyEnds, BodyTorn
  <2> QED BY <1>6, <2>1, <2>2
<1> QED BY <1>3, <1>4, <1>5, <1>7, <1>8

\* A step of a completion short of its publication is not seen.
LEMMA CompletesRefine ==
    ASSUME IInv, NEW c \in Calls,
           \/ \E u \in Uploads, n \in Nat : CompleteRefused(c, u, n) \/ CompleteSeals(c, u, n)
           \/ DigestMismatch(c) \/ PublishRefused(c)
    PROVE  Unseen
<1>1. record \in [Uploads -> Record] /\ UNCHANGED <<minted, stored, objects>>
    BY DEF IInv, Inv, TypeOK, CompleteRefused, CompleteSeals, DigestMismatch, PublishRefused
<1>2. ASSUME NEW u \in Uploads, NEW seal, record' = [record EXCEPT ![u].seal = seal]
      PROVE  Unseen
  <2>1. \A v \in Uploads : /\ record'[v].bytes = record[v].bytes
                           /\ record'[v].isComplete = record[v].isComplete
                           /\ record'[v].isInvalidated = record[v].isInvalidated
    BY <1>1, <1>2 DEF Record
  <2> QED BY <1>1, <2>1 DEF Unseen
<1>3. ASSUME NEW u \in Uploads, NEW n \in Nat, CompleteSeals(c, u, n)
      PROVE  Unseen
    BY <1>2, <1>3 DEF CompleteSeals
<1>4. ASSUME DigestMismatch(c)
      PROVE  Unseen
  <2> DEFINE u == call[c].upload
             seal == IF LiftsSeal(c, u) THEN NoSeal ELSE record[u].seal
  <2>1. u \in Uploads
    BY <1>4 DEF IInv, Inv, TypeOK, DigestMismatch, CallsSound, CallSound
  <2>2. record' = [record EXCEPT ![u].seal = seal]
    BY <1>1, <1>4, <2>1 DEF DigestMismatch
  <2> HIDE DEF seal
  <2> QED BY <1>2, <2>1, <2>2
<1>5. ASSUME PublishRefused(c) \/ \E u \in Uploads, n \in Nat : CompleteRefused(c, u, n)
      PROVE  Unseen
    BY <1>1, <1>5 DEF PublishRefused, CompleteRefused, Unseen
<1> QED BY <1>3, <1>4, <1>5

\* A publication is one.
LEMMA PublishRefines ==
    ASSUME IInv, NEW c \in Calls, Publish(c)
    PROVE  Contract!Publish(call[c].upload)
<1> DEFINE u == call[c].upload
<1>1. /\ u \in Uploads /\ u \in minted /\ u \in stored /\ KeyOf[u] \in Keys
      /\ ~record[u].isComplete /\ ~record[u].isInvalidated /\ Puts(u)
      /\ record'[u].isComplete /\ record'[u].bytes = <<>>
      /\ \A v \in Uploads \ {u} : record'[v] = record[v]
    BY Publishing
<1>2. UNCHANGED <<minted, stored>> /\ objects \in [Keys -> Entry]
    BY DEF Publish, IInv, Inv, TypeOK
<1>3. uploadPhase[u] = "open"
    BY <1>1 DEF uploadPhase
<1>4. uploadPhase' = [uploadPhase EXCEPT ![u] = "published"]
    BY <1>1, <1>2 DEF uploadPhase
<1>5. uploadContent' = [uploadContent EXCEPT ![u] = <<>>]
    BY <1>1 DEF uploadContent
<1>6. uploadObject' = [uploadObject EXCEPT
                          ![KeyOf[u]] = [writer |-> u, body |-> uploadContent[u]]]
  <2> DEFINE entry == [body |-> record[u].bytes, writer |-> u, edition |-> editions + 1]
  <2>1. /\ objects'[KeyOf[u]] = entry /\ entry.writer = u /\ entry.body = uploadContent[u]
        /\ \A k \in Keys \ {KeyOf[u]} : objects'[k] = objects[k]
    BY <1>1, <1>2 DEF Puts, uploadContent
  <2> HIDE DEF entry
  <2> QED BY <1>1, <2>1 DEF uploadObject
<1> QED BY <1>3, <1>4, <1>5, <1>6 DEF Contract!Publish

\* An upload that begins, ones that are discarded, and what the host writes.
LEMMA OthersRefine ==
    ASSUME IInv
    PROVE  /\ \A u \in Uploads : CreateUpload(u, Unset) => Contract!Create(u)
           /\ \A u \in Uploads : AbortUpload(u) =>
                 Unseen \/ \E gone \in SUBSET Uploads : Contract!Discard(gone)
           /\ \A expired \in SUBSET Uploads : SweepExpired(expired) => Contract!Discard(expired)
           /\ \A k \in Keys : StrangerWrites(k) \/ StrangerDeletes(k) => Contract!StrangerWrites(k)
<1>1. stored \subseteq minted /\ record \in [Uploads -> Record] /\ objects \in [Keys -> Entry]
    BY DEF IInv, Inv, TypeOK
<1>2. ASSUME NEW u \in Uploads, CreateUpload(u, Unset)
      PROVE  Contract!Create(u)
  <2>1. /\ u \notin minted /\ record' = record /\ UNCHANGED objects
        /\ minted' = minted \cup {u} /\ stored' = stored \cup {u}
        /\ ~record[u].isComplete /\ ~record[u].isInvalidated
    BY <1>1, <1>2 DEF IInv, Unborn, CreateUpload, EmptyRecord
  <2>2. uploadPhase[u] = "unborn" /\ uploadPhase' = [uploadPhase EXCEPT ![u] = "open"]
    BY <2>1 DEF uploadPhase
  <2>3. UNCHANGED <<uploadContent, uploadObject>>
    BY <2>1 DEF uploadContent, uploadObject
  <2> QED BY <2>2, <2>3 DEF Contract!Create
<1>3. ASSUME NEW gone \in SUBSET minted, gone \subseteq Uploads, stored' = stored \ gone,
             UNCHANGED <<minted, record, objects>>
      PROVE  Contract!Discard(gone)
  <2>1. \A u \in gone : uploadPhase[u] # "unborn"
    BY <1>3 DEF uploadPhase
  <2>2. uploadPhase' = [u \in Uploads |-> IF u \in gone THEN "discarded" ELSE uploadPhase[u]]
    BY <1>1, <1>3 DEF uploadPhase
  <2>3. UNCHANGED <<uploadContent, uploadObject>>
    BY <1>3 DEF uploadContent, uploadObject
  <2> QED BY <2>1, <2>2, <2>3 DEF Contract!Discard
<1>4. ASSUME NEW u \in Uploads, AbortUpload(u)
      PROVE  Unseen \/ \E gone \in SUBSET Uploads : Contract!Discard(gone)
  <2>1. CASE u \in minted
    <3>1. Contract!Discard({u})
      BY <1>3, <1>4, <2>1 DEF AbortUpload
    <3> QED BY <3>1
  <2>2. CASE u \notin minted
    BY <1>1, <1>4, <2>2 DEF AbortUpload, Unseen
  <2> QED BY <2>1, <2>2
<1>5. ASSUME NEW expired \in SUBSET Uploads, SweepExpired(expired)
      PROVE  Contract!Discard(expired)
    BY <1>1, <1>3, <1>5 DEF SweepExpired
<1>6. ASSUME NEW k \in Keys, StrangerWrites(k) \/ StrangerDeletes(k)
      PROVE  Contract!StrangerWrites(k)
  <2>1. /\ objects'[k].writer = Stranger /\ objects'[k].body = <<>>
        /\ \A l \in Keys \ {k} : objects'[l] = objects[l]
        /\ UNCHANGED <<minted, stored, record>>
    BY <1>1, <1>6 DEF StrangerWrites, StrangerDeletes, Absent
  <2>2. uploadObject' = [uploadObject EXCEPT ![k] = [writer |-> Stranger, body |-> <<>>]]
    BY <2>1 DEF uploadObject
  <2>3. UNCHANGED <<uploadPhase, uploadContent>>
    BY <2>1 DEF uploadPhase, uploadContent
  <2> QED BY <2>2, <2>3 DEF Contract!StrangerWrites
<1> QED BY <1>2, <1>4, <1>5, <1>6

\* The memory store keeps the contract of every store, step by step: bytes only
\* ever come to the end of an open upload, all of them are published at once,
\* and a discarded upload publishes nothing (src/upload-store.ts, src/memory.ts).
THEOREM Refinement == Spec => ImplementsResumableUpload
<1>1. Init => Contract!Init
  <2> SUFFICES ASSUME Init PROVE Contract!Init
    OBVIOUS
  <2>1. uploadPhase = [u \in Uploads |-> "unborn"]
    BY DEF Init, uploadPhase
  <2>2. uploadContent = [u \in Uploads |-> <<>>]
    BY DEF Init, uploadContent, EmptyRecord
  <2>3. uploadObject = [k \in Keys |-> [writer |-> Stranger, body |-> <<>>]]
    BY DEF Init, uploadObject, Absent
  <2> QED BY <2>1, <2>2, <2>3 DEF Contract!Init
<1>2. IInv /\ [Next]_vars => [Contract!Next]_(Contract!vars)
  <2> SUFFICES ASSUME IInv, [Next]_vars
               PROVE  Unseen \/ Contract!Next
    BY UnseenStutters
  <2>1. CASE UNCHANGED vars \/ \E c \in Calls : AskToYield(c)
    BY <2>1 DEF vars, storeVars, AskToYield, Unseen
  <2>2. CASE Step
    <3>1. ASSUME NEW c \in Calls, NEW u \in Uploads, NEW n \in Nat,
                 \/ AppendRefused(c, u, n)
                 \/ \E max \in Optional, fatal \in BOOLEAN : AppendBegins(c, u, n, max, fatal, Unset)
                 \/ \E m \in Nat : AppendBuffer(c, u, n, m, Unset)
          PROVE  Unseen \/ Contract!Next
      <4>1. Unseen \/ \E v \in Uploads : Contract!Accept(v)
        BY <3>1, AppendsRefine
      <4> QED BY <4>1 DEF Contract!Next
    <3>2. ASSUME NEW c \in Calls,
                 (\E n \in Nat : ChunkArrives(c, n)) \/ BodyEnds(c) \/ BodyTorn(c)
          PROVE  Unseen \/ Contract!Next
      <4>1. Unseen \/ \E v \in Uploads : Contract!Accept(v)
        BY <3>2, AppendsRefine
      <4> QED BY <4>1 DEF Contract!Next
    <3>3. ASSUME NEW c \in Calls, NEW u \in Uploads, NEW n \in Nat,
                 CompleteRefused(c, u, n) \/ CompleteSeals(c, u, n)
          PROVE  Unseen
      BY <3>3, CompletesRefine
    <3>4. ASSUME NEW c \in Calls, DigestMismatch(c) \/ PublishRefused(c)
          PROVE  Unseen
      BY <3>4, CompletesRefine
    <3>5. ASSUME NEW c \in Calls, Publish(c)
          PROVE  Contract!Next
      <4>1. Contract!Publish(call[c].upload) /\ call[c].upload \in Uploads
        BY <3>5, PublishRefines, Publishing
      <4> QED BY <4>1 DEF Contract!Next
    <3>6. ASSUME \/ \E u \in Uploads : CreateUpload(u, Unset) \/ AbortUpload(u)
                 \/ \E expired \in SUBSET Uploads : SweepExpired(expired)
                 \/ \E k \in Keys : StrangerWrites(k) \/ StrangerDeletes(k)
          PROVE  Unseen \/ Contract!Next
      BY <3>6, OthersRefine DEF Contract!Next
    <3> QED BY <2>2, <3>1, <3>2, <3>3, <3>4, <3>5, <3>6 DEF Step
  <2> QED BY <2>1, <2>2, Steps
<1> QED BY <1>1, <1>2, Reached, PTL DEF Spec, ImplementsResumableUpload, Contract!Spec

-------------------------------------------------------------------------------
===============================================================================

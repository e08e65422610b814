-------------------------- MODULE OrchestratorProofs --------------------------
(***************************************************************************)
(* What the orchestrator promises of concurrent requests on one upload     *)
(* holds for any number of requests, whatever they ask for, any deadline   *)
(* and whichever clients leave: the lock lets one of them work at a time,  *)
(* so the verdict each works by still fits what the store has, and what a  *)
(* request was told stays true.                                            *)
(***************************************************************************)
EXTENDS UploadOrchestrator, SequenceTheorems, TLAPS

Locks == INSTANCE UploadLockerProofs WITH
    Tokens <- {Upload}, Attempts <- Requests, NoHolder <- Nobody

-------------------------------------------------------------------------------
(* The engine's verdicts, as the orchestrator's steps use them *)

\* The bound of an append ends no later than the upload's length.
LEMMA BoundFits ==
    ASSUME NEW p \in Policies, NEW offset \in Nat, NEW length \in Optional, ~Over(offset, length)
    PROVE  LET b == AppendBound(offset, length, p) IN
           /\ b.maxBytes \in Optional /\ b.maxBytesFatal \in BOOLEAN
           /\ length # Unset => b.maxBytes # Unset /\ offset + b.maxBytes <= length
<1> DEFINE toLength == Room(length, offset)
           toSize == Room(p.maxSize, offset)
           total == Tighter(toLength, toSize)
           b == AppendBound(offset, length, p)
<1>1. p.maxSize \in Optional /\ p.maxAppendSize \in Optional /\ Unset \notin Nat
    BY UnsetAssumption DEF Policies
<1>2. /\ toLength \in Optional /\ toSize \in Optional
      /\ length # Unset => length \in Nat /\ toLength \in Nat /\ offset + toLength = length
    BY <1>1 DEF Room, Over, Optional
<1>3. /\ total \in Optional
      /\ length # Unset => total \in Nat /\ total <= toLength
    BY <1>1, <1>2 DEF Tighter, Optional
<1>4. b.maxBytesFatal \in BOOLEAN
    BY DEF AppendBound, Fatal
<1>5. b.maxBytes \in Optional /\ (length # Unset => b.maxBytes # Unset /\ offset + b.maxBytes <= length)
  <2>1. CASE total # Unset /\ (total = 0 \/ RepresentationBinds(total, p.maxAppendSize))
    <3>1. b.maxBytes = total
      BY <2>1 DEF AppendBound
    <3> HIDE DEF b, total, toLength
    <3> QED BY <1>1, <1>2, <1>3, <3>1 DEF Optional
  <2>2. CASE ~(total # Unset /\ (total = 0 \/ RepresentationBinds(total, p.maxAppendSize)))
    <3>1. b.maxBytes = p.maxAppendSize
      BY <2>2 DEF AppendBound
    <3>2. total # Unset => p.maxAppendSize \in Nat /\ p.maxAppendSize < total
      BY <1>1, <1>3, <2>2 DEF RepresentationBinds, Optional
    <3> HIDE DEF b, total, toLength
    <3> QED BY <1>1, <1>2, <1>3, <3>1, <3>2 DEF Optional
  <2> QED BY <2>1, <2>2
<1> QED BY <1>4, <1>5

\* A creation accepted under a total is told it, and its bound.
LEMMA CreationVerdict ==
    ASSUME NEW p \in Policies, NEW i,
           i.contentLength \in Optional, i.declaredLength \in Optional, i.complete \in BOOLEAN
    PROVE  LET v == EvaluateUploadCreation(i, p)
               total == CreationTotal(i)
           IN  /\ v.kind \in {"create-accepted", "length-inconsistent", "limit-violation"}
               /\ v.kind = "create-accepted" =>
                     /\ total \in Optional
                     /\ v.bound = AppendBound(0, total, p) /\ v.declaredLength = total
                     /\ v.completes \in BOOLEAN /\ v.completesAt = total
<1>1. CreationTotal(i) \in Optional
    BY DEF CreationTotal
<1> QED BY <1>1 DEF EvaluateUploadCreation, Inconsistent, Limited

\* What the engine says to an append or a probe: an append it allows starts at
\* the offset, and the total it leaves the upload with covers what is there.
LEMMA IntentVerdict ==
    ASSUME NEW p \in Policies, NEW s, NEW i, NEW at,
           s.offset \in Nat, s.length \in Optional, ~Over(s.offset, s.length),
           s.status \in Statuses, i.kind \in {"probe", "append"},
           i.kind = "append" => /\ i.offset \in Nat /\ i.contentLength \in Optional
                                /\ i.declaredLength \in Optional /\ i.complete \in BOOLEAN
    PROVE  LET v == EvaluateUploadIntent(i, s, p, at)
               total == Or(s.length, v.declaredLength)
           IN  /\ v.kind \in {"gone", "probe-result", "already-complete", "append-allowed",
                              "length-inconsistent", "limit-violation", "offset-mismatch"}
               /\ v.kind = "probe-result" => v.complete = (s.status = "complete")
               /\ v.kind = "append-allowed" =>
                     /\ i.kind = "append" /\ i.offset = s.offset
                     /\ v.declaredLength \in Optional /\ total \in Optional
                     /\ ~Over(s.offset, total)
                     /\ v.bound = AppendBound(s.offset, total, p)
                     /\ v.completes \in BOOLEAN /\ (v.completes => v.completesAt = total)
<1> DEFINE v == EvaluateUploadIntent(i, s, p, at)
           length == Or(s.length, i.declaredLength)
           total == AppendTotal(i, length)
           a == EvaluateAppend(i, s, p)
<1>1. Unset \notin Nat /\ p.maxAppendSize \in Optional /\ p.minAppendSize \in Optional
    BY UnsetAssumption DEF Policies
<1>2. ASSUME GoneReason(s, p, at) # Unset \/ i.kind = "probe"
      PROVE  /\ v.kind \in {"gone", "probe-result"}
             /\ v.kind = "probe-result" => v.complete = (s.status = "complete")
    BY <1>2 DEF EvaluateUploadIntent, Gone, ProbeResult
<1>3. ASSUME ~(GoneReason(s, p, at) # Unset \/ i.kind = "probe")
      PROVE  i.kind = "append" /\ v = a
    BY <1>3 DEF EvaluateUploadIntent
<1>4. a.kind \in {"already-complete", "append-allowed",
                  "length-inconsistent", "limit-violation", "offset-mismatch"}
    BY DEF EvaluateAppend, Inconsistent, Limited, Mismatch, AppendAllowed
<1>5. ASSUME i.kind = "append", a.kind = "append-allowed"
      PROVE  /\ i.offset = s.offset
             /\ a.declaredLength \in Optional /\ Or(s.length, a.declaredLength) = total
             /\ total \in Optional /\ ~Over(s.offset, total)
             /\ a.bound = AppendBound(s.offset, total, p)
             /\ a.completes \in BOOLEAN /\ (a.completes => a.completesAt = total)
  <2>1. /\ ~LengthMutated(i, s) /\ ~TailDisagrees(i, s, length)
        /\ i.offset = s.offset /\ s.status # "complete"
        /\ a = AppendAllowed(i, s, total, p)
    BY <1>5 DEF EvaluateAppend, Inconsistent, Limited, Mismatch, AppendAllowed
  <2> HIDE DEF a
  <2>2. length \in Optional /\ ~Over(s.offset, length) /\ (s.length # Unset => length = s.length)
    BY <1>1, <1>5, <2>1 DEF Or, LengthMutated, Over, Optional
  <2> HIDE DEF length
  <2>3. /\ total \in Optional /\ ~Over(s.offset, total)
        /\ length # Unset => total = length
    BY <1>1, <1>5, <2>1, <2>2 DEF AppendTotal, Over, Optional
  <2> HIDE DEF total
  <2> QED BY <1>1, <1>5, <2>1, <2>2, <2>3 DEF AppendAllowed, Or, Optional
<1> HIDE DEF a, total
<1>6. CASE GoneReason(s, p, at) # Unset \/ i.kind = "probe"
    BY <1>2, <1>6
<1>7. CASE ~(GoneReason(s, p, at) # Unset \/ i.kind = "probe")
  <2>1. i.kind = "append" /\ v = a
    BY <1>3, <1>7
  <2> HIDE DEF v
  <2>2. v.kind # "probe-result" /\ v.kind # "gone"
    BY <1>4, <2>1
  <2>3. v.kind = "append-allowed" =>
             /\ i.offset = s.offset
             /\ v.declaredLength \in Optional /\ Or(s.length, v.declaredLength) = total
             /\ total \in Optional /\ ~Over(s.offset, total)
             /\ v.bound = AppendBound(s.offset, total, p)
             /\ v.completes \in BOOLEAN /\ (v.completes => v.completesAt = total)
    BY <1>5, <2>1
  <2> QED BY <1>4, <2>1, <2>2, <2>3 DEF v
<1> QED BY <1>6, <1>7

-------------------------------------------------------------------------------
(* The store's steps, on the one upload *)

\* A step of the store that r makes keeps the types, the other calls and the
\* tokens, and takes nothing off the upload.
StoreStep(r) ==
    /\ Store!TypeOK' /\ UNCHANGED <<minted, stored>>
    /\ \A q \in Requests \ {r} : call'[q] = call[q]
    /\ record'[Upload].size >= record[Upload].size

\* The types of what the store has of the upload, and of a call.
LEMMA StoreTyped ==
    ASSUME Store!TypeOK, NEW r \in Requests
    PROVE  /\ record[Upload] \in Store!Record /\ call[r] \in Store!Call
           /\ record[Upload].size \in Nat /\ record[Upload].length \in Optional
           /\ record[Upload].bytes \in Store!Content
           /\ record[Upload].isComplete \in BOOLEAN /\ record[Upload].isInvalidated \in BOOLEAN
           /\ call[r].flushed \in Nat /\ call[r].offset \in Nat /\ call[r].max \in Optional
           /\ call[r].answer.bytes \in Nat /\ call[r].answer.kind \in Store!Kinds
           /\ call[r].answer.interrupted \in BOOLEAN
           /\ call[r].seal \in Store!Seal \cup {Store!NoSeal}
           /\ call[r].plan \in Store!Content
    BY DEF Store!TypeOK, Store!Record, Store!Call, Store!Answer, Store!Optional, Optional

\* An answer is one.
LEMMA AnswerTyped ==
    /\ \A kind \in Store!Kinds, bytes \in Nat : Store!Answered(kind, bytes) \in Store!Answer
    /\ \A bytes \in Nat, interrupted \in BOOLEAN :
          Store!Wrote(bytes, interrupted) \in Store!Answer
    BY DEF Store!Answered, Store!Wrote, Store!Answer, Store!Kinds

\* A refusal says why, and what is durable.
LEMMA RefusalTyped ==
    ASSUME Store!TypeOK
    PROVE  /\ Store!Refusal(Upload) \in Store!Answer
           /\ Store!Refusal(Upload).kind \in {"conflict", "not-found"}
           /\ Store!CompleteRefusal(Upload) \in Store!Answer
           /\ Store!CompleteRefusal(Upload).kind # "wrote"
<1>1. record[Upload].size \in Nat
    BY DEF Store!TypeOK, Store!Record
<1> QED BY <1>1, AnswerTyped
        DEF Store!Refusal, Store!CompleteRefusal, Store!Kinds, Store!Answered

\* A fresh call is one, and idle.
LEMMA CallOnTyped ==
    \A u \in {Upload, Unset} :
        /\ Store!CallOn(u) \in Store!Call
        /\ Store!CallOn(u).pc = "idle" /\ Store!CallOn(u).upload = u
<1>1. Store!Answered("pending", 0) \in Store!Answer
    BY AnswerTyped DEF Store!Kinds
<1>2. <<>> \in Store!Content
    BY DEF Store!Content
<1> QED BY <1>1, <1>2 DEF Store!CallOn, Store!Call, Store!Optional, Optional

\* What a call is, once it is settled.
LEMMA SettlingCall ==
    ASSUME call \in [Requests -> Store!Call], NEW r \in Requests, NEW offset \in Nat,
           NEW answer \in Store!Answer, call' = Store!Settle(r, Upload, offset, answer)
    PROVE  /\ call' \in [Requests -> Store!Call]
           /\ call'[r].pc = "settled" /\ call'[r].upload = Upload /\ call'[r].answer = answer
           /\ \A q \in Requests \ {r} : call'[q] = call[q]
<1> DEFINE new == [Store!CallOn(Upload) EXCEPT !.pc = "settled", !.offset = offset,
                                               !.answer = answer]
<1>1. Store!CallOn(Upload) \in Store!Call
    BY CallOnTyped
<1>2. new \in Store!Call /\ new.pc = "settled" /\ new.upload = Upload /\ new.answer = answer
    BY <1>1, CallOnTyped DEF Store!Call
<1>3. call' = [call EXCEPT ![r] = new]
    BY DEF Store!Settle
<1> HIDE DEF new
<1> QED BY <1>2, <1>3

\* Bytes of a call come behind those that are there.
LEMMA BytesAdded ==
    ASSUME NEW body \in Store!Content, NEW r \in Requests, NEW n \in Nat
    PROVE  body \o [i \in 1..n |-> r] \in Store!Content
<1> DEFINE more == [i \in 1..n |-> r]
<1>1. more \in Seq(Requests)
    OBVIOUS
<1> HIDE DEF more
<1>2. body \o more \in Seq(Requests)
    BY <1>1 DEF Store!Content
<1> QED BY <1>2 DEF more, Store!Content

\* The claim of an append.
LEMMA Claimed ==
    ASSUME NEW offset, Store!ClaimHolds(Upload, offset)
    PROVE  /\ Upload \in stored /\ ~record[Upload].isComplete
           /\ offset = record[Upload].size
    BY DEF Store!ClaimHolds

\* What r's call is, once it is settled without a change to the record.
LEMMA RefusedStep ==
    ASSUME Store!TypeOK, graced' \subseteq Requests, NEW r \in Requests, NEW offset \in Nat,
           NEW answer \in Store!Answer, call' = Store!Settle(r, Upload, offset, answer),
           UNCHANGED <<minted, stored, record, objects, editions, sealedOver>>
    PROVE  /\ StoreStep(r) /\ record' = record
           /\ call'[r].pc = "settled" /\ call'[r].upload = Upload /\ call'[r].answer = answer
<1>1. /\ call' \in [Requests -> Store!Call]
      /\ call'[r].pc = "settled" /\ call'[r].upload = Upload /\ call'[r].answer = answer
      /\ \A q \in Requests \ {r} : call'[q] = call[q]
    BY SettlingCall DEF Store!TypeOK
<1>2. record[Upload].size \in Nat
    BY StoreTyped
<1>3. yielding' \subseteq Requests
    BY DEF yielding
<1>4. Store!TypeOK'
    BY <1>1, <1>3 DEF Store!TypeOK
<1> QED BY <1>1, <1>2, <1>4 DEF StoreStep

\* A commit adds the bytes it names or refuses them; an answer that they were
\* written is right.
LEMMA CommitStep ==
    ASSUME Store!TypeOK, graced' \subseteq Requests, NEW r \in Requests,
           call[r].upload = Upload, NEW flushed \in Nat, NEW crossed \in BOOLEAN,
           NEW interrupted \in BOOLEAN, Store!Commit(r, flushed, crossed, interrupted),
           UNCHANGED <<minted, stored, objects, editions, sealedOver>>
    PROVE  /\ StoreStep(r)
           /\ call'[r].pc = "settled" /\ call'[r].upload = Upload
           /\ record'[Upload].length = record[Upload].length
           /\ record'[Upload].isComplete = record[Upload].isComplete
           /\ \/ record' = record
              \/ /\ ~record[Upload].isComplete
                 /\ record[Upload].size = call[r].offset
                 /\ record'[Upload].size = call[r].offset + flushed
           /\ call'[r].answer.kind = "wrote" =>
                 /\ ~crossed /\ call'[r].answer.bytes = flushed
                 /\ call'[r].answer.interrupted = interrupted
                 /\ record'[Upload].size = call[r].offset + flushed
<1>1. CASE Store!ClaimHolds(Upload, call[r].offset)
  <2> DEFINE answer == Store!CommitAnswer(r, flushed, crossed, interrupted)
             R == record[Upload]
             body == R.bytes \o [i \in 1..flushed |-> r]
             invalid == crossed /\ call[r].fatal
             next == [R EXCEPT !.bytes = body, !.size = R.size + flushed, !.isInvalidated = invalid]
  <2>1. R.size \in Nat /\ R \in Store!Record /\ call[r].offset \in Nat /\ R.bytes \in Store!Content
        /\ call[r].fatal \in BOOLEAN
    BY StoreTyped DEF Store!Call
  <2>2. R.size = call[r].offset /\ ~R.isComplete
    BY <1>1, Claimed
  <2>3. body \in Store!Content
    BY <2>1, BytesAdded
  <2>4. invalid \in BOOLEAN
    BY <2>1
  <2>5. answer \in Store!Answer
        /\ (answer.kind = "wrote" => ~crossed /\ answer.bytes = flushed
                                     /\ answer.interrupted = interrupted)
    <3>1. CASE ~crossed
      <4>1. answer = Store!Wrote(flushed, interrupted)
        BY <3>1 DEF Store!CommitAnswer
      <4> QED BY <3>1, <4>1, AnswerTyped DEF Store!Wrote
    <3>2. CASE crossed
      <4>1. call[r].offset + flushed \in Nat
        BY <2>1
      <4>2. \/ answer = Store!Answered("overrun", call[r].offset + flushed)
            \/ answer = Store!Answered("bound", call[r].offset + flushed)
        BY <3>2 DEF Store!CommitAnswer
      <4>3. answer \in Store!Answer /\ answer.kind # "wrote"
        BY <4>1, <4>2, AnswerTyped DEF Store!Answered, Store!Kinds
      <4> QED BY <4>3
    <3> QED BY <3>1, <3>2
  <2> HIDE DEF answer
  <2>6. record' = [record EXCEPT ![Upload] = next]
        /\ call' = Store!Settle(r, Upload, call[r].offset, answer)
    BY <1>1, ZenonT(60) DEF Store!Commit, Store!ClaimStillHolds, Store!Settled, answer
  <2>7. next \in Store!Record
    <3>1. R.size + flushed \in Nat
      BY <2>1
    <3> HIDE DEF body
    <3> QED BY <2>1, <2>3, <2>4, <3>1 DEF Store!Record
  <2>7a. next.size = R.size + flushed /\ next.length = R.length /\ next.isComplete = R.isComplete
    <3> HIDE DEF body, invalid
    <3> QED BY <2>1 DEF Store!Record
  <2> HIDE DEF next
  <2>8. record' \in [{Upload} -> Store!Record] /\ record'[Upload] = next
    BY <2>6, <2>7 DEF Store!TypeOK
  <2>9. /\ call' \in [Requests -> Store!Call]
        /\ call'[r].pc = "settled" /\ call'[r].upload = Upload /\ call'[r].answer = answer
        /\ \A q \in Requests \ {r} : call'[q] = call[q]
    BY <2>1, <2>5, <2>6, SettlingCall DEF Store!TypeOK
  <2>10. yielding' \subseteq Requests
    BY DEF yielding
  <2>11. Store!TypeOK'
    BY <2>8, <2>9, <2>10 DEF Store!TypeOK
  <2>12. StoreStep(r)
    BY <2>1, <2>7a, <2>8, <2>9, <2>11 DEF StoreStep
  <2> QED BY <2>1, <2>2, <2>5, <2>7a, <2>8, <2>9, <2>12
<1>2. CASE ~Store!ClaimHolds(Upload, call[r].offset)
  <2>1. record' = record /\ call' = Store!Settle(r, Upload, call[r].offset, Store!Refusal(Upload))
    BY <1>2 DEF Store!Commit, Store!ClaimStillHolds, Store!Settled
  <2>2. Store!Refusal(Upload) \in Store!Answer /\ Store!Refusal(Upload).kind # "wrote"
    BY RefusalTyped
  <2>3. /\ StoreStep(r)
        /\ call'[r].pc = "settled" /\ call'[r].upload = Upload
        /\ call'[r].answer = Store!Refusal(Upload)
    BY <2>1, <2>2, RefusedStep, StoreTyped
  <2> QED BY <2>1, <2>2, <2>3
<1> QED BY <1>1, <1>2

\* A write begins where the upload ends, and records a length it is the first to
\* declare.
LEMMA AppendBeginsStep ==
    ASSUME Store!TypeOK, graced' \subseteq Requests, NEW r \in Requests, NEW at \in Nat,
           NEW max \in Optional, NEW fatal \in BOOLEAN, NEW length \in Optional,
           Store!AppendBegins(r, Upload, at, max, fatal, length)
    PROVE  /\ StoreStep(r)
           /\ call'[r].pc = "streaming" /\ call'[r].upload = Upload /\ call'[r].offset = at
           /\ call'[r].max = max /\ call'[r].flushed = 0
           /\ at = record[Upload].size /\ record'[Upload].size = record[Upload].size
           /\ record'[Upload].length = Or(record[Upload].length, length)
           /\ ~record[Upload].isComplete
           /\ record'[Upload].isComplete = record[Upload].isComplete
<1> DEFINE began == [Store!CallOn(Upload) EXCEPT !.pc = "streaming", !.offset = at,
                                                 !.max = max, !.fatal = fatal]
           R == record[Upload]
           told == Or(R.length, length)
           next == [R EXCEPT !.length = told]
<1>1. /\ call \in [Requests -> Store!Call] /\ record \in [{Upload} -> Store!Record]
      /\ ~R.isComplete /\ at = R.size
      /\ R \in Store!Record /\ R.size \in Nat /\ R.length \in Optional
    BY StoreTyped, Claimed DEF Store!TypeOK, Store!AppendBegins
<1>2. Store!CallOn(Upload) \in Store!Call
    BY CallOnTyped
<1>3. /\ began \in Store!Call /\ began.pc = "streaming" /\ began.upload = Upload
      /\ began.offset = at /\ began.max = max /\ began.flushed = 0
    BY <1>2 DEF Store!Call, Store!CallOn, Store!Optional, Optional
<1>4. call' = [call EXCEPT ![r] = began] /\ UNCHANGED <<minted, stored, objects, editions, sealedOver>>
    BY DEF Store!AppendBegins
<1>5. record' = [record EXCEPT ![Upload] = next]
    BY DEF Store!AppendBegins, Or
<1>6. told \in Optional
    BY <1>1 DEF Or
<1> HIDE DEF began, told
<1>7. next \in Store!Record
    BY <1>1, <1>6 DEF Store!Record, Store!Optional, Optional
<1>8. next.size = R.size /\ next.length = told /\ next.isComplete = R.isComplete
    BY <1>1 DEF Store!Record
<1> HIDE DEF next
<1>9. /\ record' \in [{Upload} -> Store!Record] /\ record'[Upload] = next
      /\ call' \in [Requests -> Store!Call] /\ call'[r] = began
      /\ \A q \in Requests \ {r} : call'[q] = call[q]
    BY <1>1, <1>3, <1>4, <1>5, <1>7
<1>10. Store!TypeOK'
    BY <1>4, <1>9 DEF Store!TypeOK, yielding
<1>11. StoreStep(r)
    BY <1>1, <1>4, <1>8, <1>9, <1>10 DEF StoreStep
<1> QED BY <1>1, <1>3, <1>8, <1>9, <1>11 DEF told

\* A buffer without a byte adds none.
LEMMA AppendBufferStep ==
    ASSUME Store!TypeOK, graced' \subseteq Requests, NEW r \in Requests, NEW at \in Nat,
           NEW length \in Optional, Store!AppendBuffer(r, Upload, at, 0, length)
    PROVE  /\ StoreStep(r)
           /\ call'[r].pc = "settled" /\ call'[r].upload = Upload
           /\ call'[r].answer = Store!Wrote(0, FALSE)
           /\ at = record[Upload].size /\ record'[Upload].size = record[Upload].size
           /\ record'[Upload].length = Or(record[Upload].length, length)
           /\ ~record[Upload].isComplete
           /\ record'[Upload].isComplete = record[Upload].isComplete
<1> DEFINE answer == Store!Wrote(0, FALSE)
           R == record[Upload]
           told == Or(R.length, length)
           body == R.bytes \o [i \in 1..0 |-> r]
           next == [R EXCEPT !.length = told, !.bytes = body, !.size = R.size + 0]
<1>1. /\ call \in [Requests -> Store!Call] /\ record \in [{Upload} -> Store!Record]
      /\ ~R.isComplete /\ at = R.size
      /\ R \in Store!Record /\ R.size \in Nat /\ R.length \in Optional /\ R.bytes \in Store!Content
    BY StoreTyped, Claimed DEF Store!TypeOK, Store!AppendBuffer
<1>2. answer \in Store!Answer
    BY AnswerTyped
<1>3. call' = Store!Settle(r, Upload, at, answer)
    BY DEF Store!AppendBuffer
<1> HIDE DEF answer
<1>4. /\ call' \in [Requests -> Store!Call]
      /\ call'[r].pc = "settled" /\ call'[r].upload = Upload /\ call'[r].answer = answer
      /\ \A q \in Requests \ {r} : call'[q] = call[q]
    BY <1>1, <1>2, <1>3, SettlingCall
<1>5. record' = [record EXCEPT ![Upload] = next]
    BY DEF Store!AppendBuffer, Or
<1>6. told \in Optional /\ body \in Store!Content /\ R.size + 0 = R.size
    BY <1>1, BytesAdded DEF Or
<1> HIDE DEF told, body
<1>7. next \in Store!Record
    BY <1>1, <1>6 DEF Store!Record, Store!Optional, Optional
<1>8. next.size = R.size /\ next.length = told /\ next.isComplete = R.isComplete
    BY <1>1, <1>6 DEF Store!Record
<1> HIDE DEF next
<1>9. record' \in [{Upload} -> Store!Record] /\ record'[Upload] = next
    BY <1>1, <1>5, <1>7
<1>10. Store!TypeOK' /\ UNCHANGED <<minted, stored>>
    BY <1>4, <1>9 DEF Store!TypeOK, yielding, Store!AppendBuffer
<1>11. StoreStep(r)
    BY <1>1, <1>4, <1>8, <1>9, <1>10 DEF StoreStep
<1> QED BY <1>1, <1>4, <1>8, <1>9, <1>11 DEF told, answer

\* A write that is refused, or asked to yield before it began.
LEMMA AppendRefusedStep ==
    ASSUME Store!TypeOK, graced' \subseteq Requests, NEW r \in Requests, NEW at \in Nat,
           Store!AppendRefused(r, Upload, at)
    PROVE  /\ StoreStep(r) /\ record' = record
           /\ call'[r].pc = "settled" /\ call'[r].upload = Upload
           /\ call'[r].answer.kind = "wrote" => call'[r].answer.interrupted
<1>1. CASE r \in yielding
  <2>1. Store!Wrote(0, TRUE) \in Store!Answer /\ Store!Wrote(0, TRUE).interrupted
    BY AnswerTyped DEF Store!Wrote
  <2> DEFINE answer == Store!Wrote(0, TRUE)
  <2>2. call' = Store!Settle(r, Upload, at, answer)
        /\ UNCHANGED <<minted, stored, record, objects, editions, sealedOver>>
    BY <1>1 DEF Store!AppendRefused
  <2>3. answer \in Store!Answer /\ answer.interrupted
    BY <2>1
  <2> HIDE DEF answer
  <2> QED BY <2>2, <2>3, RefusedStep
<1>2. CASE r \notin yielding
  <2>1. call' = Store!Settle(r, Upload, at, Store!Refusal(Upload))
        /\ UNCHANGED <<minted, stored, record, objects, editions, sealedOver>>
    BY <1>2 DEF Store!AppendRefused
  <2>2. Store!Refusal(Upload) \in Store!Answer /\ Store!Refusal(Upload).kind # "wrote"
    BY RefusalTyped
  <2> QED BY <2>1, <2>2, RefusedStep
<1> QED BY <1>1, <1>2

\* The room there is under a bound is a number of bytes, and no more than came.
LEMMA RoomTyped ==
    ASSUME Store!TypeOK, NEW r \in Requests,
           call[r].max # Unset => call[r].flushed <= call[r].max
    PROVE  /\ Store!Room(r, 1) \in Nat /\ Store!Room(r, 1) <= 1
           /\ call[r].max # Unset => call[r].flushed + Store!Room(r, 1) <= call[r].max
<1>1. call[r].flushed \in Nat /\ call[r].max \in Nat \cup {Unset}
    BY StoreTyped DEF Optional
<1> QED BY <1>1 DEF Store!Room

\* A body that goes on, ends or tears: the call accepts no more than its bound, and
\* what it commits comes where it began.  Only a body that ended is answered as
\* written without an interruption.
LEMMA BodyStep ==
    ASSUME Store!TypeOK, graced' \subseteq Requests, NEW r \in Requests, NEW sends,
           call[r].upload = Upload, call[r].max # Unset => call[r].flushed <= call[r].max,
           \/ Store!ChunkArrives(r, 1) \/ Store!BodyTorn(r)
           \/ call[r].flushed = sends /\ Store!BodyEnds(r)
    PROVE  /\ StoreStep(r) /\ call[r].pc = "streaming" /\ call'[r].upload = Upload
           /\ record'[Upload].length = record[Upload].length
           /\ record'[Upload].isComplete = record[Upload].isComplete
           /\ \/ record' = record
              \/ /\ ~record[Upload].isComplete
                 /\ \E f \in Nat : /\ call[r].max # Unset => f <= call[r].max
                                   /\ record'[Upload].size = call[r].offset + f
           /\ \/ /\ call'[r].pc = "streaming"
                 /\ call'[r].offset = call[r].offset /\ call'[r].max = call[r].max
                 /\ call'[r].max # Unset => call'[r].flushed <= call'[r].max
              \/ /\ call'[r].pc = "settled"
                 /\ call'[r].answer.kind = "wrote" /\ ~call'[r].answer.interrupted =>
                       /\ call'[r].answer.bytes = sends
                       /\ record'[Upload].size = call[r].offset + sends
<1> DEFINE Same == UNCHANGED <<minted, stored, objects, editions, sealedOver>>
           fits(f) == call[r].max # Unset => f <= call[r].max
<1>1. /\ call \in [Requests -> Store!Call] /\ call[r] \in Store!Call /\ call[r].flushed \in Nat
      /\ call[r].max \in Optional /\ record[Upload].size \in Nat
    BY StoreTyped DEF Store!TypeOK
<1>2. /\ Store!Room(r, 1) \in Nat /\ Store!Room(r, 1) <= 1
      /\ fits(call[r].flushed + Store!Room(r, 1))
    BY RoomTyped
<1>3. CASE /\ Store!ChunkArrives(r, 1)
           /\ ~(Store!Room(r, 1) < 1 \/ r \in yielding)
  <2> DEFINE more == [call[r] EXCEPT !.flushed = call[r].flushed + 1]
  <2>1. /\ call' = [call EXCEPT ![r] = more] /\ record' = record /\ Same
        /\ call[r].pc = "streaming"
    BY <1>1, <1>3 DEF Store!ChunkArrives
  <2>2. Store!Room(r, 1) = 1
    BY <1>2, <1>3
  <2>3. call[r].flushed + 1 \in Nat
    BY <1>1
  <2>4. /\ more \in Store!Call /\ more.pc = "streaming" /\ more.upload = Upload
        /\ more.max = call[r].max /\ more.offset = call[r].offset
        /\ more.flushed = call[r].flushed + 1
    BY <1>1, <2>1, <2>3 DEF Store!Call
  <2> HIDE DEF more
  <2>5. /\ call' \in [Requests -> Store!Call] /\ call'[r] = more
        /\ \A q \in Requests \ {r} : call'[q] = call[q]
    BY <1>1, <2>1, <2>4
  <2>6. Store!TypeOK'
    BY <2>1, <2>5 DEF Store!TypeOK, yielding
  <2>7. StoreStep(r)
    BY <1>1, <2>1, <2>5, <2>6 DEF StoreStep
  <2>8. call'[r].max # Unset => call'[r].flushed <= call'[r].max
    BY <1>2, <2>2, <2>4, <2>5
  <2> QED BY <2>1, <2>4, <2>5, <2>7, <2>8
<1>4. ASSUME NEW flushed \in Nat, NEW crossed \in BOOLEAN, NEW interrupted \in BOOLEAN,
             Store!Commit(r, flushed, crossed, interrupted), Same, fits(flushed),
             call[r].pc = "streaming", crossed \/ interrupted \/ flushed = sends
      PROVE  /\ StoreStep(r) /\ call[r].pc = "streaming" /\ call'[r].upload = Upload
             /\ record'[Upload].length = record[Upload].length
             /\ record'[Upload].isComplete = record[Upload].isComplete
             /\ \/ record' = record
                \/ /\ ~record[Upload].isComplete
                   /\ \E f \in Nat : fits(f) /\ record'[Upload].size = call[r].offset + f
             /\ call'[r].pc = "settled"
             /\ call'[r].answer.kind = "wrote" /\ ~call'[r].answer.interrupted =>
                   /\ call'[r].answer.bytes = sends
                   /\ record'[Upload].size = call[r].offset + sends
    BY <1>4, CommitStep
<1>5. CASE /\ Store!ChunkArrives(r, 1)
           /\ Store!Room(r, 1) < 1 \/ r \in yielding
  <2> DEFINE room == Store!Room(r, 1)
  <2>1. /\ Store!Commit(r, call[r].flushed + room, room < 1, room = 1) /\ Same
        /\ call[r].pc = "streaming"
    BY <1>5 DEF Store!ChunkArrives
  <2>2. /\ call[r].flushed + room \in Nat /\ (room < 1) \in BOOLEAN /\ (room = 1) \in BOOLEAN
        /\ room < 1 \/ room = 1
    BY <1>1, <1>2
  <2> HIDE DEF room, fits
  <2>3. fits(call[r].flushed + room)
    BY <1>2 DEF room
  <2> DEFINE f == call[r].flushed + room
  <2>4. /\ Store!Commit(r, f, room < 1, room = 1) /\ f \in Nat /\ fits(f)
    BY <2>1, <2>2, <2>3
  <2> HIDE DEF f
  <2> QED BY <1>4, <2>1, <2>2, <2>4 DEF fits
<1>6. CASE \/ Store!BodyTorn(r)
           \/ call[r].flushed = sends /\ Store!BodyEnds(r)
  <2>1. Same /\ call[r].pc = "streaming" /\ fits(call[r].flushed)
    BY <1>6 DEF Store!BodyTorn, Store!BodyEnds
  <2>2. CASE Store!BodyTorn(r)
    <3>1. Store!Commit(r, call[r].flushed, FALSE, TRUE)
      BY <2>2 DEF Store!BodyTorn
    <3> QED BY <1>1, <1>4, <2>1, <3>1
  <2>3. CASE call[r].flushed = sends /\ Store!BodyEnds(r)
    <3>1. Store!Commit(r, call[r].flushed, FALSE, FALSE)
      BY <2>3 DEF Store!BodyEnds
    <3> QED BY <1>1, <1>4, <2>1, <2>3, <3>1
  <2> QED BY <1>6, <2>2, <2>3
<1> QED BY <1>3, <1>5, <1>6

\* What a completion does to the record and the call of r leaves the length.
Sealing(r) ==
    /\ StoreStep(r) /\ call'[r].upload = Upload
    /\ record'[Upload].size = record[Upload].size
    /\ record'[Upload].length = record[Upload].length

\* A completion seals the upload, or is answered without a plan.
LEMMA CompleteStep ==
    ASSUME Store!TypeOK, graced' \subseteq Requests, NEW r \in Requests, NEW expected,
           Store!CompleteRefused(r, Upload, expected) \/ Store!CompleteSeals(r, Upload, expected)
    PROVE  /\ Sealing(r)
           /\ record'[Upload].isComplete = record[Upload].isComplete
           /\ \/ call'[r].pc = "hashing"
              \/ call'[r].pc = "settled" /\ call'[r].answer.kind # "wrote"
<1>1. record[Upload].size \in Nat
    BY StoreTyped
<1>2. CASE Store!CompleteRefused(r, Upload, expected)
  <2>1. call' = Store!Settle(r, Upload, 0, Store!CompleteRefusal(Upload))
        /\ UNCHANGED <<minted, stored, record, objects, editions, sealedOver>>
    BY <1>2 DEF Store!CompleteRefused
  <2>2. Store!CompleteRefusal(Upload) \in Store!Answer
        /\ Store!CompleteRefusal(Upload).kind # "wrote"
    BY RefusalTyped
  <2> QED BY <2>1, <2>2, RefusedStep DEF Sealing
<1>3. CASE Store!CompleteSeals(r, Upload, expected)
  <2> DEFINE R == record[Upload]
             seal == Store!SealFor(r, Upload)
             next == [R EXCEPT !.seal = seal]
             sealing == [Store!CallOn(Upload) EXCEPT !.pc = "hashing", !.plan = R.bytes,
                                                     !.seal = seal]
  <2>1. /\ call \in [Requests -> Store!Call] /\ record \in [{Upload} -> Store!Record]
        /\ R \in Store!Record /\ R.bytes \in Store!Content
        /\ sealedOver \in [{Upload} -> Nat] /\ editions \in Nat
    BY StoreTyped DEF Store!TypeOK
  <2>2. seal \in Store!Seal
    <3>1. Store!Destination(Upload) \in Store!Entry
      BY DEF Store!TypeOK, Store!Destination
    <3>2. [destination |-> Store!Destination(Upload), by |-> r] \in Store!Seal
      BY <3>1 DEF Store!Seal
    <3>3. R.seal \in Store!Seal \cup {Store!NoSeal}
      BY <2>1 DEF Store!Record
    <3> QED BY <3>2, <3>3 DEF Store!SealFor
  <2>3. /\ record' = [record EXCEPT ![Upload] = next]
        /\ call' = [call EXCEPT ![r] = sealing]
        /\ UNCHANGED <<minted, stored, objects, editions>>
    BY <1>3 DEF Store!CompleteSeals
  <2>4. sealedOver' \in [{Upload} -> Nat]
    BY <1>3, <2>1 DEF Store!CompleteSeals
  <2> HIDE DEF seal
  <2>5. next \in Store!Record
    BY <2>1, <2>2 DEF Store!Record
  <2>6. next.size = R.size /\ next.length = R.length /\ next.isComplete = R.isComplete
    BY <2>1 DEF Store!Record
  <2>7. sealing \in Store!Call /\ sealing.pc = "hashing" /\ sealing.upload = Upload
    <3>1. Store!CallOn(Upload) \in Store!Call /\ Store!CallOn(Upload).upload = Upload
      BY CallOnTyped
    <3> QED BY <2>1, <2>2, <3>1 DEF Store!Call
  <2> HIDE DEF next, sealing
  <2>8. /\ record' \in [{Upload} -> Store!Record] /\ record'[Upload] = next
        /\ call' \in [Requests -> Store!Call] /\ call'[r] = sealing
        /\ \A q \in Requests \ {r} : call'[q] = call[q]
    BY <2>1, <2>3, <2>5, <2>7
  <2>9. Store!TypeOK'
    BY <2>3, <2>4, <2>8 DEF Store!TypeOK, yielding
  <2> QED BY <1>1, <2>3, <2>6, <2>7, <2>8, <2>9 DEF StoreStep, Sealing
<1> QED BY <1>2, <1>3

\* Hashing ends with an answer; only a publication makes the upload complete, and
\* only of what was sealed.
LEMMA HashedStep ==
    ASSUME Store!TypeOK, graced' \subseteq Requests, NEW r \in Requests, call[r].upload = Upload,
           Store!DigestMismatch(r) \/ Store!PublishRefused(r) \/ Store!Publish(r)
    PROVE  /\ Sealing(r) /\ call[r].pc = "hashing"
           /\ call'[r].pc = "settled" /\ call'[r].answer.kind # "wrote"
<1> DEFINE R == record[Upload]
<1>1. /\ call \in [Requests -> Store!Call] /\ record \in [{Upload} -> Store!Record]
      /\ R \in Store!Record /\ R.size \in Nat /\ call[r].offset \in Nat
      /\ call[r].pc = "hashing" /\ UNCHANGED <<minted, stored, sealedOver>>
    BY StoreTyped DEF Store!TypeOK, Store!DigestMismatch, Store!PublishRefused, Store!Publish
<1>2. CASE Store!DigestMismatch(r)
  <2> DEFINE seal == IF Store!LiftsSeal(r, Upload) THEN Store!NoSeal ELSE R.seal
             next == [R EXCEPT !.seal = seal]
             answer == Store!Answered("digest-mismatch", 0)
  <2>1. /\ record' = [record EXCEPT ![Upload] = next]
        /\ call' = Store!Settle(r, Upload, call[r].offset, answer)
        /\ UNCHANGED <<objects, editions>>
    BY <1>2 DEF Store!DigestMismatch, Store!Settled
  <2>2. answer \in Store!Answer /\ answer.kind # "wrote"
    BY AnswerTyped DEF Store!Kinds, Store!Answered
  <2>3. seal \in Store!Seal \cup {Store!NoSeal}
    BY <1>1 DEF Store!Record
  <2> HIDE DEF seal, answer
  <2>4. next \in Store!Record
    BY <1>1, <2>3 DEF Store!Record
  <2>5. next.size = R.size /\ next.length = R.length
    BY <1>1 DEF Store!Record
  <2> HIDE DEF next
  <2>6. record' \in [{Upload} -> Store!Record] /\ record'[Upload] = next
    BY <1>1, <2>1, <2>4
  <2>7. /\ call' \in [Requests -> Store!Call]
        /\ call'[r].pc = "settled" /\ call'[r].upload = Upload /\ call'[r].answer = answer
        /\ \A q \in Requests \ {r} : call'[q] = call[q]
    BY <1>1, <2>1, <2>2, SettlingCall
  <2>8. Store!TypeOK'
    BY <1>1, <2>1, <2>6, <2>7 DEF Store!TypeOK, yielding
  <2> QED BY <1>1, <2>2, <2>5, <2>6, <2>7, <2>8 DEF StoreStep, Sealing
<1>3. CASE Store!PublishRefused(r)
  <2>1. PICK answer \in {Store!Answered("not-found", 0), Store!Answered("completed", R.size),
                         Store!Answered("conflict", R.size),
                         Store!Answered("destination-conflict", 0)} :
           call' = Store!Settle(r, Upload, call[r].offset, answer)
    BY <1>3 DEF Store!PublishRefused, Store!Settled
  <2>2. answer \in Store!Answer /\ answer.kind # "wrote"
    BY <1>1, <2>1, AnswerTyped DEF Store!Kinds, Store!Answered
  <2>3. UNCHANGED <<minted, stored, record, objects, editions, sealedOver>>
    BY <1>3 DEF Store!PublishRefused
  <2> QED BY <1>1, <2>1, <2>2, <2>3, RefusedStep DEF Sealing
<1>4. CASE Store!Publish(r)
  <2> DEFINE next == [R EXCEPT !.isComplete = TRUE, !.seal = Store!NoSeal, !.bytes = <<>>]
             answer == Store!Answered("completed", R.size)
             entry == [body |-> call[r].plan, writer |-> Upload, edition |-> editions + 1]
  <2>1. /\ record' = [record EXCEPT ![Upload] = next]
        /\ call' = Store!Settle(r, Upload, call[r].offset, answer)
        /\ objects' = [objects EXCEPT ![Key] = entry] /\ editions' = editions + 1
    BY <1>4 DEF Store!Publish, Store!Settled
  <2>2. answer \in Store!Answer /\ answer.kind # "wrote"
    BY <1>1, AnswerTyped DEF Store!Kinds, Store!Answered
  <2>3. <<>> \in Store!Content
    BY DEF Store!Content
  <2>4. entry \in Store!Entry /\ editions + 1 \in Nat /\ objects \in [{Key} -> Store!Entry]
    BY StoreTyped DEF Store!TypeOK, Store!Entry
  <2> HIDE DEF answer, entry
  <2>5. next \in Store!Record
    BY <1>1, <2>3 DEF Store!Record
  <2>6. next.size = R.size /\ next.length = R.length
    BY <1>1 DEF Store!Record
  <2> HIDE DEF next
  <2>7. record' \in [{Upload} -> Store!Record] /\ record'[Upload] = next
        /\ objects' \in [{Key} -> Store!Entry] /\ editions' \in Nat
    BY <1>1, <2>1, <2>4, <2>5
  <2>8. /\ call' \in [Requests -> Store!Call]
        /\ call'[r].pc = "settled" /\ call'[r].upload = Upload /\ call'[r].answer = answer
        /\ \A q \in Requests \ {r} : call'[q] = call[q]
    BY <1>1, <2>1, <2>2, SettlingCall
  <2>9. Store!TypeOK'
    BY <1>1, <2>1, <2>7, <2>8 DEF Store!TypeOK, yielding
  <2> QED BY <1>1, <2>2, <2>6, <2>7, <2>8, <2>9 DEF StoreStep, Sealing
<1> QED BY <1>2, <1>3, <1>4

\* A caller that takes its answer makes its call idle again.
LEMMA CollectStep ==
    ASSUME Store!TypeOK, graced' \subseteq Requests, NEW r \in Requests, Store!Collect(r)
    PROVE  StoreStep(r) /\ record' = record /\ call'[r].pc = "idle"
<1> DEFINE none == Store!CallOn(Unset)
<1>1. none \in Store!Call /\ none.pc = "idle" /\ call \in [Requests -> Store!Call]
    BY CallOnTyped DEF Store!TypeOK
<1>2. call' = [call EXCEPT ![r] = none]
      /\ UNCHANGED <<minted, stored, record, objects, editions, sealedOver>>
    BY DEF Store!Collect
<1> HIDE DEF none
<1>3. /\ call' \in [Requests -> Store!Call] /\ call'[r] = none
      /\ \A q \in Requests \ {r} : call'[q] = call[q]
    BY <1>1, <1>2
<1>4. Store!TypeOK' /\ record[Upload].size \in Nat
    BY <1>2, <1>3, StoreTyped DEF Store!TypeOK, yielding
<1> QED BY <1>1, <1>2, <1>3, <1>4 DEF StoreStep

-------------------------------------------------------------------------------
(* The lock's steps *)

\* The locker's invariant is the one its own proofs are about.
LEMMA SameLock == (Locks!Inv <=> Locker!Inv) /\ (Locks!Inv <=> Locker!Inv)'
<1>1. Locks!Inv <=> Locker!Inv
    BY DEF Locks!Inv, Locker!Inv, Locks!TypeOK, Locker!TypeOK, Locks!Holder, Locker!Holder,
           Locks!Stages, Locker!Stages, Locks!PreemptLandsOnHolder, Locker!PreemptLandsOnHolder,
           Locks!Held, Locker!Held, Locks!NoLostWaiter, Locker!NoLostWaiter, Locks!Queued,
           Locker!Queued, Locks!QueueSound, Locker!QueueSound, Locks!WaiterHasPreempted,
           Locker!WaiterHasPreempted
<1>2. (Locks!Inv <=> Locker!Inv)'
    BY DEF Locks!Inv, Locker!Inv, Locks!TypeOK, Locker!TypeOK, Locks!Holder, Locker!Holder,
           Locks!Stages, Locker!Stages, Locks!PreemptLandsOnHolder, Locker!PreemptLandsOnHolder,
           Locks!Held, Locker!Held, Locks!NoLostWaiter, Locker!NoLostWaiter, Locks!Queued,
           Locker!Queued, Locks!QueueSound, Locker!QueueSound, Locks!WaiterHasPreempted,
           Locker!WaiterHasPreempted
<1> QED BY <1>1, <1>2

\* What its proofs assume of the value for no holder.
LEMMA NobodyHolds == Locks!NoHolderAssumption
    BY NobodyAssumption DEF Locks!NoHolderAssumption, Locks!Holder, Locker!Holder

\* Who takes part in the lock, as a handler's step on it leaves it: r itself, and a
\* waiter it may have been handed to.
Others(r) ==
    \A q \in Requests \ {r} : pc'[q] = pc[q] \/ (pc[q] = "waiting" /\ pc'[q] = "holding")

\* An idle request gets the lock, or waits for it.
LEMMA AcquireStep ==
    ASSUME Locker!Inv, NEW r \in Requests,
           Locker!AcquireFree(r, Upload) \/ Locker!AcquireQueued(r, Upload)
    PROVE  Locker!Inv' /\ pc[r] = "idle" /\ pc'[r] \in {"waiting", "holding"} /\ Others(r)
<1>1. /\ pc \in [Requests -> Locker!Stages] /\ pc[r] = "idle"
      /\ pc' = [pc EXCEPT ![r] = "holding"] \/ pc' = [pc EXCEPT ![r] = "waiting"]
    BY DEF Locker!Inv, Locker!TypeOK, Locker!AcquireFree, Locker!AcquireQueued
<1>2. Locks!Inv /\ Upload \in {Upload}
    BY SameLock
<1>3. Locks!Inv'
  <2>1. CASE Locker!AcquireFree(r, Upload)
    <3>1. Locks!AcquireFree(r, Upload)
      BY <2>1 DEF Locks!AcquireFree, Locker!AcquireFree, Locks!Vacant, Locker!Vacant,
                  Locks!Held, Locker!Held
    <3> QED BY <1>2, <3>1, NobodyHolds, Locks!AcquireFreeInv
  <2>2. CASE Locker!AcquireQueued(r, Upload)
    <3>1. Locks!AcquireQueued(r, Upload)
      BY <2>2 DEF Locks!AcquireQueued, Locker!AcquireQueued, Locks!Push, Locker!Push,
                  Locks!Held, Locker!Held, Locks!Queued, Locker!Queued
    <3> QED BY <1>2, <3>1, NobodyHolds, Locks!AcquireQueuedInv
  <2> QED BY <2>1, <2>2
<1> QED BY <1>1, <1>3, SameLock DEF Others

\* A holder lets the lock go, to the first who waits.
LEMMA ReleaseStep ==
    ASSUME Locker!Inv, NEW r \in Requests, Locker!ReleaseLast(r) \/ Locker!ReleaseHandOver(r)
    PROVE  Locker!Inv' /\ pc'[r] = "released" /\ Others(r)
<1>1. /\ pc \in [Requests -> Locker!Stages] /\ pc[r] = "holding" /\ on[r] = Upload
    BY DEF Locker!Inv, Locker!TypeOK, Locker!ReleaseLast, Locker!ReleaseHandOver, Locker!Live
<1>2. Locks!Inv
    BY SameLock
<1>3. CASE Locker!ReleaseLast(r)
  <2>1. Locks!ReleaseLast(r)
    BY <1>3 DEF Locks!ReleaseLast, Locker!ReleaseLast, Locks!Live, Locker!Live,
                Locks!Held, Locker!Held, Locks!Vacated, Locker!Vacated
  <2>2. Locks!Inv'
    BY <1>2, <2>1, NobodyHolds, Locks!ReleaseLastInv
  <2>3. pc' = [pc EXCEPT ![r] = "released"]
    BY <1>3 DEF Locker!ReleaseLast
  <2> QED BY <1>1, <2>2, <2>3, SameLock DEF Others
<1>4. CASE Locker!ReleaseHandOver(r)
  <2> DEFINE next == Head(holders[Upload].queue)
  <2>1. Locks!ReleaseHandOver(r)
    BY <1>4 DEF Locks!ReleaseHandOver, Locker!ReleaseHandOver, Locks!Live, Locker!Live,
                Locks!Held, Locker!Held, Locks!NewTenure, Locker!NewTenure,
                Locks!Pressed, Locker!Pressed, Locks!NoLonger, Locker!NoLonger
  <2>2. Locks!Inv'
    BY <1>2, <2>1, NobodyHolds, Locks!ReleaseHandOverInv
  <2>3. pc' = [pc EXCEPT ![r] = "released", ![next] = "holding"]
    BY <1>1, <1>4 DEF Locker!ReleaseHandOver
  <2>4. next \in Requests /\ pc[next] = "waiting"
    <3>1. /\ Locker!Held(Upload) /\ holders[Upload].queue # <<>>
          /\ holders[Upload].queue \in Seq(Requests)
      BY <1>1, <1>4 DEF Locker!ReleaseHandOver, Locker!Inv, Locker!TypeOK, Locker!Held,
                        Locker!Holder
    <3>2. Len(holders[Upload].queue) >= 1 /\ next = holders[Upload].queue[1]
      BY <3>1
    <3>3. Locker!QueueSound(Upload)
      BY <3>1 DEF Locker!Inv, Locker!NoLostWaiter
    <3> QED BY <3>1, <3>2, <3>3 DEF Locker!QueueSound
  <2> HIDE DEF next
  <2> QED BY <1>1, <2>2, <2>3, <2>4, SameLock DEF Others
<1> QED BY <1>3, <1>4

\* A waiter gives up.
LEMMA TimeoutStep ==
    ASSUME Locker!Inv, NEW r \in Requests, Locker!Timeout(r)
    PROVE  Locker!Inv' /\ pc'[r] = "timedOut" /\ Others(r)
<1>1. pc \in [Requests -> Locker!Stages] /\ pc' = [pc EXCEPT ![r] = "timedOut"] /\ Locks!Inv
    BY SameLock DEF Locker!Inv, Locker!TypeOK, Locker!Timeout
<1>2. Locks!Timeout(r)
    BY DEF Locks!Timeout, Locker!Timeout, Locks!Splice, Locker!Splice, Locks!NoLonger,
           Locker!NoLonger
<1>3. Locks!Inv'
    BY <1>1, <1>2, NobodyHolds, Locks!TimeoutInv
<1> QED BY <1>1, <1>3, SameLock DEF Others

\* The lock is one request's at a time.
LEMMA OneHolder ==
    ASSUME Locker!Inv, NEW r \in Requests, NEW q \in Requests, pc[r] = "holding", pc[q] = "holding"
    PROVE  r = q
<1>1. on[r] = Upload /\ on[q] = Upload
    BY DEF Locker!Inv, Locker!TypeOK
<1> QED BY <1>1 DEF Locker!Inv, Locker!PreemptLandsOnHolder

-------------------------------------------------------------------------------
(* A turn: what the request does that has the lock *)

Turn(r) == Working(r) \/ (stage[r] = "locking" /\ Holding(r))
AtWork == {"discarding", "peeking", "writing", "rereading", "completing", "reporting", "releasing"}

\* What the invariant says of one request, beside its lock.
WholeBody(r) ==
    outcome[r].complete /\ outcome[r].kind \in {"created", "appended"} =>
        outcome[r].offset = At(r) + wants[r].sends
WorkSound(r) ==
    WholeBody(r) /\ VerdictSound(r) /\ CallSound(r) /\ CompletionSound(r) /\ OutcomeSound(r)

\* A turn leaves everyone else and the lock alone.
Undisturbed(r) ==
    /\ UNCHANGED <<lockerVars, wants>>
    /\ minted' = minted /\ stored' \subseteq stored
    /\ located' /\ (reported => reported') /\ (delivered' => reported')
    /\ \A q \in Requests \ {r} :
          stage'[q] = stage[q] /\ outcome'[q] = outcome[q] /\ call'[q] = call[q]
    /\ record'[Upload].size >= record[Upload].size

\* The types of what a request is and has.
LEMMA RequestTyped ==
    ASSUME IInv, NEW r \in Requests
    PROVE  /\ wants[r] \in Wants /\ (~wants[r].body => wants[r].sends = 0)
           /\ wants[r].sends \in Nat /\ wants[r].offset \in Nat /\ At(r) \in Nat
           /\ wants[r].contentLength \in Optional /\ wants[r].declaredLength \in Optional
           /\ stage[r] \in Stages /\ durable[r] \in Nat
           /\ outcome[r] \in [kind : Outcomes, offset : Nat, complete : BOOLEAN]
           /\ outcome[r].offset \in Nat
<1>1. wants[r] \in Wanted[r]
    BY DEF IInv
<1>2. wants[r] \in Wants /\ (~wants[r].body => wants[r].sends = 0)
    BY <1>1, WantedAssumption
<1>3. /\ wants[r].sends \in Nat /\ wants[r].offset \in Nat
      /\ wants[r].contentLength \in Optional /\ wants[r].declaredLength \in Optional
    BY <1>2 DEF Wants
<1>4. /\ stage[r] \in Stages /\ durable[r] \in Nat
      /\ outcome[r] \in [kind : Outcomes, offset : Nat, complete : BOOLEAN]
    BY DEF IInv, TypeOK
<1> QED BY <1>2, <1>3, <1>4 DEF At

\* Whoever has a turn has it alone: nobody else is at work, or still to create.
LEMMA Alone ==
    ASSUME IInv, NEW r \in Requests, Turn(r)
    PROVE  /\ Upload \in minted /\ Begun(r) /\ (Working(r) => located)
           /\ \A q \in Requests \ {r} :
                 /\ ~Working(q) /\ ~(Creating(q) /\ Queueing(q))
                 /\ call[q].pc = "idle"
<1>1. Begun(r) /\ Holding(r)
    BY DEF Turn, Working, Begun, IInv, RequestSound, LockSound
<1>2. Upload \in minted /\ (Working(r) => located)
    BY <1>1 DEF IInv, CreationSound, Working
<1>3. ASSUME NEW q \in Requests \ {r}
      PROVE  ~Working(q)
    BY <1>1, OneHolder DEF IInv, RequestSound, LockSound, Holding
<1>4. ASSUME NEW q \in Requests \ {r}
      PROVE  ~(Creating(q) /\ Queueing(q))
    BY <1>1 DEF IInv, CreationSound
<1>5. ASSUME NEW q \in Requests \ {r}
      PROVE  call[q].pc = "idle"
    BY <1>3 DEF IInv, RequestSound, CallSound, Working, Begun, Queueing
<1> QED BY <1>1, <1>2, <1>3, <1>4, <1>5

\* After a turn the others are as sound as they were.
LEMMA OthersSound ==
    ASSUME IInv, NEW r \in Requests, Turn(r), Undisturbed(r), TypeOK',
           NEW q \in Requests \ {r}
    PROVE  RequestSound(q)' /\ WholeBody(q)'
<1>1. /\ stage'[q] = stage[q] /\ outcome'[q] = outcome[q] /\ call'[q] = call[q]
      /\ wants' = wants /\ pc' = pc /\ minted' = minted /\ stored' \subseteq stored
      /\ reported => reported'
      /\ record'[Upload].size >= record[Upload].size
    BY DEF Undisturbed, lockerVars
<1>2. ~Working(q) /\ ~(Creating(q) /\ Queueing(q)) /\ call[q].pc = "idle"
    BY Alone
<1>3. RequestSound(q) /\ WholeBody(q)
    BY DEF IInv, WholeBodyPublished, WholeBody
<1>4. LockSound(q)'
    BY <1>1, <1>3 DEF RequestSound, LockSound, Working, Begun, Queueing, Holding
<1>5. stage'[q] # "writing" /\ ~(Creating(q) /\ Queueing(q))' /\ stage'[q] # "completing"
    BY <1>1, <1>2 DEF Creating, Working, Begun, Queueing
<1>6. VerdictSound(q)' /\ CompletionSound(q)'
    BY <1>5 DEF VerdictSound, CompletionSound
<1>7. call'[q].pc = "idle"
    BY <1>1, <1>2
<1>8. CallSound(q)'
    BY <1>7 DEF CallSound
<1>9. OutcomeSound(q)'
  <2>1. /\ record[Upload].size \in Nat /\ record'[Upload].size >= record[Upload].size
        /\ outcome[q].kind \in Telling => record[Upload].size >= outcome[q].offset
        /\ outcome[q].offset \in Nat
        /\ outcome[q].kind \in Telling => stage[q] = "answered"
    BY <1>1, <1>2, <1>3, RequestTyped, StoreTyped
       DEF RequestSound, OutcomeSound, Working, Begun, Queueing, IInv, TypeOK
  <2>2. record'[Upload].size \in Nat
    BY DEF TypeOK, Store!TypeOK, Store!Record
  <2>3. outcome[q].kind \in Telling => record'[Upload].size >= outcome[q].offset
    BY <2>1, <2>2
  <2> QED BY <1>1, <1>3, <2>1, <2>3 DEF RequestSound, OutcomeSound, Decided, Found
<1>10. WholeBody(q)'
    BY <1>1, <1>3 DEF WholeBody, At
<1> QED BY <1>4, <1>6, <1>8, <1>9, <1>10 DEF RequestSound

\* A turn keeps the invariant if it leaves its own request and the record sound.
LEMMA TurnKeeps ==
    ASSUME IInv, NEW r \in Requests, Turn(r), Undisturbed(r), TypeOK',
           stage'[r] \in AtWork, WorkSound(r)', RecordSound'
    PROVE  IInv'
<1>1. Upload \in minted /\ Begun(r) /\ Holding(r)
    BY Alone DEF Turn, IInv, RequestSound, LockSound
<1>2. LockSound(r)'
    BY <1>1 DEF Undisturbed, lockerVars, AtWork, LockSound, Working, Holding, Queueing
<1>3. RequestSound(r)' /\ WholeBody(r)'
    BY <1>2 DEF WorkSound, RequestSound
<1>4. \A q \in Requests : RequestSound(q)' /\ WholeBody(q)'
    BY <1>3, OthersSound
<1>5. WholeBodyPublished'
    BY <1>4 DEF WholeBodyPublished, WholeBody
<1>6. Locker!Inv'
    BY DEF IInv, Undisturbed, lockerVars, Locker!Inv, Locker!TypeOK, Locker!PreemptLandsOnHolder,
           Locker!NoLostWaiter, Locker!WaiterHasPreempted, Locker!Held, Locker!Queued,
           Locker!QueueSound
<1>7. \A q \in Requests : wants'[q] \in Wanted[q]
    BY DEF IInv, Undisturbed
<1>8. CreationSound'
  <2>1. located' /\ minted' = minted /\ wants' = wants /\ Upload \in minted'
    BY <1>1 DEF Undisturbed
  <2>2. \A q \in Requests : Creating(q)' => Creating(q)
    BY <1>1 DEF Undisturbed, Creating, Begun
  <2>3. \A q \in Requests : ~(Creating(q)' /\ Queueing(q)')
    <3>1. ~Queueing(r)'
      BY DEF Queueing, AtWork
    <3>2. ASSUME NEW q \in Requests \ {r}
          PROVE  ~(Creating(q)' /\ Queueing(q)')
      BY Alone DEF Undisturbed, Creating, Queueing, Begun
    <3> QED BY <3>1, <3>2
  <2>4. \A q \in Requests : stage'[q] = "allocated" => Creating(q)'
    <3>1. stage'[r] # "allocated"
      BY DEF AtWork
    <3>2. ASSUME NEW q \in Requests \ {r}, stage'[q] = "allocated"
          PROVE  Creating(q)'
      <4>1. stage[q] = "allocated" /\ Creating(q)
        BY <3>2 DEF Undisturbed, IInv, CreationSound
      <4> QED BY <2>1, <3>2, <4>1 DEF Creating, Begun
    <3> QED BY <3>1, <3>2
  <2>5. \A p, q \in Requests : Creating(p)' /\ Creating(q)' => p = q
    BY <2>2 DEF IInv, CreationSound
  <2> QED BY <2>1, <2>3, <2>4, <2>5 DEF CreationSound
<1>9. delivered' => reported'
    BY DEF Undisturbed
<1> QED BY <1>4, <1>5, <1>6, <1>7, <1>8, <1>9 DEF IInv

\* What a request's own step does to the requests: its stage, its outcome and its
\* durable length may change, and stay typed.
Moved(r) ==
    /\ stage' \in [Requests -> Stages] /\ durable' \in [Requests -> Nat]
    /\ outcome' \in [Requests -> [kind : Outcomes, offset : Nat, complete : BOOLEAN]]
    /\ \A q \in Requests \ {r} : stage'[q] = stage[q] /\ outcome'[q] = outcome[q]

\* Steps are made of these.
LEMMA Moving ==
    ASSUME TypeOK, NEW r \in Requests, NEW to \in Stages,
           stage' = stage \/ Goes(r, to),
           \/ outcome' = outcome
           \/ \E kind \in Outcomes, offset \in Nat, complete \in BOOLEAN :
                 Answers(r, kind, offset, complete),
           \/ durable' = durable
           \/ \E offset \in Nat : durable' = [durable EXCEPT ![r] = offset]
    PROVE  Moved(r) /\ (Goes(r, to) => stage'[r] = to)
           /\ \A kind, offset, complete :
                 Answers(r, kind, offset, complete) =>
                    outcome'[r] = Outcome(kind, offset, complete)
<1>1. /\ stage \in [Requests -> Stages] /\ durable \in [Requests -> Nat]
      /\ outcome \in [Requests -> [kind : Outcomes, offset : Nat, complete : BOOLEAN]]
    BY DEF TypeOK
<1>2. stage' \in [Requests -> Stages] /\ \A q \in Requests \ {r} : stage'[q] = stage[q]
    BY <1>1 DEF Goes
<1>3. durable' \in [Requests -> Nat]
    BY <1>1
<1>4. /\ outcome' \in [Requests -> [kind : Outcomes, offset : Nat, complete : BOOLEAN]]
      /\ \A q \in Requests \ {r} : outcome'[q] = outcome[q]
  <2>1. CASE outcome' = outcome
    BY <1>1, <2>1
  <2>2. ASSUME NEW kind \in Outcomes, NEW offset \in Nat, NEW complete \in BOOLEAN,
               Answers(r, kind, offset, complete)
        PROVE  /\ outcome' \in [Requests -> [kind : Outcomes, offset : Nat, complete : BOOLEAN]]
               /\ \A q \in Requests \ {r} : outcome'[q] = outcome[q]
    <3>1. Outcome(kind, offset, complete) \in [kind : Outcomes, offset : Nat, complete : BOOLEAN]
      BY DEF Outcome
    <3> QED BY <1>1, <2>2, <3>1 DEF Answers
  <2> QED BY <2>1, <2>2
<1>5. Goes(r, to) => stage'[r] = to
    BY <1>1 DEF Goes
<1>6. \A kind, offset, complete :
         Answers(r, kind, offset, complete) => outcome'[r] = Outcome(kind, offset, complete)
    BY <1>1 DEF Answers
<1> QED BY <1>2, <1>3, <1>4, <1>5, <1>6 DEF Moved

\* The state after a request's own step is typed.
LEMMA TurnTyped ==
    ASSUME IInv, NEW r \in Requests, Moved(r), Store!TypeOK', UNCHANGED <<lockerVars, clientVars>>,
           located' \in BOOLEAN, delivered' \in BOOLEAN, reported' \in BOOLEAN
    PROVE  TypeOK'
    BY DEF IInv, TypeOK, Moved, lockerVars, clientVars, Locker!TypeOK

\* Where the tail of a write leads to: on to completion only if the write was not
\* interrupted and nothing is missing of the total.
Concluded(r, v, offset, interrupted) ==
    \/ /\ stage'[r] = "completing" /\ outcome'[r] = outcome[r]
       /\ v.completes /\ ~interrupted /\ v.completesAt \in {Unset, offset}
    \/ /\ stage'[r] = "releasing"
       /\ \E kind \in {"created", "appended", "length-inconsistent", "limit-violation"} :
             outcome'[r] = Outcome(kind, offset, FALSE)

\* It leads nowhere else.
LEMMA Concluding ==
    ASSUME TypeOK, NEW r \in Requests, NEW v, NEW offset \in Nat, NEW interrupted \in BOOLEAN,
           Concludes(r, v, offset, interrupted)
    PROVE  Moved(r) /\ durable'[r] = offset /\ Concluded(r, v, offset, interrupted)
<1> DEFINE written == IF wants[r].op = "create" THEN "created" ELSE "appended"
<1>1. durable \in [Requests -> Nat] /\ durable' = [durable EXCEPT ![r] = offset]
    BY DEF TypeOK, Concludes
<1>2. ASSUME NEW kind \in {"created", "appended", "length-inconsistent", "limit-violation"},
             Goes(r, "releasing"), Answers(r, kind, offset, FALSE)
      PROVE  /\ Moved(r) /\ stage'[r] = "releasing"
             /\ outcome'[r] = Outcome(kind, offset, FALSE)
  <2>1. kind \in Outcomes /\ "releasing" \in Stages
    BY DEF Outcomes, Stages
  <2>2. \E k \in Outcomes, o \in Nat, complete \in BOOLEAN : Answers(r, k, o, complete)
    BY <1>2, <2>1
  <2>3. \E o \in Nat : durable' = [durable EXCEPT ![r] = o]
    BY <1>1
  <2>4. Moved(r)
    BY <1>2, <2>1, <2>2, <2>3, Moving
  <2>5. stage'[r] = "releasing" /\ outcome'[r] = Outcome(kind, offset, FALSE)
    BY <1>2 DEF TypeOK, Goes, Answers
  <2> QED BY <2>4, <2>5
<1>3. CASE StatedShort(wants[r], interrupted, v.completesAt, offset)
    BY <1>1, <1>2, <1>3 DEF Concludes, Concluded
<1>4. CASE /\ ~StatedShort(wants[r], interrupted, v.completesAt, offset)
           /\ ~CompletionDue(v, interrupted, offset)
    BY <1>1, <1>2, <1>4 DEF Concludes, Concluded
<1>5. CASE /\ ~StatedShort(wants[r], interrupted, v.completesAt, offset)
           /\ CompletionDue(v, interrupted, offset) /\ BelowMinSize(Policy, offset)
    BY <1>1, <1>2, <1>5 DEF Concludes, Concluded
<1>6. CASE /\ ~StatedShort(wants[r], interrupted, v.completesAt, offset)
           /\ CompletionDue(v, interrupted, offset) /\ ~BelowMinSize(Policy, offset)
  <2>1. Goes(r, "completing") /\ outcome' = outcome /\ "completing" \in Stages
    BY <1>6 DEF Concludes, Stages
  <2>2. Moved(r) /\ stage'[r] = "completing"
    BY <1>1, <2>1, Moving
  <2> QED BY <1>1, <1>6, <2>1, <2>2 DEF CompletionDue, Concluded
<1> QED BY <1>3, <1>4, <1>5, <1>6

\* A step that goes on, its outcome as it was.
LEMMA Going ==
    ASSUME TypeOK, NEW r \in Requests, NEW to \in Stages, Goes(r, to),
           UNCHANGED <<outcome, durable>>
    PROVE  Moved(r) /\ stage'[r] = to /\ outcome'[r] = outcome[r]
<1>1. Moved(r)
    BY Moving
<1> QED BY <1>1 DEF TypeOK, Goes

\* A step that decides an outcome.
LEMMA Deciding ==
    ASSUME TypeOK, NEW r \in Requests, NEW to \in Stages, NEW kind \in Outcomes,
           NEW offset \in Nat, NEW complete \in BOOLEAN,
           Goes(r, to), Answers(r, kind, offset, complete), durable' = durable
    PROVE  /\ Moved(r) /\ stage'[r] = to
           /\ outcome'[r].kind = kind /\ outcome'[r].offset = offset
           /\ outcome'[r].complete <=> complete
<1>1. \E k \in Outcomes, o \in Nat, c \in BOOLEAN : Answers(r, k, o, c)
    OBVIOUS
<1>2. Moved(r)
    BY <1>1, Moving
<1>3. stage'[r] = to /\ outcome'[r] = Outcome(kind, offset, complete)
    BY DEF TypeOK, Goes, Answers
<1> QED BY <1>2, <1>3 DEF Outcome

\* A turn in which nothing is stored.
LEMMA QuietTurn ==
    ASSUME IInv, NEW r \in Requests, Turn(r), Moved(r),
           UNCHANGED <<lockerVars, storeVars, clientVars>>, located',
           located' \in BOOLEAN, delivered' \in BOOLEAN, reported' \in BOOLEAN,
           reported => reported', delivered' => reported'
    PROVE  Undisturbed(r) /\ TypeOK' /\ RecordSound' /\ UNCHANGED <<record, call, stored>>
<1>1. UNCHANGED <<minted, stored, record, objects, call, editions, sealedOver, wants, graced>>
      /\ UNCHANGED lockerVars
    BY DEF storeVars, clientVars
<1>2. Store!TypeOK'
    BY <1>1 DEF IInv, TypeOK, Store!TypeOK, yielding
<1>3. TypeOK'
    BY <1>2, TurnTyped
<1>4. RecordSound'
    BY <1>1 DEF IInv, RecordSound
<1>5. record[Upload].size \in Nat
    BY StoreTyped DEF IInv, TypeOK
<1>6. record'[Upload].size >= record[Upload].size
    BY <1>1, <1>5
<1> QED BY <1>1, <1>3, <1>4, <1>6 DEF Undisturbed, Moved

\* A turn with a step of the store.
LEMMA StoreTurn ==
    ASSUME IInv, NEW r \in Requests, Working(r), Moved(r), StoreStep(r),
           UNCHANGED <<lockerVars, clientVars, located, delivered, reported>>
    PROVE  Undisturbed(r) /\ TypeOK' /\ Turn(r)
<1>1. located /\ Turn(r)
    BY Alone DEF Turn
<1>2. TypeOK'
    BY TurnTyped DEF IInv, TypeOK, StoreStep
<1> QED BY <1>1, <1>2 DEF Undisturbed, Moved, StoreStep, clientVars, IInv

\* A turn that neither writes nor completes afterwards has its outcome to account
\* for, and no call.
LEMMA OutcomeKeeps ==
    ASSUME IInv, NEW r \in Requests, Turn(r), Undisturbed(r), TypeOK', RecordSound',
           stage'[r] \in AtWork \ {"writing", "completing"}, call'[r].pc = "idle",
           OutcomeSound(r)', WholeBody(r)'
    PROVE  IInv'
<1>1. ~Queueing(r)' /\ stage'[r] # "writing" /\ stage'[r] # "completing" /\ stage'[r] \in AtWork
    BY DEF AtWork, Queueing
<1>2. VerdictSound(r)' /\ CompletionSound(r)'
    BY <1>1 DEF VerdictSound, CompletionSound
<1>3. CallSound(r)'
    BY DEF CallSound
<1> QED BY <1>1, <1>2, <1>3, TurnKeeps DEF WorkSound

\* A turn that ends with an outcome that completes nothing: what it tells is what
\* is stored.
LEMMA EndKeeps ==
    ASSUME IInv, NEW r \in Requests, Turn(r), Undisturbed(r), TypeOK', RecordSound',
           stage'[r] = "releasing", call'[r].pc = "idle", ~outcome'[r].complete,
           outcome'[r].kind \notin Condemning,
           outcome'[r].kind \in Telling => record'[Upload].size = outcome'[r].offset
    PROVE  IInv'
<1>1. WholeBody(r)'
    BY DEF WholeBody
<1>2. record'[Upload].size \in Nat
    BY DEF TypeOK, Store!TypeOK, Store!Record
<1>3. OutcomeSound(r)'
    BY <1>2 DEF OutcomeSound
<1> QED BY <1>1, <1>3, OutcomeKeeps DEF AtWork

-------------------------------------------------------------------------------
(* Steps that keep the invariant *)

\* A body that has a byte refuses the repeat of a completed request.
LEMMA PeekFindsContentKeeps ==
    ASSUME IInv, NEW r \in Requests, PeekFindsContent(r) PROVE IInv'
<1>1. /\ Working(r) /\ Turn(r) /\ call[r].pc = "idle"
    BY DEF PeekFindsContent, Working, Begun, Queueing, Turn, IInv, RequestSound, CallSound
<1>2. Goes(r, "releasing") /\ Answers(r, "length-inconsistent", 0, FALSE) /\ durable' = durable
    BY DEF PeekFindsContent, Ends
<1>3. "releasing" \in Stages /\ "length-inconsistent" \in Outcomes /\ 0 \in Nat /\ FALSE \in BOOLEAN
    BY DEF Stages, Outcomes
<1>4. /\ Moved(r) /\ stage'[r] = "releasing"
      /\ outcome'[r].kind = "length-inconsistent" /\ ~outcome'[r].complete
    BY <1>2, <1>3, Deciding DEF IInv
<1>5. Undisturbed(r) /\ TypeOK' /\ RecordSound' /\ UNCHANGED <<record, call, stored>>
    BY <1>1, <1>4, Alone, QuietTurn DEF PeekFindsContent, IInv, TypeOK
<1> QED BY <1>1, <1>4, <1>5, EndKeeps DEF Condemning, Telling

\* One that has none is answered for what is stored.
LEMMA PeekFindsNothingKeeps ==
    ASSUME IInv, NEW r \in Requests, PeekFindsNothing(r) PROVE IInv'
<1>1. /\ Working(r) /\ Turn(r) /\ call[r].pc = "idle"
    BY DEF PeekFindsNothing, Working, Begun, Queueing, Turn, IInv, RequestSound, CallSound
<1>2. /\ Goes(r, "reporting") /\ Answers(r, "already-complete", record[Upload].size, TRUE)
      /\ durable' = durable
    BY DEF PeekFindsNothing, ReportsFirst, State
<1>3. "reporting" \in Stages /\ "already-complete" \in Outcomes /\ record[Upload].size \in Nat
    BY StoreTyped DEF Stages, Outcomes, IInv, TypeOK
<1>4. /\ Moved(r) /\ stage'[r] = "reporting"
      /\ outcome'[r].kind = "already-complete" /\ outcome'[r].offset = record[Upload].size
      /\ outcome'[r].complete
    BY <1>2, <1>3, Deciding, ZenonT(60) DEF IInv
<1>5. Undisturbed(r) /\ TypeOK' /\ RecordSound' /\ UNCHANGED <<record, call, stored>>
    BY <1>1, <1>4, Alone, QuietTurn DEF PeekFindsNothing, IInv, TypeOK
<1>6. WholeBody(r)' /\ OutcomeSound(r)'
    BY <1>3, <1>4, <1>5 DEF WholeBody, OutcomeSound, Condemning, Telling
<1> QED BY <1>1, <1>4, <1>5, <1>6, OutcomeKeeps DEF AtWork

\* A report that is known to have been delivered is not made again.
LEMMA ReportKnownKeeps ==
    ASSUME IInv, NEW r \in Requests, ReportKnown(r) PROVE IInv'
<1>1. /\ Working(r) /\ Turn(r) /\ call[r].pc = "idle" /\ reported
      /\ OutcomeSound(r) /\ WholeBody(r)
    BY DEF ReportKnown, Working, Begun, Queueing, Turn, IInv, RequestSound, CallSound,
           WholeBodyPublished, WholeBody
<1>2. Goes(r, "releasing") /\ "releasing" \in Stages /\ UNCHANGED <<outcome, durable>>
    BY DEF ReportKnown, Stages
<1>3. Moved(r) /\ stage'[r] = "releasing" /\ outcome'[r] = outcome[r]
    BY <1>2, Going DEF IInv
<1>4. Undisturbed(r) /\ TypeOK' /\ RecordSound' /\ UNCHANGED <<record, call, stored>>
    BY <1>1, <1>3, Alone, QuietTurn DEF ReportKnown, IInv, TypeOK
<1>5. WholeBody(r)' /\ OutcomeSound(r)' /\ reported'
    BY <1>1, <1>3, <1>4 DEF ReportKnown, Undisturbed, WholeBody, At, OutcomeSound, Condemning,
                             Telling, Decided
<1> QED BY <1>1, <1>3, <1>4, <1>5, OutcomeKeeps DEF AtWork

\* A hook that resolves has reported the upload.
LEMMA HookResolvesKeeps ==
    ASSUME IInv, NEW r \in Requests, HookResolves(r) PROVE IInv'
<1>1. /\ Working(r) /\ Turn(r) /\ call[r].pc = "idle" /\ reported'
      /\ OutcomeSound(r) /\ WholeBody(r) /\ delivered' \in BOOLEAN /\ reported' \in BOOLEAN
    BY DEF HookResolves, Working, Begun, Queueing, Turn, IInv, RequestSound, CallSound,
           WholeBodyPublished, WholeBody
<1>2. Goes(r, "releasing") /\ "releasing" \in Stages /\ UNCHANGED <<outcome, durable>>
    BY DEF HookResolves, Stages
<1>3. Moved(r) /\ stage'[r] = "releasing" /\ outcome'[r] = outcome[r]
    BY <1>2, Going DEF IInv
<1>4. Undisturbed(r) /\ TypeOK' /\ RecordSound' /\ UNCHANGED <<record, call, stored>>
    BY <1>1, <1>3, Alone, QuietTurn DEF HookResolves, IInv, TypeOK
<1>5. WholeBody(r)' /\ OutcomeSound(r)'
    BY <1>1, <1>3, <1>4 DEF HookResolves, Undisturbed, WholeBody, At, OutcomeSound, Condemning,
                             Telling, Decided
<1> QED BY <1>1, <1>3, <1>4, <1>5, OutcomeKeeps DEF AtWork

\* A hook that throws ends the request with an error.
LEMMA HookThrowsKeeps ==
    ASSUME IInv, NEW r \in Requests, HookThrows(r) PROVE IInv'
<1>1. /\ Working(r) /\ Turn(r) /\ call[r].pc = "idle"
    BY DEF HookThrows, Working, Begun, Queueing, Turn, IInv, RequestSound, CallSound
<1>2. PICK kind \in {"raised", "store-error"} :
         Goes(r, "releasing") /\ Answers(r, kind, 0, FALSE) /\ durable' = durable
    BY DEF HookThrows, Ends
<1>3. "releasing" \in Stages /\ kind \in Outcomes /\ 0 \in Nat /\ FALSE \in BOOLEAN
    BY <1>2 DEF Stages, Outcomes
<1>4. /\ Moved(r) /\ stage'[r] = "releasing"
      /\ outcome'[r].kind = kind /\ ~outcome'[r].complete
    BY <1>2, <1>3, Deciding DEF IInv
<1>5. Undisturbed(r) /\ TypeOK' /\ RecordSound' /\ UNCHANGED <<record, call, stored>>
    BY <1>1, <1>4, Alone, QuietTurn DEF HookThrows, IInv, TypeOK
<1> QED BY <1>1, <1>2, <1>4, <1>5, EndKeeps DEF Condemning, Telling

\* The tail of a write, or of none: what it tells is stored, and what it completes
\* is the whole body.
LEMMA ConcludeKeeps ==
    ASSUME IInv, NEW r \in Requests, Turn(r), Undisturbed(r), TypeOK', RecordSound',
           NEW v, NEW offset \in Nat, NEW interrupted \in BOOLEAN,
           Concludes(r, v, offset, interrupted), call'[r].pc = "idle", outcome[r] = NoOutcome,
           record'[Upload].size = offset,
           v.completes /\ ~interrupted /\ v.completesAt \in {Unset, offset} =>
              /\ offset = At(r) + wants[r].sends
              /\ record'[Upload].length \in {Unset, offset}
    PROVE  IInv'
<1>1. durable'[r] = offset /\ Concluded(r, v, offset, interrupted)
    BY Concluding DEF IInv
<1>2. wants' = wants
    BY DEF Undisturbed
<1>3. CASE /\ stage'[r] = "completing" /\ outcome'[r] = outcome[r]
           /\ v.completes /\ ~interrupted /\ v.completesAt \in {Unset, offset}
  <2>1. CompletionSound(r)'
    BY <1>1, <1>2, <1>3 DEF CompletionSound, At
  <2>2. VerdictSound(r)' /\ CallSound(r)'
    BY <1>3 DEF VerdictSound, Queueing, CallSound
  <2>3. outcome'[r].kind = "none" /\ ~outcome'[r].complete /\ outcome'[r] = NoOutcome
    BY <1>3 DEF NoOutcome, Outcome
  <2>4. OutcomeSound(r)' /\ WholeBody(r)'
    BY <2>3 DEF OutcomeSound, WholeBody, Condemning, Telling
  <2> QED BY <1>3, <2>1, <2>2, <2>4, TurnKeeps DEF WorkSound, AtWork
<1>4. ASSUME NEW kind \in {"created", "appended", "length-inconsistent", "limit-violation"},
             stage'[r] = "releasing", outcome'[r] = Outcome(kind, offset, FALSE)
      PROVE  IInv'
  <2>1. outcome'[r].kind = kind /\ outcome'[r].offset = offset /\ ~outcome'[r].complete
    BY <1>4 DEF Outcome
  <2> QED BY <1>4, <2>1, EndKeeps DEF Condemning
<1> QED BY <1>1, <1>3, <1>4 DEF Concluded

\* An interrupted write is answered for what is stored.
LEMMA RereadKeeps ==
    ASSUME IInv, NEW r \in Requests, Reread(r) PROVE IInv'
<1>1. /\ Working(r) /\ Turn(r) /\ call[r].pc = "idle" /\ outcome[r] = NoOutcome
      /\ record[Upload].size \in Nat
    BY StoreTyped DEF Reread, Working, Begun, Queueing, Turn, IInv, TypeOK, RequestSound,
                      CallSound, OutcomeSound
<1>2. CASE Found
  <2>1. Concludes(r, verdict[r], record[Upload].size, TRUE)
    BY <1>2 DEF Reread, Reconciled, State
  <2>2. Moved(r)
    BY <1>1, <2>1, Concluding DEF IInv
  <2>3. Undisturbed(r) /\ TypeOK' /\ RecordSound' /\ UNCHANGED <<record, call, stored>>
    BY <1>1, <2>2, Alone, QuietTurn DEF Reread, IInv, TypeOK
  <2>4. record'[Upload].size = record[Upload].size /\ call'[r].pc = "idle"
    BY <1>1, <2>3
  <2> QED BY <1>1, <2>1, <2>3, <2>4, ConcludeKeeps
<1>3. CASE ~Found
  <2>1. Goes(r, "releasing") /\ Answers(r, "not-found", 0, FALSE) /\ durable' = durable
    BY <1>3 DEF Reread, Ends
  <2>2. "releasing" \in Stages /\ "not-found" \in Outcomes /\ 0 \in Nat /\ FALSE \in BOOLEAN
    BY DEF Stages, Outcomes
  <2>3. /\ Moved(r) /\ stage'[r] = "releasing"
        /\ outcome'[r].kind = "not-found" /\ ~outcome'[r].complete
    BY <2>1, <2>2, Deciding DEF IInv
  <2>4. Undisturbed(r) /\ TypeOK' /\ RecordSound' /\ UNCHANGED <<record, call, stored>>
    BY <1>1, <2>3, Alone, QuietTurn DEF Reread, IInv, TypeOK
  <2> QED BY <1>1, <2>3, <2>4, EndKeeps DEF Condemning, Telling
<1> QED BY <1>2, <1>3

\* A creation's first turn under its lock.
LEMMA BeginCreationKeeps ==
    ASSUME IInv, NEW r \in Requests, BeginCreation(r) PROVE IInv'
<1>1. /\ Turn(r) /\ call[r].pc = "idle" /\ outcome[r] = NoOutcome
      /\ Creating(r) /\ Queueing(r) /\ ~located /\ VerdictSound(r)
      /\ wants[r].op = "create" /\ (~wants[r].body => wants[r].sends = 0)
    BY RequestTyped
       DEF BeginCreation, Creating, Begun, Queueing, Turn, IInv, TypeOK, RequestSound,
           CallSound, OutcomeSound, CreationSound
<1>2. /\ record[Upload].size = 0 /\ record[Upload].length \in Optional
      /\ Total(r) = record[Upload].length
    BY <1>1, StoreTyped DEF IInv, TypeOK, CreationSound, VerdictSound, Total, Or, BeginCreation
<1>3. located' /\ located' \in BOOLEAN /\ delivered' \in BOOLEAN /\ reported' \in BOOLEAN
      /\ UNCHANGED <<lockerVars, storeVars, clientVars, verdict>>
      /\ (reported => reported') /\ (delivered' => reported')
    BY DEF BeginCreation, IInv, TypeOK
<1>4. CASE wants[r].body
  <2>1. Goes(r, "writing") /\ UNCHANGED <<outcome, durable>> /\ "writing" \in Stages
    BY <1>4 DEF BeginCreation, Stages
  <2>2. Moved(r) /\ stage'[r] = "writing" /\ outcome'[r] = outcome[r]
    BY <2>1, Going DEF IInv
  <2>3. Undisturbed(r) /\ TypeOK' /\ RecordSound' /\ UNCHANGED <<record, call, stored>>
    BY <1>1, <1>3, <2>2, QuietTurn
  <2>4. VerdictSound(r)'
    <3>1. /\ UNCHANGED <<record, verdict, wants>>
      BY <1>3, <2>3 DEF Undisturbed
    <3> QED BY <1>1, <3>1 DEF VerdictSound, Total, At, BeginCreation
  <2>5. CallSound(r)' /\ CompletionSound(r)'
    BY <1>1, <2>2, <2>3 DEF CallSound, CompletionSound
  <2>6. OutcomeSound(r)' /\ WholeBody(r)'
    <3>1. outcome'[r] = NoOutcome /\ outcome'[r].kind = "none" /\ ~outcome'[r].complete
      BY <1>1, <2>2 DEF NoOutcome, Outcome
    <3> QED BY <3>1 DEF OutcomeSound, WholeBody, Condemning, Telling
  <2> QED BY <1>1, <2>2, <2>3, <2>4, <2>5, <2>6, TurnKeeps DEF WorkSound, AtWork
<1>5. CASE ~wants[r].body
  <2>1. Concludes(r, verdict[r], 0, FALSE) /\ 0 \in Nat /\ FALSE \in BOOLEAN
    BY <1>5 DEF BeginCreation
  <2>2. Moved(r)
    BY <2>1, Concluding DEF IInv
  <2>3. Undisturbed(r) /\ TypeOK' /\ RecordSound' /\ UNCHANGED <<record, call, stored>>
    BY <1>1, <1>3, <2>2, QuietTurn
  <2>4. At(r) = 0 /\ wants[r].sends = 0
    BY <1>1, <1>5, RequestTyped DEF At
  <2>5. verdict[r].completes => verdict[r].completesAt = record[Upload].length
    BY <1>1, <1>2 DEF VerdictSound
  <2>6. /\ record'[Upload].size = 0 /\ record'[Upload].length = record[Upload].length
        /\ call'[r].pc = "idle"
    BY <1>1, <1>2, <2>3
  <2>7. verdict[r].completes /\ ~FALSE /\ verdict[r].completesAt \in {Unset, 0} =>
           0 = At(r) + wants[r].sends /\ record'[Upload].length \in {Unset, 0}
    BY <2>4, <2>5, <2>6
  <2> QED BY <1>1, <2>1, <2>3, <2>6, <2>7, ConcludeKeeps
<1> QED BY <1>4, <1>5

\* A step of the store in the middle of a write or a completion.
LEMMA StayKeeps ==
    ASSUME IInv, NEW r \in Requests, stage[r] \in {"writing", "completing"}, StoreStep(r),
           UNCHANGED <<lockerVars, clientVars, ownVars>>,
           RecordSound', VerdictSound(r)', CallSound(r)', CompletionSound(r)'
    PROVE  IInv'
<1>1. /\ Working(r) /\ outcome[r] = NoOutcome
      /\ UNCHANGED <<stage, verdict, durable, outcome, located, delivered, reported>>
    BY DEF Working, Begun, Queueing, IInv, RequestSound, OutcomeSound, ownVars
<1>2. Moved(r)
    BY <1>1 DEF Moved, IInv, TypeOK
<1>3. Undisturbed(r) /\ TypeOK' /\ Turn(r)
    BY <1>1, <1>2, StoreTurn
<1>4. outcome'[r] = NoOutcome /\ outcome'[r].kind = "none" /\ ~outcome'[r].complete
    BY <1>1 DEF NoOutcome, Outcome
<1>5. OutcomeSound(r)' /\ WholeBody(r)'
    BY <1>4 DEF OutcomeSound, WholeBody, Condemning, Telling
<1>6. stage'[r] \in AtWork
    BY <1>1 DEF AtWork
<1> QED BY <1>3, <1>5, <1>6, TurnKeeps DEF WorkSound

\* What is known of a request that writes.
LEMMA WhileWriting ==
    ASSUME IInv, NEW r \in Requests, stage[r] = "writing"
    PROVE  /\ VerdictSound(r) /\ CallSound(r) /\ RecordSound
           /\ verdict[r].declaredLength \in Optional /\ verdict[r].bound.maxBytes \in Optional
           /\ verdict[r].bound.maxBytesFatal \in BOOLEAN
           /\ record[Upload].length \in Optional /\ record[Upload].size \in Nat
           /\ Total(r) \in Optional
    BY StoreTyped DEF IInv, TypeOK, RequestSound, VerdictSound, Total, Or

\* The length a write records is the total its verdict promised, which covers all
\* that is there.
LEMMA LengthTaken ==
    ASSUME IInv, NEW r \in Requests, stage[r] = "writing", NEW length,
           length = IF wants[r].op = "create" THEN Unset ELSE verdict[r].declaredLength,
           record'[Upload].length = Or(record[Upload].length, length),
           record'[Upload].size = record[Upload].size, record[Upload].size = At(r),
           ~record'[Upload].isComplete, UNCHANGED <<wants, verdict>>
    PROVE  RecordSound' /\ VerdictSound(r)' /\ record'[Upload].length = Total(r)'
<1> DEFINE v == verdict[r]
           had == record[Upload].length
<1>1. /\ v.declaredLength \in Optional /\ had \in Optional /\ VerdictSound(r)
      /\ v.bound.maxBytes \in Optional /\ record[Upload].size \in Nat
    BY WhileWriting
<1>2. /\ wants[r].op = "create" => had = v.declaredLength
      /\ v.completes => v.completesAt = Total(r)
      /\ Total(r) # Unset => v.bound.maxBytes # Unset /\ At(r) + v.bound.maxBytes <= Total(r)
    BY <1>1 DEF VerdictSound
<1>3. record'[Upload].length = Total(r) /\ Total(r)' = Total(r)
    BY <1>2 DEF Total, Or
<1>4. Total(r) # Unset => record[Upload].size <= Total(r)
    BY <1>1, <1>2, UnsetAssumption DEF Total, Or, Optional
<1>5. ~Over(record'[Upload].size, record'[Upload].length)
  <2>1. Total(r) \in Optional
    BY <1>1 DEF Total, Or
  <2> QED BY <1>1, <1>3, <1>4, <2>1 DEF Over, Optional
<1>6. RecordSound'
    BY <1>5 DEF RecordSound
<1>7. At(r)' = At(r)
    BY DEF At
<1>8. wants[r].op = "create" => record'[Upload].length = v.declaredLength
    BY <1>2 DEF Or
<1>9. VerdictSound(r)'
    BY <1>1, <1>2, <1>3, <1>7, <1>8 DEF VerdictSound
<1> QED BY <1>3, <1>6, <1>9

\* A write that starts, or is refused.
LEMMA StartWriteKeeps ==
    ASSUME IInv, NEW r \in Requests, StartWrite(r) PROVE IInv'
<1> DEFINE v == verdict[r]
           length == IF wants[r].op = "create" THEN Unset ELSE v.declaredLength
<1>1. /\ stage[r] = "writing" /\ Store!TypeOK /\ graced' \subseteq Requests /\ At(r) \in Nat
      /\ UNCHANGED <<lockerVars, clientVars, ownVars>> /\ UNCHANGED <<wants, verdict, stage>>
      /\ At(r)' = At(r)
    BY RequestTyped DEF StartWrite, IInv, TypeOK, clientVars, ownVars, At
<1>2. /\ VerdictSound(r) /\ CallSound(r) /\ RecordSound
      /\ v.declaredLength \in Optional /\ v.bound.maxBytes \in Optional
      /\ v.bound.maxBytesFatal \in BOOLEAN
    BY <1>1, WhileWriting
<1>3. length \in Optional
    BY <1>2 DEF Optional
<1>4. CompletionSound(r)'
    BY <1>1 DEF CompletionSound
<1>5. CASE Store!AppendRefused(r, Upload, At(r))
  <2>1. /\ StoreStep(r) /\ record' = record
        /\ call'[r].pc = "settled" /\ call'[r].upload = Upload
        /\ call'[r].answer.kind = "wrote" => call'[r].answer.interrupted
    BY <1>1, <1>5, AppendRefusedStep
  <2>2. RecordSound' /\ VerdictSound(r)'
    BY <1>1, <1>2, <2>1 DEF RecordSound, VerdictSound, Total
  <2>3. CallSound(r)'
    BY <1>1, <2>1 DEF CallSound
  <2> QED BY <1>1, <1>4, <2>1, <2>2, <2>3, StayKeeps
<1>6. CASE /\ wants[r].body
           /\ Store!AppendBegins(r, Upload, At(r), v.bound.maxBytes, v.bound.maxBytesFatal,
                                 length)
  <2>1. /\ StoreStep(r)
        /\ call'[r].pc = "streaming" /\ call'[r].upload = Upload /\ call'[r].offset = At(r)
        /\ call'[r].max = v.bound.maxBytes /\ call'[r].flushed = 0
        /\ At(r) = record[Upload].size /\ record'[Upload].size = record[Upload].size
        /\ record'[Upload].length = Or(record[Upload].length, length)
        /\ ~record[Upload].isComplete
        /\ record'[Upload].isComplete = record[Upload].isComplete
    BY <1>1, <1>2, <1>3, <1>6, AppendBeginsStep
  <2>2. RecordSound' /\ VerdictSound(r)' /\ record'[Upload].length = Total(r)'
    BY <1>1, <2>1, LengthTaken
  <2>3. v.bound.maxBytes # Unset => 0 <= v.bound.maxBytes
    BY <1>2 DEF Optional
  <2>4. CallSound(r)'
    BY <1>1, <2>1, <2>2, <2>3 DEF CallSound
  <2> QED BY <1>1, <1>4, <2>1, <2>2, <2>4, StayKeeps
<1>7. CASE ~wants[r].body /\ Store!AppendBuffer(r, Upload, At(r), 0, length)
  <2>1. /\ StoreStep(r)
        /\ call'[r].pc = "settled" /\ call'[r].upload = Upload
        /\ call'[r].answer = Store!Wrote(0, FALSE)
        /\ At(r) = record[Upload].size /\ record'[Upload].size = record[Upload].size
        /\ record'[Upload].length = Or(record[Upload].length, length)
        /\ ~record[Upload].isComplete
        /\ record'[Upload].isComplete = record[Upload].isComplete
    BY <1>1, <1>3, <1>7, AppendBufferStep
  <2>2. RecordSound' /\ VerdictSound(r)' /\ record'[Upload].length = Total(r)'
    BY <1>1, <2>1, LengthTaken
  <2>3. call'[r].answer.bytes = wants[r].sends /\ At(r) + wants[r].sends = At(r)
    BY <1>1, <1>7, <2>1, RequestTyped DEF Store!Wrote
  <2>4. CallSound(r)'
    BY <1>1, <2>1, <2>2, <2>3 DEF CallSound
  <2> QED BY <1>1, <1>4, <2>1, <2>2, <2>4, StayKeeps
<1> QED BY <1>5, <1>6, <1>7 DEF StartWrite

\* A body goes on, ends or tears.
LEMMA BodyKeeps ==
    ASSUME IInv, NEW r \in Requests, BodyArrives(r) \/ BodyEnds(r) \/ BodyTorn(r)
    PROVE  IInv'
<1> DEFINE v == verdict[r]
           sends == wants[r].sends
<1>1. /\ UNCHANGED <<lockerVars, clientVars, ownVars>> /\ UNCHANGED <<wants, verdict, stage>>
      /\ \/ Store!ChunkArrives(r, 1) \/ Store!BodyTorn(r)
         \/ call[r].flushed = sends /\ Store!BodyEnds(r)
    BY DEF BodyArrives, BodyEnds, BodyTorn, clientVars, ownVars
<1>2. call[r].pc = "streaming"
    BY <1>1 DEF Store!ChunkArrives, Store!BodyTorn, Store!BodyEnds
<1>3. /\ stage[r] = "writing" /\ call[r].upload = Upload /\ record[Upload].length = Total(r)
      /\ call[r].offset = At(r) /\ call[r].max = v.bound.maxBytes
      /\ (call[r].max # Unset => call[r].flushed <= call[r].max)
    BY <1>2 DEF IInv, RequestSound, CallSound
<1>4. Store!TypeOK /\ graced' \subseteq Requests /\ At(r) \in Nat /\ At(r)' = At(r) /\ sends \in Nat
    BY <1>1, RequestTyped DEF IInv, TypeOK, clientVars, At
<1>5. /\ StoreStep(r) /\ call'[r].upload = Upload
      /\ record'[Upload].length = record[Upload].length
      /\ record'[Upload].isComplete = record[Upload].isComplete
      /\ \/ record' = record
         \/ /\ ~record[Upload].isComplete
            /\ \E f \in Nat : /\ call[r].max # Unset => f <= call[r].max
                              /\ record'[Upload].size = call[r].offset + f
      /\ \/ /\ call'[r].pc = "streaming"
            /\ call'[r].offset = call[r].offset /\ call'[r].max = call[r].max
            /\ call'[r].max # Unset => call'[r].flushed <= call'[r].max
         \/ /\ call'[r].pc = "settled"
            /\ call'[r].answer.kind = "wrote" /\ ~call'[r].answer.interrupted =>
                  /\ call'[r].answer.bytes = sends
                  /\ record'[Upload].size = call[r].offset + sends
    BY <1>1, <1>3, <1>4, BodyStep
<1>6. /\ VerdictSound(r) /\ RecordSound /\ v.bound.maxBytes \in Optional
      /\ record[Upload].length \in Optional /\ Total(r) \in Optional
    BY <1>3, WhileWriting
<1>7. RecordSound'
  <2>1. CASE record' = record
    BY <1>6, <2>1 DEF RecordSound
  <2>2. ASSUME NEW f \in Nat, ~record[Upload].isComplete, call[r].max # Unset => f <= call[r].max,
               record'[Upload].size = call[r].offset + f
        PROVE  RecordSound'
    <3>1. Total(r) # Unset => /\ v.bound.maxBytes # Unset /\ Total(r) \in Nat
                              /\ v.bound.maxBytes \in Nat
                              /\ At(r) + v.bound.maxBytes <= Total(r)
      BY <1>3, <1>6 DEF VerdictSound, Optional
    <3>2. Total(r) # Unset => At(r) + f <= Total(r)
      BY <1>3, <1>4, <2>2, <3>1
    <3>3. ~Over(record'[Upload].size, record'[Upload].length)
      BY <1>3, <1>4, <1>5, <1>6, <2>2, <3>1, <3>2 DEF Over
    <3> QED BY <1>5, <2>2, <3>3 DEF RecordSound
  <2> QED BY <1>5, <2>1, <2>2
<1>8. Total(r)' = Total(r)
    BY <1>1, <1>5 DEF Total
<1>9. VerdictSound(r)'
  <2>1. /\ UNCHANGED <<wants, verdict>> /\ At(r)' = At(r) /\ Total(r)' = Total(r)
        /\ record'[Upload].length = record[Upload].length
    BY <1>1, <1>4, <1>5, <1>8
  <2> QED BY <1>3, <1>6, <2>1 DEF VerdictSound
<1>10. CallSound(r)'
  <2>1. /\ UNCHANGED <<wants, verdict, stage>> /\ At(r)' = At(r)
        /\ record'[Upload].length = Total(r)'
    BY <1>1, <1>3, <1>4, <1>5, <1>8
  <2> QED BY <1>3, <1>5, <2>1 DEF CallSound
<1>11. CompletionSound(r)'
    BY <1>1, <1>3 DEF CompletionSound
<1> QED BY <1>1, <1>3, <1>5, <1>7, <1>9, <1>10, <1>11, StayKeeps

\* A store's answer that ends a request is no more than an outcome.
LEMMA EndsKeeps ==
    ASSUME IInv, NEW r \in Requests, Turn(r), NEW kind \in Outcomes, NEW offset \in Nat,
           Ends(r, kind, offset), kind \notin Telling \cup Condemning,
           Undisturbed(r), TypeOK', RecordSound', call'[r].pc = "idle"
    PROVE  IInv'
<1>1. Goes(r, "releasing") /\ Answers(r, kind, offset, FALSE) /\ durable' = durable
    BY DEF Ends
<1>2. "releasing" \in Stages /\ FALSE \in BOOLEAN
    BY DEF Stages
<1>3. stage'[r] = "releasing" /\ outcome'[r].kind = kind /\ ~outcome'[r].complete
    BY <1>1, <1>2, Deciding DEF IInv
<1> QED BY <1>3, EndKeeps

\* It moves its request.
LEMMA EndsMoves ==
    ASSUME IInv, NEW r \in Requests, NEW kind \in Outcomes, NEW offset \in Nat,
           Ends(r, kind, offset)
    PROVE  Moved(r)
<1>1. Goes(r, "releasing") /\ Answers(r, kind, offset, FALSE) /\ durable' = durable
    BY DEF Ends
<1>2. "releasing" \in Stages /\ FALSE \in BOOLEAN
    BY DEF Stages
<1> QED BY <1>1, <1>2, Deciding DEF IInv

\* What is left of a turn in which a call's answer is taken.
LEMMA Collecting ==
    ASSUME IInv, NEW r \in Requests, Working(r), Moved(r), Store!Collect(r),
           UNCHANGED <<lockerVars, clientVars, located, delivered, reported>>
    PROVE  /\ Turn(r) /\ Undisturbed(r) /\ TypeOK' /\ RecordSound' /\ call'[r].pc = "idle"
           /\ record' = record /\ wants' = wants
<1>1. Store!TypeOK /\ graced' \subseteq Requests /\ wants' = wants
    BY DEF IInv, TypeOK, clientVars
<1>2. StoreStep(r) /\ record' = record /\ call'[r].pc = "idle"
    BY <1>1, CollectStep
<1>3. Undisturbed(r) /\ TypeOK' /\ Turn(r)
    BY <1>2, StoreTurn
<1>4. RecordSound'
    BY <1>2 DEF IInv, RecordSound
<1> QED BY <1>1, <1>2, <1>3, <1>4

\* What a write's answer leads to.
LEMMA WrittenKeeps ==
    ASSUME IInv, NEW r \in Requests, Written(r) PROVE IInv'
<1> DEFINE a == call[r].answer
           v == verdict[r]
<1>1. /\ stage[r] = "writing" /\ Working(r) /\ outcome[r] = NoOutcome
      /\ Store!Collect(r) /\ call[r].pc = "settled"
      /\ UNCHANGED <<lockerVars, clientVars, located, delivered, reported>>
    BY DEF Written, Working, Begun, Queueing, IInv, RequestSound, OutcomeSound, Store!Collect
<1>2. a.bytes \in Nat /\ a.interrupted \in BOOLEAN /\ At(r) \in Nat /\ record[Upload].size \in Nat
      /\ record[Upload].length \in Optional
    BY StoreTyped, RequestTyped DEF IInv, TypeOK
<1>3. ASSUME NEW kind \in Outcomes \ (Telling \cup Condemning), NEW offset \in Nat,
             Ends(r, kind, offset)
      PROVE  IInv'
  <2>1. Moved(r)
    BY <1>3, EndsMoves
  <2>2. Turn(r) /\ Undisturbed(r) /\ TypeOK' /\ RecordSound' /\ call'[r].pc = "idle"
    BY <1>1, <2>1, Collecting
  <2> QED BY <1>3, <2>2, EndsKeeps
<1>4. CASE a.kind = "wrote" /\ a.interrupted
  <2>1. Goes(r, "rereading") /\ UNCHANGED <<outcome, durable>> /\ "rereading" \in Stages
    BY <1>4 DEF Written, Stages
  <2>2. Moved(r) /\ stage'[r] = "rereading" /\ outcome'[r] = NoOutcome
    BY <1>1, <2>1, Going DEF IInv
  <2>3. Turn(r) /\ Undisturbed(r) /\ TypeOK' /\ RecordSound' /\ call'[r].pc = "idle"
    BY <1>1, <2>2, Collecting
  <2>4. outcome'[r].kind = "none" /\ ~outcome'[r].complete
    BY <2>2 DEF NoOutcome, Outcome
  <2>5. OutcomeSound(r)' /\ WholeBody(r)'
    BY <2>2, <2>4 DEF OutcomeSound, WholeBody, Condemning, Telling
  <2> QED BY <2>2, <2>3, <2>5, OutcomeKeeps DEF AtWork
<1>5. CASE a.kind = "wrote" /\ ~a.interrupted
  <2> DEFINE end == At(r) + a.bytes
  <2>1. end \in Nat /\ FALSE \in BOOLEAN
    BY <1>2
  <2>1a. Concludes(r, v, end, FALSE)
    BY <1>5 DEF Written, Concludes, Ends
  <2>2. /\ a.bytes = wants[r].sends /\ record[Upload].size = end
        /\ record[Upload].length = Total(r)
    BY <1>1, <1>5 DEF IInv, RequestSound, CallSound
  <2>3. v.completes => v.completesAt = record[Upload].length
    BY <1>1, <2>2 DEF IInv, RequestSound, VerdictSound
  <2> HIDE DEF end
  <2>4. Moved(r)
    BY <2>1, <2>1a, Concluding DEF IInv
  <2>5. /\ Turn(r) /\ Undisturbed(r) /\ TypeOK' /\ RecordSound' /\ call'[r].pc = "idle"
        /\ record' = record
    BY <1>1, <2>4, Collecting
  <2>6. end = At(r) + wants[r].sends
    BY <2>2 DEF end
  <2>7. v.completes /\ ~FALSE /\ v.completesAt \in {Unset, end} =>
           end = At(r) + wants[r].sends /\ record'[Upload].length \in {Unset, end}
    BY <2>3, <2>5, <2>6
  <2>8. record'[Upload].size = end
    BY <2>2, <2>5
  <2> QED BY <1>1, <2>1, <2>1a, <2>5, <2>7, <2>8, ConcludeKeeps
<1>6. CASE a.kind # "wrote"
  <2>1. \E kind \in {"limit-violation", "length-inconsistent", "offset-mismatch", "not-found"},
           offset \in {0, a.bytes} : Ends(r, kind, offset)
    BY <1>6 DEF Written, PastBound
  <2>2. {"limit-violation", "length-inconsistent", "offset-mismatch", "not-found"}
           \subseteq Outcomes \ (Telling \cup Condemning)
    BY DEF Outcomes, Telling, Condemning
  <2> QED BY <1>2, <1>3, <2>1, <2>2
<1> QED BY <1>2, <1>4, <1>5, <1>6

\* A completion that starts, or that the client's leaving fails.
LEMMA StartCompletionKeeps ==
    ASSUME IInv, NEW r \in Requests, StartCompletion(r) PROVE IInv'
<1>1. /\ stage[r] = "completing" /\ Working(r) /\ Turn(r) /\ CompletionSound(r)
      /\ UNCHANGED <<lockerVars, clientVars, verdict, located, delivered, reported>>
    BY DEF StartCompletion, Working, Begun, Queueing, Turn, IInv, RequestSound
<1>2. CASE r \in graced
  <2>1. call[r].pc = "idle" /\ Ends(r, "store-error", 0) /\ UNCHANGED storeVars
    BY <1>2 DEF StartCompletion
  <2>2. /\ "store-error" \in Outcomes /\ 0 \in Nat
        /\ "store-error" \notin Telling \cup Condemning
    BY DEF Outcomes, Telling, Condemning
  <2>3. Moved(r)
    BY <2>1, <2>2, EndsMoves
  <2>4. Undisturbed(r) /\ TypeOK' /\ RecordSound' /\ UNCHANGED <<record, call, stored>>
    BY <1>1, <2>1, <2>3, Alone, QuietTurn DEF IInv, TypeOK
  <2> QED BY <1>1, <2>1, <2>2, <2>4, EndsKeeps
<1>3. CASE r \notin graced
  <2>1. /\ UNCHANGED <<lockerVars, clientVars, ownVars>> /\ UNCHANGED <<wants, stage, durable>>
        /\ \/ Store!CompleteRefused(r, Upload, durable[r])
           \/ Store!CompleteSeals(r, Upload, durable[r])
    BY <1>1, <1>3 DEF StartCompletion, ownVars, clientVars
  <2>2. Store!TypeOK /\ graced' \subseteq Requests
    BY <1>1 DEF IInv, TypeOK, clientVars
  <2>3. /\ Sealing(r)
        /\ record'[Upload].isComplete = record[Upload].isComplete
        /\ \/ call'[r].pc = "hashing"
           \/ call'[r].pc = "settled" /\ call'[r].answer.kind # "wrote"
    BY <2>1, <2>2, CompleteStep
  <2>4. /\ StoreStep(r) /\ call'[r].upload = Upload
        /\ record'[Upload].size = record[Upload].size
        /\ record'[Upload].length = record[Upload].length
    BY <2>3 DEF Sealing
  <2>5. CompletionSound(r)' /\ RecordSound'
    BY <1>1, <2>1, <2>3, <2>4 DEF CompletionSound, RecordSound, IInv, At
  <2>6. VerdictSound(r)'
    BY <1>1, <2>1 DEF VerdictSound, Creating, Queueing
  <2>7. CallSound(r)'
    BY <1>1, <2>1, <2>3, <2>4 DEF CallSound
  <2> QED BY <1>1, <2>1, <2>4, <2>5, <2>6, <2>7, StayKeeps
<1> QED BY <1>2, <1>3

\* A publication, or a plan that is not published.
LEMMA HashedKeeps ==
    ASSUME IInv, NEW r \in Requests, Hashed(r) PROVE IInv'
<1>1. /\ UNCHANGED <<lockerVars, clientVars, ownVars>> /\ UNCHANGED <<wants, stage, durable>>
      /\ Store!DigestMismatch(r) \/ Store!PublishRefused(r) \/ Store!Publish(r)
    BY SMTT(60) DEF Hashed, ownVars, clientVars
<1>2. call[r].pc = "hashing"
    BY <1>1 DEF Store!DigestMismatch, Store!PublishRefused, Store!Publish
<1>3. stage[r] = "completing" /\ call[r].upload = Upload /\ CompletionSound(r)
    BY <1>2 DEF IInv, RequestSound, CallSound
<1>4. Store!TypeOK /\ graced' \subseteq Requests
    BY <1>1 DEF IInv, TypeOK, clientVars
<1>5. Sealing(r) /\ call'[r].pc = "settled" /\ call'[r].answer.kind # "wrote"
    BY <1>1, <1>3, <1>4, HashedStep
<1>6. /\ StoreStep(r) /\ call'[r].upload = Upload
      /\ record'[Upload].size = record[Upload].size
      /\ record'[Upload].length = record[Upload].length
    BY <1>5 DEF Sealing
<1>7. CompletionSound(r)'
    BY <1>1, <1>3, <1>6 DEF CompletionSound, At
<1>8. record[Upload].length \in {Unset, record[Upload].size}
    BY <1>3 DEF CompletionSound
<1>9. RecordSound'
    BY <1>6, <1>8 DEF RecordSound, IInv
<1>10. VerdictSound(r)'
    BY <1>1, <1>3 DEF VerdictSound, Creating, Queueing
<1>11. CallSound(r)'
    BY <1>1, <1>3, <1>5, <1>6 DEF CallSound
<1> QED BY <1>1, <1>3, <1>6, <1>7, <1>9, <1>10, <1>11, StayKeeps

\* What a completion's answer leads to.
LEMMA CompletedKeeps ==
    ASSUME IInv, NEW r \in Requests, Completed(r) PROVE IInv'
<1> DEFINE a == call[r].answer
<1>1. /\ stage[r] = "completing" /\ Working(r) /\ CompletionSound(r) /\ Store!Collect(r)
      /\ UNCHANGED <<lockerVars, clientVars, located, delivered, reported>>
    BY DEF Completed, Working, Begun, Queueing, IInv, RequestSound
<1>2. a.bytes \in Nat /\ record[Upload].size \in Nat /\ durable[r] \in Nat
    BY StoreTyped, RequestTyped DEF IInv, TypeOK
<1>3. CASE a.kind = "completed"
  <2>1. PICK kind \in {"created", "appended"} :
           /\ Goes(r, "reporting") /\ Answers(r, kind, durable[r], TRUE) /\ durable' = durable
    BY <1>3 DEF Completed
  <2>2. "reporting" \in Stages /\ kind \in Outcomes /\ TRUE \in BOOLEAN
    BY <2>1 DEF Stages, Outcomes
  <2>3. /\ Moved(r) /\ stage'[r] = "reporting" /\ outcome'[r].kind = kind
        /\ outcome'[r].offset = durable[r] /\ outcome'[r].complete
    BY <1>2, <2>1, <2>2, Deciding DEF IInv
  <2>4. /\ Turn(r) /\ Undisturbed(r) /\ TypeOK' /\ RecordSound' /\ call'[r].pc = "idle"
        /\ record' = record /\ wants' = wants
    BY <1>1, <2>3, Collecting
  <2>5. durable[r] = At(r) + wants[r].sends /\ record[Upload].size = durable[r]
    BY <1>1 DEF CompletionSound
  <2>6. WholeBody(r)' /\ OutcomeSound(r)'
    BY <1>2, <2>3, <2>4, <2>5 DEF WholeBody, OutcomeSound, At, Condemning, Telling
  <2> QED BY <2>3, <2>4, <2>6, OutcomeKeeps DEF AtWork
<1>4. CASE a.kind = "digest-mismatch"
  <2>1. /\ Goes(r, "discarding") /\ Answers(r, "digest-mismatch", 0, FALSE)
        /\ durable' = durable
    BY <1>4 DEF Completed
  <2>2. "discarding" \in Stages /\ "digest-mismatch" \in Outcomes /\ 0 \in Nat /\ FALSE \in BOOLEAN
    BY DEF Stages, Outcomes
  <2>3. /\ Moved(r) /\ stage'[r] = "discarding" /\ outcome'[r].kind = "digest-mismatch"
        /\ ~outcome'[r].complete
    BY <2>1, <2>2, Deciding DEF IInv
  <2>4. /\ Turn(r) /\ Undisturbed(r) /\ TypeOK' /\ RecordSound' /\ call'[r].pc = "idle"
    BY <1>1, <2>3, Collecting
  <2>5. Upload \in minted'
    BY <2>4, Alone DEF Undisturbed
  <2>6. WholeBody(r)' /\ OutcomeSound(r)'
    BY <2>3, <2>5 DEF WholeBody, OutcomeSound, Condemning, Telling
  <2> QED BY <2>3, <2>4, <2>6, OutcomeKeeps DEF AtWork
<1>5. CASE a.kind \notin {"completed", "digest-mismatch"}
  <2>1. PICK kind \in {"offset-mismatch", "not-found", "destination-conflict", "store-error"},
             offset \in {0, a.bytes} : Ends(r, kind, offset)
    BY <1>5 DEF Completed, Ends
  <2>2. /\ kind \in Outcomes /\ kind \notin Telling \cup Condemning /\ offset \in Nat
    BY <1>2, <2>1 DEF Outcomes, Telling, Condemning
  <2>3. Moved(r)
    BY <2>1, <2>2, EndsMoves
  <2>4. Turn(r) /\ Undisturbed(r) /\ TypeOK' /\ RecordSound' /\ call'[r].pc = "idle"
    BY <1>1, <2>3, Collecting
  <2> QED BY <2>1, <2>2, <2>4, EndsKeeps
<1> QED BY <1>3, <1>4, <1>5

\* An abort of the upload, or one that the client's leaving fails: an end that has
\* been announced has come.
LEMMA DiscardKeeps ==
    ASSUME IInv, NEW r \in Requests, Discard(r) PROVE IInv'
<1>1. /\ stage[r] = "discarding" /\ Working(r) /\ Turn(r) /\ call[r].pc = "idle"
      /\ Goes(r, "releasing") /\ durable' = durable /\ OutcomeSound(r) /\ WholeBody(r)
      /\ UNCHANGED <<lockerVars, clientVars, verdict, located, delivered, reported>>
    BY DEF Discard, Working, Begun, Queueing, Turn, IInv, RequestSound, CallSound,
           WholeBodyPublished, WholeBody
<1>2. ~outcome[r].complete /\ outcome[r].kind \notin Telling
    BY <1>1 DEF OutcomeSound, Decided
<1>3. "releasing" \in Stages /\ "store-error" \in Outcomes /\ 0 \in Nat /\ FALSE \in BOOLEAN
    BY DEF Stages, Outcomes
<1>4. CASE DiscardFails(r)
  <2>1. UNCHANGED storeVars /\ Ends(r, "store-error", 0)
    BY <1>1, <1>4 DEF Discard, DiscardFails, Ends
  <2>2. "store-error" \notin Telling \cup Condemning
    BY DEF Telling, Condemning
  <2>3. Moved(r)
    BY <1>3, <2>1, EndsMoves
  <2>4. Undisturbed(r) /\ TypeOK' /\ RecordSound' /\ UNCHANGED <<record, call, stored>>
    BY <1>1, <2>1, <2>3, Alone, QuietTurn DEF IInv, TypeOK
  <2> QED BY <1>1, <1>3, <2>1, <2>2, <2>4, EndsKeeps
<1>5. CASE ~DiscardFails(r)
  <2>1. Store!AbortUpload(Upload) /\ outcome' = outcome
    BY <1>5 DEF Discard
  <2>2. Moved(r) /\ stage'[r] = "releasing" /\ outcome'[r] = outcome[r]
    BY <1>1, <1>3, <2>1, Going DEF IInv
  <2>3. /\ stored' = stored \ {Upload}
        /\ UNCHANGED <<minted, record, objects, call, editions, sealedOver>>
    BY <2>1 DEF Store!AbortUpload
  <2>4. Store!TypeOK' /\ graced' = graced /\ wants' = wants
    BY <1>1, <2>3 DEF IInv, TypeOK, Store!TypeOK, yielding, clientVars, lockerVars
  <2>5. TypeOK'
    BY <1>1, <2>2, <2>4, TurnTyped DEF IInv, TypeOK
  <2>6. record[Upload].size \in Nat /\ record' = record
    BY <2>3, StoreTyped DEF IInv, TypeOK
  <2>7. RecordSound'
    BY <2>6 DEF IInv, RecordSound
  <2>8. Undisturbed(r)
    BY <1>1, <2>2, <2>3, <2>4, <2>6, Alone DEF Undisturbed, Moved, IInv
  <2>9. WholeBody(r)' /\ OutcomeSound(r)'
    BY <1>1, <1>2, <2>2, <2>3 DEF WholeBody, OutcomeSound, Decided, Found
  <2>10. call'[r].pc = "idle"
    BY <1>1, <2>3
  <2> QED BY <1>1, <2>2, <2>5, <2>7, <2>8, <2>9, <2>10, OutcomeKeeps DEF AtWork
<1> QED BY <1>4, <1>5

\* The engine's verdict on what a request finds.
LEMMA ReadVerdict ==
    ASSUME IInv, NEW r \in Requests, wants[r].op \notin {"create", "cancel"}
    PROVE  LET v == EvaluateUploadIntent(Intent(r), State, Policy, now)
               total == Or(record[Upload].length, v.declaredLength)
           IN  /\ v.kind \in {"gone", "probe-result", "already-complete", "append-allowed",
                              "length-inconsistent", "limit-violation", "offset-mismatch"}
               /\ v.kind = "append-allowed" =>
                     /\ At(r) = record[Upload].size
                     /\ v.declaredLength \in Optional
                     /\ v.bound.maxBytes \in Optional /\ v.bound.maxBytesFatal \in BOOLEAN
                     /\ v.completes \in BOOLEAN /\ (v.completes => v.completesAt = total)
                     /\ total # Unset =>
                           v.bound.maxBytes # Unset /\ At(r) + v.bound.maxBytes <= total
<1> DEFINE s == State
           i == Intent(r)
           v == EvaluateUploadIntent(i, s, Policy, now)
           total == Or(s.length, v.declaredLength)
<1>1. /\ Policy \in Policies /\ wants[r] \in Wants
      /\ wants[r].offset \in Nat
      /\ wants[r].contentLength \in Optional /\ wants[r].declaredLength \in Optional
    BY RequestTyped, OrchestratorAssumption
<1>2. /\ s.offset = record[Upload].size /\ s.offset \in Nat
      /\ s.length = record[Upload].length /\ s.length \in Optional
      /\ ~Over(s.offset, s.length) /\ s.status \in Statuses
    BY StoreTyped DEF State, Statuses, IInv, TypeOK, RecordSound
<1>3. /\ i.kind \in {"probe", "append"}
      /\ i.kind = "append" =>
            /\ i.offset = At(r) /\ i.offset \in Nat /\ i.contentLength \in Optional
            /\ i.declaredLength \in Optional /\ i.complete \in BOOLEAN
    BY <1>1 DEF Intent, AppendIntent, At
<1> HIDE DEF s, i
<1>4. /\ v.kind \in {"gone", "probe-result", "already-complete", "append-allowed",
                     "length-inconsistent", "limit-violation", "offset-mismatch"}
      /\ v.kind = "append-allowed" =>
            /\ i.kind = "append" /\ i.offset = s.offset
            /\ v.declaredLength \in Optional /\ total \in Optional
            /\ ~Over(s.offset, total)
            /\ v.bound = AppendBound(s.offset, total, Policy)
            /\ v.completes \in BOOLEAN /\ (v.completes => v.completesAt = total)
    BY <1>1, <1>2, <1>3, IntentVerdict
<1> HIDE DEF v, total
<1>5. v.kind = "append-allowed" =>
         /\ v.bound.maxBytes \in Optional /\ v.bound.maxBytesFatal \in BOOLEAN
         /\ total # Unset =>
               v.bound.maxBytes # Unset /\ s.offset + v.bound.maxBytes <= total
    BY <1>1, <1>2, <1>4, BoundFits
<1>6. total = Or(record[Upload].length, v.declaredLength)
    BY <1>2 DEF total
<1>7. /\ v.kind \in {"gone", "probe-result", "already-complete", "append-allowed",
                     "length-inconsistent", "limit-violation", "offset-mismatch"}
      /\ v.kind = "append-allowed" =>
            /\ At(r) = record[Upload].size
            /\ v.declaredLength \in Optional
            /\ v.bound.maxBytes \in Optional /\ v.bound.maxBytesFatal \in BOOLEAN
            /\ v.completes \in BOOLEAN /\ (v.completes => v.completesAt = total)
            /\ total # Unset =>
                  v.bound.maxBytes # Unset /\ At(r) + v.bound.maxBytes <= total
    BY <1>2, <1>3, <1>4, <1>5
<1> QED BY <1>6, <1>7 DEF v, i, s

\* There is room for a verdict on every request.
Judged == DOMAIN verdict = Requests

\* A state read under the lock, acted on by the engine's verdict.
LEMMA ReadKeeps ==
    ASSUME IInv, Judged, NEW r \in Requests, Read(r) PROVE IInv'
<1> DEFINE size == record[Upload].size
           v == EvaluateUploadIntent(Intent(r), State, Policy, now)
<1>1. /\ Turn(r) /\ call[r].pc = "idle" /\ outcome[r] = NoOutcome /\ wants[r].op # "create"
      /\ ~Creating(r) /\ ~outcome[r].complete /\ outcome[r].kind = "none"
    BY DEF Read, Turn, IInv, RequestSound, CallSound, OutcomeSound, Creating, NoOutcome, Outcome
<1>2. /\ located /\ located' /\ size \in Nat
      /\ located' \in BOOLEAN /\ delivered' \in BOOLEAN /\ reported' \in BOOLEAN
      /\ UNCHANGED <<lockerVars, storeVars, clientVars>> /\ UNCHANGED <<wants, minted>>
      /\ (reported => reported') /\ (delivered' => reported')
    BY <1>1, Alone, StoreTyped
       DEF Read, IInv, TypeOK, CreationSound, Turn, Working, Begun, clientVars, storeVars
<1>3. ASSUME Moved(r)
      PROVE  /\ Undisturbed(r) /\ TypeOK' /\ RecordSound' /\ UNCHANGED <<record, call, stored>>
             /\ call'[r].pc = "idle" /\ Upload \in minted'
  <2>1. Undisturbed(r) /\ TypeOK' /\ RecordSound' /\ UNCHANGED <<record, call, stored>>
    BY <1>1, <1>2, <1>3, QuietTurn
  <2> QED BY <1>1, <1>2, <2>1, Alone
<1>4. ASSUME NEW kind \in Outcomes \ (Telling \cup Condemning), NEW offset \in Nat,
             Ends(r, kind, offset)
      PROVE  IInv'
  <2>1. Moved(r)
    BY <1>4, EndsMoves
  <2> QED BY <1>1, <1>3, <1>4, <2>1, EndsKeeps
<1>5. ASSUME NEW kind \in {"gone", "cancelled"},
             Goes(r, "discarding"), Answers(r, kind, 0, FALSE), durable' = durable
      PROVE  IInv'
  <2>1. "discarding" \in Stages /\ kind \in Outcomes /\ 0 \in Nat /\ FALSE \in BOOLEAN
    BY <1>5 DEF Stages, Outcomes
  <2>2. /\ Moved(r) /\ stage'[r] = "discarding" /\ outcome'[r].kind = kind
        /\ ~outcome'[r].complete
    BY <1>5, <2>1, Deciding DEF IInv
  <2>3. WholeBody(r)' /\ OutcomeSound(r)'
    BY <1>3, <2>2 DEF WholeBody, OutcomeSound, Condemning, Telling
  <2> QED BY <1>1, <1>3, <2>2, <2>3, OutcomeKeeps DEF AtWork
<1>6. ASSUME NEW kind \in {"probed", "already-complete"}, NEW to \in {"reporting", "peeking"},
             Goes(r, to), Answers(r, kind, size, TRUE), durable' = durable
      PROVE  IInv'
  <2>1. to \in Stages /\ kind \in Outcomes /\ TRUE \in BOOLEAN /\ size \in Nat /\ TypeOK
    BY <1>2, <1>6 DEF Stages, Outcomes, IInv
  <2> HIDE DEF size
  <2>2. /\ Moved(r) /\ stage'[r] = to /\ outcome'[r].kind = kind
        /\ outcome'[r].offset = size /\ outcome'[r].complete
    BY <1>6, <2>1, Deciding
  <2> USE DEF size
  <2>3. WholeBody(r)' /\ OutcomeSound(r)'
    BY <1>2, <1>3, <2>2 DEF WholeBody, OutcomeSound, Condemning, Telling
  <2> QED BY <1>1, <1>3, <2>2, <2>3, OutcomeKeeps DEF AtWork
<1>7. ASSUME Goes(r, "releasing"), Answers(r, "probed", size, FALSE), durable' = durable
      PROVE  IInv'
  <2>1. "releasing" \in Stages /\ "probed" \in Outcomes /\ FALSE \in BOOLEAN
    BY DEF Stages, Outcomes
  <2>2. /\ Moved(r) /\ stage'[r] = "releasing" /\ outcome'[r].kind = "probed"
        /\ outcome'[r].offset = size /\ ~outcome'[r].complete
    BY <1>2, <1>7, <2>1, Deciding, ZenonT(60) DEF IInv
  <2> QED BY <1>1, <1>3, <2>2, EndKeeps DEF Condemning
<1>8. CASE r \in graced \/ ~Found
  <2>1. PICK kind \in {"store-error", "not-found"} : Ends(r, kind, 0)
    BY <1>8 DEF Read
  <2>2. kind \in Outcomes \ (Telling \cup Condemning) /\ 0 \in Nat
    BY <2>1 DEF Outcomes, Telling, Condemning
  <2> QED BY <1>4, <2>1, <2>2
<1>9. CASE ~(r \in graced \/ ~Found) /\ wants[r].op = "cancel"
  <2>1. Goes(r, "discarding") /\ Answers(r, "cancelled", 0, FALSE) /\ durable' = durable
    BY <1>9 DEF Read
  <2> QED BY <1>5, <2>1
<1>10. CASE ~(r \in graced \/ ~Found) /\ wants[r].op # "cancel"
  <2>1. verdict' = [verdict EXCEPT ![r] = v] /\ ActOn(r, v, State)
    BY <1>10 DEF Read, ActOn, Ends
  <2>2. State.offset = size
    BY DEF State
  <2>3. /\ v.kind \in {"gone", "probe-result", "already-complete", "append-allowed",
                       "length-inconsistent", "limit-violation", "offset-mismatch"}
        /\ v.kind = "append-allowed" =>
              /\ At(r) = size
              /\ v.declaredLength \in Optional
              /\ v.bound.maxBytes \in Optional /\ v.bound.maxBytesFatal \in BOOLEAN
              /\ v.completes \in BOOLEAN
              /\ v.completes => v.completesAt = Or(record[Upload].length, v.declaredLength)
              /\ Or(record[Upload].length, v.declaredLength) # Unset =>
                    /\ v.bound.maxBytes # Unset
                    /\ At(r) + v.bound.maxBytes <= Or(record[Upload].length, v.declaredLength)
    BY <1>1, <1>10, ReadVerdict
  <2> HIDE DEF v
  <2>4. CASE v.kind = "gone"
    <3>1. Goes(r, "discarding") /\ Answers(r, "gone", 0, FALSE) /\ durable' = durable
      BY <2>1, <2>4 DEF ActOn
    <3> QED BY <1>5, <3>1
  <2>5. CASE v.kind = "probe-result"
    <3>1. CASE v.complete
      <4>1. Goes(r, "reporting") /\ Answers(r, "probed", size, TRUE) /\ durable' = durable
        BY <2>1, <2>2, <2>5, <3>1 DEF ActOn, ReportsFirst
      <4> QED BY <1>6, <4>1
    <3>2. CASE ~v.complete
      <4>1. Goes(r, "releasing") /\ Answers(r, "probed", size, FALSE) /\ durable' = durable
        BY <2>1, <2>2, <2>5, <3>2 DEF ActOn
      <4> QED BY <1>7, <4>1
    <3> QED BY <3>1, <3>2
  <2>6. CASE v.kind = "already-complete"
    <3>1. \E to \in {"reporting", "peeking"} :
             Goes(r, to) /\ Answers(r, "already-complete", size, TRUE) /\ durable' = durable
      BY <2>1, <2>2, <2>6 DEF ActOn, ReportsFirst
    <3> QED BY <1>6, <3>1
  <2>7. CASE v.kind = "append-allowed" /\ Writes(wants[r], v)
    <3>1. Goes(r, "writing") /\ UNCHANGED <<outcome, durable>> /\ "writing" \in Stages
      BY <2>1, <2>7 DEF ActOn, Stages
    <3>2. Moved(r) /\ stage'[r] = "writing" /\ outcome'[r] = outcome[r]
      BY <3>1, Going DEF IInv
    <3>3. VerdictSound(r)'
      <4>1. UNCHANGED <<record, wants>> /\ ~(wants'[r].op = "create")
        BY <1>1, <1>2, <1>3, <3>2
      <4>2. verdict'[r] = v
        BY <2>1 DEF Judged
      <4> QED BY <2>3, <2>7, <4>1, <4>2 DEF VerdictSound, Total, At
    <3>4. CallSound(r)' /\ CompletionSound(r)'
      BY <1>1, <1>3, <3>2 DEF CallSound, CompletionSound
    <3>5. OutcomeSound(r)' /\ WholeBody(r)'
      BY <1>1, <3>2 DEF OutcomeSound, WholeBody, Condemning, Telling
    <3> QED BY <1>1, <1>3, <3>2, <3>3, <3>4, <3>5, TurnKeeps DEF WorkSound, AtWork
  <2>8. CASE v.kind = "append-allowed" /\ ~Writes(wants[r], v)
    <3>1. Concludes(r, v, size, FALSE) /\ FALSE \in BOOLEAN
      BY <2>1, <2>2, <2>8 DEF ActOn, Concludes
    <3>2. Moved(r)
      BY <1>2, <3>1, Concluding DEF IInv
    <3>3. ~v.completes
      BY <2>8 DEF Writes
    <3>4. record'[Upload].size = size
      BY <1>3, <3>2
    <3> QED BY <1>1, <1>2, <1>3, <3>1, <3>2, <3>3, <3>4, ConcludeKeeps
  <2>9. CASE v.kind \in {"length-inconsistent", "limit-violation", "offset-mismatch"}
    <3>1. Ends(r, v.kind, size)
      BY <2>1, <2>2, <2>9 DEF ActOn, Ends
    <3>2. v.kind \in Outcomes \ (Telling \cup Condemning)
      BY <2>9 DEF Outcomes, Telling, Condemning
    <3> QED BY <1>2, <1>4, <3>1, <3>2
  <2> QED BY <2>3, <2>4, <2>5, <2>6, <2>7, <2>8, <2>9
<1> QED BY <1>8, <1>9, <1>10

-------------------------------------------------------------------------------
(* Steps of the lock, and of everyone else *)

\* A request that takes the lock, queues for it, or leaves it takes nothing from
\* anyone: one more in the queue comes from an allocation, or after the first turn.
LEMMA LockKeeps ==
    ASSUME IInv, NEW r \in Requests, Moved(r), Locker!Inv', Others(r),
           UNCHANGED <<storeVars, clientVars, verdict, durable, located, delivered, reported>>,
           call[r].pc = "idle", stage'[r] \in {"locking", "answered"},
           stage'[r] = "locking" =>
              /\ pc'[r] \in {"waiting", "holding"}
              /\ stage[r] = "allocated" \/ (wants[r].op # "create" /\ located),
           stage'[r] = "answered" => pc'[r] \notin {"waiting", "holding"},
           OutcomeSound(r)', WholeBody(r)'
    PROVE  IInv'
<1>1. /\ UNCHANGED <<minted, stored, record, objects, call, editions, sealedOver>>
      /\ UNCHANGED <<wants, graced, now>>
      /\ \A q \in Requests \ {r} : stage'[q] = stage[q] /\ outcome'[q] = outcome[q]
    BY DEF storeVars, clientVars, Moved
<1>2. TypeOK'
  <2>1. Store!TypeOK'
    BY <1>1 DEF IInv, TypeOK, Store!TypeOK, yielding
  <2> QED BY <1>1, <2>1 DEF IInv, TypeOK, Moved, Locker!Inv
<1>3. ASSUME NEW q \in Requests \ {r}
      PROVE  RequestSound(q)' /\ WholeBody(q)'
  <2>1. /\ stage'[q] = stage[q] /\ outcome'[q] = outcome[q]
        /\ pc'[q] = pc[q] \/ (pc[q] = "waiting" /\ pc'[q] = "holding")
    BY <1>1 DEF Others
  <2>2. RequestSound(q) /\ WholeBody(q)
    BY DEF IInv, WholeBodyPublished, WholeBody
  <2>3. LockSound(q)'
    BY <2>1, <2>2 DEF RequestSound, LockSound, Working, Begun, Queueing, Holding
  <2>4. Total(q)' = Total(q) /\ At(q)' = At(q)
    BY <1>1 DEF Total, At
  <2>5. VerdictSound(q)'
    BY <1>1, <2>1, <2>2, <2>4 DEF RequestSound, VerdictSound, Creating, Begun, Queueing
  <2>6. CallSound(q)'
    BY <1>1, <2>1, <2>2, <2>4 DEF RequestSound, CallSound
  <2>7. CompletionSound(q)' /\ WholeBody(q)'
    BY <1>1, <2>1, <2>2, <2>4 DEF RequestSound, CompletionSound, WholeBody
  <2>8. OutcomeSound(q)'
    BY <1>1, <2>1, <2>2 DEF RequestSound, OutcomeSound, Decided, Found
  <2> QED BY <2>3, <2>5, <2>6, <2>7, <2>8 DEF RequestSound
<1>4. stage[r] = "allocated" => Creating(r) /\ Queueing(r)
    BY DEF IInv, CreationSound, Queueing
<1>5. RequestSound(r)'
  <2>1. LockSound(r)'
    BY DEF LockSound, Working, Begun, Queueing
  <2>2. CallSound(r)' /\ CompletionSound(r)'
    BY <1>1 DEF CallSound, CompletionSound
  <2>3. Total(r)' = Total(r) /\ At(r)' = At(r)
    BY <1>1 DEF Total, At
  <2>4. (stage[r] # "allocated") => ~(Creating(r)' /\ Queueing(r)')
    BY <1>1 DEF Creating, Queueing
  <2>5. VerdictSound(r)'
    BY <1>1, <1>4, <2>3, <2>4 DEF IInv, RequestSound, VerdictSound
  <2> QED BY <2>1, <2>2, <2>5 DEF RequestSound
<1>6. \A q \in Requests : RequestSound(q)' /\ WholeBody(q)'
    BY <1>3, <1>5
<1>7. CreationSound'
  <2>1. \A q \in Requests : Creating(q)' => Creating(q)
    BY <1>1, <1>4 DEF Creating, Begun
  <2>2. \A q \in Requests : Begun(q)' => Begun(q) \/ located
    BY <1>1, <1>4 DEF Begun, Creating
  <2>3. \A q \in Requests : Creating(q)' /\ Queueing(q)' => Creating(q) /\ Queueing(q)
    BY <1>1, <1>4 DEF Creating, Begun, Queueing
  <2>4. \A q \in Requests : Begun(q)' /\ ~located => Creating(q)' /\ Queueing(q)'
    <3>1. ASSUME NEW q \in Requests \ {r}, Begun(q)', ~located
          PROVE  Creating(q)' /\ Queueing(q)'
      <4>1. Begun(q) /\ Creating(q) /\ Queueing(q)
        BY <1>1, <3>1 DEF Begun, IInv, CreationSound
      <4> QED BY <1>1, <4>1 DEF Creating, Begun, Queueing
    <3>2. ASSUME Begun(r)', ~located
          PROVE  Creating(r)' /\ Queueing(r)'
      <4>1. stage'[r] = "locking" /\ Creating(r)
        BY <1>4, <3>2 DEF Begun
      <4> QED BY <1>1, <4>1 DEF Creating, Begun, Queueing
    <3> QED BY <3>1, <3>2
  <2>5. \A q \in Requests : stage'[q] = "allocated" => Creating(q)'
    <3>1. ASSUME NEW q \in Requests \ {r}, stage'[q] = "allocated"
          PROVE  Creating(q)'
      <4>1. stage[q] = "allocated" /\ Creating(q)
        BY <1>1, <3>1 DEF IInv, CreationSound
      <4> QED BY <1>1, <3>1, <4>1 DEF Creating, Begun
    <3> QED BY <3>1
  <2>6. (\E q \in Requests : Begun(q)') \/ located' => Upload \in minted'
    BY <1>1, <2>2 DEF IInv, CreationSound
  <2>7. \A p, q \in Requests : Creating(p)' /\ Creating(q)' => p = q
    BY <2>1 DEF IInv, CreationSound
  <2>8. \A q \in Requests : Creating(q)' /\ Queueing(q)' => ~located'
    BY <2>3 DEF IInv, CreationSound
  <2>9. ~located' => record'[Upload].size = 0 /\ ~record'[Upload].isComplete
    BY <1>1 DEF IInv, CreationSound
  <2>10. \A q \in Requests : Begun(q)' /\ ~located' => Creating(q)' /\ Queueing(q)'
    BY <2>4
  <2> QED BY <2>5, <2>6, <2>7, <2>8, <2>9, <2>10 DEF CreationSound
<1>8. WholeBodyPublished'
    BY <1>6 DEF WholeBodyPublished, WholeBody
<1>9. RecordSound' /\ (delivered' => reported') /\ \A q \in Requests : wants'[q] \in Wanted[q]
    BY <1>1 DEF IInv, RecordSound
<1> QED BY <1>2, <1>6, <1>7, <1>8, <1>9 DEF IInv

\* A creation that the engine refuses.
LEMMA RefuseCreationKeeps ==
    ASSUME IInv, NEW r \in Requests, RefuseCreation(r) PROVE IInv'
<1> DEFINE v == EvaluateUploadCreation(CreateIntent(wants[r]), Policy)
<1>1. /\ stage[r] = "unsent" /\ pc[r] = "idle" /\ call[r].pc = "idle" /\ TypeOK
      /\ v.kind # "create-accepted" /\ Answers(r, v.kind, 0, FALSE) /\ Goes(r, "answered")
      /\ UNCHANGED <<lockerVars, storeVars, clientVars, verdict, durable, located, delivered,
                     reported>>
      /\ UNCHANGED pc
    BY DEF RefuseCreation, IInv, RequestSound, LockSound, CallSound, lockerVars
<1>2. v.kind \in {"length-inconsistent", "limit-violation"}
  <2>1. /\ CreateIntent(wants[r]).contentLength \in Optional
        /\ CreateIntent(wants[r]).declaredLength \in Optional
        /\ CreateIntent(wants[r]).complete \in BOOLEAN /\ Policy \in Policies
    BY RequestTyped, OrchestratorAssumption DEF CreateIntent
  <2> QED BY <1>1, <2>1, CreationVerdict
<1> HIDE DEF v
<1>3. v.kind \in Outcomes /\ "answered" \in Stages /\ 0 \in Nat /\ FALSE \in BOOLEAN
    BY <1>2 DEF Outcomes, Stages
<1>4. /\ Moved(r) /\ stage'[r] = "answered" /\ outcome'[r].kind = v.kind
      /\ ~outcome'[r].complete
    BY <1>1, <1>3, Deciding
<1>5. OutcomeSound(r)' /\ WholeBody(r)'
    BY <1>2, <1>4 DEF OutcomeSound, WholeBody, Condemning, Telling
<1>6. Locker!Inv' /\ Others(r)
    BY <1>1 DEF IInv, lockerVars, Others, Locker!Inv, Locker!TypeOK, Locker!PreemptLandsOnHolder,
           Locker!NoLostWaiter, Locker!WaiterHasPreempted, Locker!Held, Locker!Queued,
           Locker!QueueSound
<1>7. pc'[r] \notin {"waiting", "holding"}
    BY <1>1
<1> QED BY <1>1, <1>4, <1>5, <1>6, <1>7, LockKeeps

\* A request that takes the lock or queues for it.
LEMMA AcquireKeeps ==
    ASSUME IInv, NEW r \in Requests, Acquire(r) PROVE IInv'
<1>1. /\ Locker!Inv' /\ pc'[r] \in {"waiting", "holding"} /\ Others(r)
    BY AcquireStep DEF Acquire, IInv
<1>2. /\ stage[r] \in {"unsent", "allocated"} /\ call[r].pc = "idle" /\ outcome[r] = NoOutcome
      /\ stage[r] = "allocated" \/ (wants[r].op # "create" /\ located)
      /\ TypeOK
      /\ Goes(r, "locking") /\ "locking" \in Stages /\ UNCHANGED <<outcome, durable>>
      /\ UNCHANGED <<storeVars, clientVars, verdict, located, delivered, reported>>
    BY DEF Acquire, IInv, RequestSound, CallSound, OutcomeSound, Stages
<1>3. Moved(r) /\ stage'[r] = "locking" /\ outcome'[r] = NoOutcome
    BY <1>2, Going
<1>4. outcome'[r].kind = "none" /\ ~outcome'[r].complete
    BY <1>3 DEF NoOutcome, Outcome
<1>5. OutcomeSound(r)' /\ WholeBody(r)'
    BY <1>3, <1>4 DEF OutcomeSound, WholeBody, Condemning, Telling
<1>6. stage[r] = "allocated" \/ (wants[r].op # "create" /\ located)
    BY <1>2
<1> QED BY <1>1, <1>2, <1>3, <1>5, <1>6, LockKeeps

\* A request whose turn does not come in time.
LEMMA LockTimesOutKeeps ==
    ASSUME IInv, NEW r \in Requests, LockTimesOut(r) PROVE IInv'
<1>1. Locker!Inv' /\ pc'[r] = "timedOut" /\ Others(r)
    BY TimeoutStep DEF LockTimesOut, IInv
<1>2. /\ stage[r] = "locking" /\ call[r].pc = "idle" /\ TypeOK
      /\ Goes(r, "answered") /\ Answers(r, "contended", 0, FALSE) /\ durable' = durable
      /\ UNCHANGED <<storeVars, clientVars, verdict, located, delivered, reported>>
    BY DEF LockTimesOut, IInv, RequestSound, CallSound
<1>3. "answered" \in Stages /\ "contended" \in Outcomes /\ 0 \in Nat /\ FALSE \in BOOLEAN
    BY DEF Stages, Outcomes
<1>4. /\ Moved(r) /\ stage'[r] = "answered" /\ outcome'[r].kind = "contended"
      /\ ~outcome'[r].complete
    BY <1>2, <1>3, Deciding
<1>5. OutcomeSound(r)' /\ WholeBody(r)'
    BY <1>4 DEF OutcomeSound, WholeBody, Condemning, Telling
<1>6. pc'[r] \notin {"waiting", "holding"}
    BY <1>1
<1> QED BY <1>1, <1>2, <1>4, <1>5, <1>6, LockKeeps

\* A request that lets the lock go is answered with what it had decided.
LEMMA ReleaseKeeps ==
    ASSUME IInv, NEW r \in Requests, Release(r) PROVE IInv'
<1>1. Locker!Inv' /\ pc'[r] = "released" /\ Others(r)
    BY ReleaseStep DEF Release, IInv
<1>2. /\ stage[r] = "releasing" /\ call[r].pc = "idle" /\ OutcomeSound(r) /\ WholeBody(r)
      /\ TypeOK /\ Goes(r, "answered") /\ "answered" \in Stages /\ UNCHANGED <<outcome, durable>>
      /\ UNCHANGED <<storeVars, clientVars, verdict, located, delivered, reported>>
    BY DEF Release, IInv, RequestSound, CallSound, Stages, WholeBodyPublished, WholeBody
<1>3. Moved(r) /\ stage'[r] = "answered" /\ outcome'[r] = outcome[r]
    BY <1>2, Going
<1>4. OutcomeSound(r)' /\ WholeBody(r)'
    BY <1>2, <1>3 DEF OutcomeSound, WholeBody, At, Decided, Found, storeVars, clientVars
<1>5. pc'[r] \notin {"waiting", "holding"}
    BY <1>1
<1> QED BY <1>1, <1>2, <1>3, <1>4, <1>5, LockKeeps

\* A creation's allocation comes before everything else.
LEMMA AllocateKeeps ==
    ASSUME IInv, Judged, NEW r \in Requests, Allocate(r) PROVE IInv'
<1> DEFINE v == EvaluateUploadCreation(CreateIntent(wants[r]), Policy)
           total == CreationTotal(CreateIntent(wants[r]))
           fresh == Store!EmptyRecord(total)
<1>1. /\ stage[r] = "unsent" /\ wants[r].op = "create" /\ v.kind = "create-accepted"
      /\ Store!CreateUpload(Upload, v.declaredLength)
      /\ verdict' = [verdict EXCEPT ![r] = v] /\ Goes(r, "allocated")
      /\ UNCHANGED <<lockerVars, clientVars, durable, outcome, located, delivered, reported>>
      /\ UNCHANGED <<wants, graced>>
    BY DEF Allocate, clientVars
<1>2. /\ total \in Optional /\ v.declaredLength = total
      /\ v.bound = AppendBound(0, total, Policy)
      /\ v.completes \in BOOLEAN /\ v.completesAt = total
  <2>1. /\ CreateIntent(wants[r]).contentLength \in Optional
        /\ CreateIntent(wants[r]).declaredLength \in Optional
        /\ CreateIntent(wants[r]).complete \in BOOLEAN /\ Policy \in Policies
    BY RequestTyped, OrchestratorAssumption DEF CreateIntent
  <2> QED BY <1>1, <2>1, CreationVerdict
<1>3. /\ Upload \notin minted /\ minted' = minted \cup {Upload} /\ stored' = stored \cup {Upload}
      /\ record' = [record EXCEPT ![Upload] = fresh]
      /\ UNCHANGED <<objects, call, editions, sealedOver>>
    BY <1>1, <1>2 DEF Store!CreateUpload
<1>4. /\ fresh \in Store!Record /\ fresh.size = 0 /\ fresh.length = total
      /\ ~fresh.isComplete
  <2>1. <<>> \in Store!Content
    BY DEF Store!Content
  <2> QED BY <1>2, <2>1 DEF Store!EmptyRecord, Store!Record, Store!Optional, Optional
<1> HIDE DEF v, total, fresh
<1>5. record' \in [{Upload} -> Store!Record] /\ record'[Upload] = fresh
    BY <1>3, <1>4 DEF IInv, TypeOK, Store!TypeOK
<1>6. Store!TypeOK'
    BY <1>1, <1>3, <1>5 DEF IInv, TypeOK, Store!TypeOK, yielding, lockerVars
<1>7. "allocated" \in Stages /\ TypeOK
    BY DEF Stages, IInv
<1>8. Moved(r) /\ stage'[r] = "allocated" /\ outcome'[r] = outcome[r]
    BY <1>1, <1>7, Going
<1>9. TypeOK'
    BY <1>1, <1>6, <1>8, TurnTyped DEF IInv, TypeOK
<1>10. ~located /\ (\A q \in Requests : ~Begun(q) /\ call[q].pc = "idle")
    BY <1>3 DEF IInv, CreationSound, RequestSound, CallSound, Begun
<1>11. record[Upload].size = 0
    BY <1>10 DEF IInv, CreationSound
<1>12. \A q \in Requests : outcome[q].offset \in Nat
    BY RequestTyped
<1>13. ASSUME NEW q \in Requests
       PROVE  OutcomeSound(q)' /\ WholeBody(q)' /\ CallSound(q)'
  <2>1. stage'[q] = stage[q] \/ q = r
    BY <1>8 DEF Moved
  <2>2. outcome'[q] = outcome[q] /\ call'[q].pc = "idle"
    BY <1>1, <1>3, <1>10
  <2>3. OutcomeSound(q) /\ WholeBody(q)
    BY DEF IInv, RequestSound, WholeBodyPublished, WholeBody
  <2>4. WholeBody(q)' /\ CallSound(q)'
    BY <1>1, <2>2, <2>3 DEF WholeBody, At, CallSound
  <2>5. outcome[q].kind \notin Condemning
    BY <1>3, <2>3 DEF OutcomeSound
  <2>6. CASE q = r
    <3>1. outcome[r] = NoOutcome /\ outcome[r].kind = "none" /\ ~outcome[r].complete
      BY <1>1, <2>3, <2>6 DEF OutcomeSound, NoOutcome, Outcome
    <3>2. OutcomeSound(r)'
      BY <1>8, <3>1 DEF OutcomeSound, Condemning, Telling
    <3> QED BY <2>4, <2>6, <3>2
  <2>7. CASE q # r
    <3>1. stage'[q] = stage[q]
      BY <2>1, <2>7
    <3>2. record'[Upload].size = record[Upload].size
      BY <1>4, <1>5, <1>11
    <3>3. OutcomeSound(q)'
      BY <1>1, <2>2, <2>3, <2>5, <3>1, <3>2 DEF OutcomeSound, Decided
    <3> QED BY <2>4, <3>3
  <2> QED BY <2>6, <2>7
<1>14. \A q \in Requests \ {r} : ~Begun(q)'
    BY <1>8, <1>10 DEF Begun, Moved
<1>15. Creating(r)' /\ Queueing(r)' /\ Begun(r)'
    BY <1>1, <1>8 DEF Creating, Queueing, Begun
<1>16. CreationSound'
  <2>1. Upload \in minted' /\ ~located' /\ record'[Upload].size = 0 /\ ~record'[Upload].isComplete
    BY <1>1, <1>3, <1>4, <1>5, <1>10
  <2>2. \A q \in Requests : Begun(q)' => q = r
    BY <1>14
  <2>3. \A q \in Requests : stage'[q] = "allocated" => q = r
    BY <2>2 DEF Begun
  <2> QED BY <1>15, <2>1, <2>2, <2>3 DEF CreationSound, Creating
<1>17. ~Over(0, total)
    BY <1>2 DEF Over, Optional
<1>18. RecordSound'
    BY <1>4, <1>5, <1>17 DEF RecordSound
<1>19. VerdictSound(r)'
  <2>1. verdict'[r] = v /\ wants'[r].op = "create" /\ record'[Upload].length = total
    BY <1>1, <1>4, <1>5 DEF Judged
  <2>2. Total(r)' = total /\ At(r)' = 0
    BY <1>2, <2>1 DEF Total, Or, At
  <2>3. /\ v.bound.maxBytes \in Optional /\ v.bound.maxBytesFatal \in BOOLEAN
        /\ total # Unset => v.bound.maxBytes # Unset /\ 0 + v.bound.maxBytes <= total
    BY <1>2, <1>17, BoundFits, OrchestratorAssumption
  <2> QED BY <1>2, <2>1, <2>2, <2>3 DEF VerdictSound
<1>20. \A q \in Requests : VerdictSound(q)' /\ CompletionSound(q)'
  <2>1. ASSUME NEW q \in Requests \ {r}
        PROVE  VerdictSound(q)' /\ CompletionSound(q)'
    BY <1>14 DEF VerdictSound, CompletionSound, Creating, Begun
  <2>2. CompletionSound(r)'
    BY <1>8 DEF CompletionSound
  <2> QED BY <1>19, <2>1, <2>2
<1>21. \A q \in Requests : LockSound(q)'
  <2>1. ASSUME NEW q \in Requests \ {r}
        PROVE  LockSound(q)'
    <3>1. stage'[q] = stage[q] /\ pc' = pc /\ LockSound(q)
      BY <1>1, <1>8 DEF Moved, IInv, RequestSound, lockerVars
    <3> QED BY <3>1 DEF LockSound, Working, Begun, Queueing, Holding
  <2>2. LockSound(r)'
    <3>1. pc'[r] = "idle"
      BY <1>1 DEF IInv, RequestSound, LockSound, lockerVars
    <3> QED BY <1>8, <3>1 DEF LockSound, Working, Queueing
  <2> QED BY <2>1, <2>2
<1>22. \A q \in Requests : RequestSound(q)'
    BY <1>13, <1>20, <1>21 DEF RequestSound
<1>23. WholeBodyPublished' /\ (delivered' => reported') /\ \A q \in Requests : wants'[q] \in Wanted[q]
    BY <1>1, <1>13 DEF WholeBodyPublished, WholeBody, IInv
<1>24. Locker!Inv'
    BY <1>1 DEF IInv, lockerVars, Locker!Inv, Locker!TypeOK, Locker!PreemptLandsOnHolder,
           Locker!NoLostWaiter, Locker!WaiterHasPreempted, Locker!Held, Locker!Queued,
           Locker!QueueSound
<1> QED BY <1>9, <1>16, <1>18, <1>22, <1>23, <1>24 DEF IInv

\* What nobody's handler does: time passes, clients leave, strangers write, the sweep
\* takes the upload, the orchestrator forgets.
LEMMA AmbientKeeps ==
    ASSUME IInv, UNCHANGED <<lockerVars, wants, stage, verdict, durable, outcome, located,
                             reported, minted, record, call, sealedOver>>,
           stored' \subseteq stored, objects' \in [{Key} -> Store!Entry], editions' \in Nat,
           graced' \subseteq Requests, now' \in 0..MaxTime,
           delivered' \in BOOLEAN, delivered' => delivered
    PROVE  IInv'
<1>1. Store!TypeOK'
    BY DEF IInv, TypeOK, Store!TypeOK, yielding, lockerVars
<1>2. TypeOK'
    BY <1>1 DEF IInv, TypeOK, Locker!TypeOK, lockerVars
<1>3. Locker!Inv'
    BY DEF IInv, lockerVars, Locker!Inv, Locker!TypeOK, Locker!PreemptLandsOnHolder,
           Locker!NoLostWaiter, Locker!WaiterHasPreempted, Locker!Held, Locker!Queued,
           Locker!QueueSound
<1>4. ASSUME NEW q \in Requests
      PROVE  RequestSound(q)' /\ WholeBody(q)'
  <2>1. RequestSound(q) /\ WholeBody(q)
    BY DEF IInv, WholeBodyPublished, WholeBody
  <2>2. Total(q)' = Total(q) /\ At(q)' = At(q)
    BY DEF Total, At
  <2>3. LockSound(q)'
    BY <2>1 DEF RequestSound, LockSound, Working, Begun, Queueing, Holding, lockerVars
  <2>4. VerdictSound(q)'
    BY <2>1, <2>2 DEF RequestSound, VerdictSound, Creating, Begun, Queueing
  <2>5. CallSound(q)'
    BY <2>1, <2>2 DEF RequestSound, CallSound
  <2>6. CompletionSound(q)' /\ WholeBody(q)'
    BY <2>1, <2>2 DEF RequestSound, CompletionSound, WholeBody
  <2>7. OutcomeSound(q)'
    BY <2>1 DEF RequestSound, OutcomeSound, Decided, Found
  <2> QED BY <2>3, <2>4, <2>5, <2>6, <2>7 DEF RequestSound
<1>5. CreationSound' /\ RecordSound'
    BY DEF IInv, CreationSound, RecordSound, Creating, Begun, Queueing
<1>6. WholeBodyPublished' /\ (delivered' => reported') /\ \A q \in Requests : wants'[q] \in Wanted[q]
    BY <1>4 DEF WholeBodyPublished, WholeBody, IInv
<1> QED BY <1>2, <1>3, <1>4, <1>5, <1>6 DEF IInv

\* Each of those steps is one.
LEMMA ElsewhereKeeps ==
    ASSUME IInv, \/ \E r \in Requests : ClientLeaves(r)
                 \/ Sweep \/ StrangerTouches \/ Tick \/ Forgets \/ UNCHANGED vars
    PROVE  IInv'
<1>1. /\ graced \subseteq Requests /\ now \in 0..MaxTime /\ delivered \in BOOLEAN
      /\ objects \in [{Key} -> Store!Entry] /\ editions \in Nat /\ MaxTime \in Nat
    BY OrchestratorAssumption DEF IInv, TypeOK, Store!TypeOK
<1>2. ASSUME NEW r \in Requests, ClientLeaves(r)
      PROVE  IInv'
    BY <1>1, <1>2, AmbientKeeps DEF ClientLeaves, storeVars, ownVars
<1>3. CASE Sweep
    BY <1>1, <1>3, AmbientKeeps DEF Sweep, Store!SweepExpired, clientVars, ownVars
<1>4. CASE StrangerTouches
  <2>1. objects' \in [{Key} -> Store!Entry] /\ editions' \in Nat
    <3>1. <<>> \in Store!Content
      BY DEF Store!Content
    <3>2. CASE Store!StrangerWrites(Key)
      <4> DEFINE entry == [body |-> <<>>, writer |-> Stranger, edition |-> editions + 1]
      <4>1. entry \in Store!Entry
        BY <1>1, <3>1 DEF Store!Entry
      <4>2. objects' = [objects EXCEPT ![Key] = entry] /\ editions' = editions + 1
        BY <3>2 DEF Store!StrangerWrites
      <4> HIDE DEF entry
      <4> QED BY <1>1, <4>1, <4>2
    <3>3. CASE Store!StrangerDeletes(Key)
      <4>1. Store!Absent \in Store!Entry
        BY <3>1 DEF Store!Entry, Store!Absent
      <4>2. objects' = [objects EXCEPT ![Key] = Store!Absent] /\ editions' = editions
        BY <3>3 DEF Store!StrangerDeletes
      <4> QED BY <1>1, <4>1, <4>2
    <3> QED BY <1>4, <3>2, <3>3 DEF StrangerTouches
  <2>2. UNCHANGED <<minted, stored, record, call, sealedOver>>
    BY <1>4 DEF StrangerTouches, Store!StrangerWrites, Store!StrangerDeletes
  <2>3. UNCHANGED <<lockerVars, clientVars, ownVars>>
    BY <1>4 DEF StrangerTouches
  <2> QED BY <1>1, <2>1, <2>2, <2>3, AmbientKeeps DEF clientVars, ownVars
<1>5. CASE Tick
  <2>1. now' \in 0..MaxTime
    BY <1>1, <1>5 DEF Tick
  <2> QED BY <1>1, <1>5, <2>1, AmbientKeeps DEF Tick, storeVars, ownVars
<1>6. CASE Forgets
    BY <1>1, <1>6, AmbientKeeps DEF Forgets, storeVars, clientVars
<1>7. CASE UNCHANGED vars
    BY <1>1, <1>7, AmbientKeeps DEF vars, storeVars, clientVars, ownVars
<1> QED BY <1>2, <1>3, <1>4, <1>5, <1>6, <1>7

-------------------------------------------------------------------------------
(* The invariant, and what follows from it *)

\* It holds before anyone has come.
LEMMA Beginning == Init => IInv /\ Judged
<1> SUFFICES ASSUME Init PROVE IInv /\ Judged
    OBVIOUS
<1>1. /\ wants \in [Requests -> UNION {Wanted[r] : r \in Requests}]
      /\ \A r \in Requests : wants[r] \in Wanted[r]
    BY DEF Init
<1>2. Locker!Inv
  <2>1. Locks!Init
    BY DEF Init, Locks!Init, Locker!Init
  <2> QED BY <2>1, NobodyHolds, Locks!InitInv, SameLock
<1>3. /\ \A r \in Requests : /\ stage[r] = "unsent" /\ pc[r] = "idle" /\ call[r].pc = "idle"
                             /\ outcome[r] = NoOutcome
      /\ stage \in [Requests -> Stages] /\ durable \in [Requests -> Nat] /\ graced = {}
      /\ ~located /\ ~delivered /\ ~reported /\ now \in 0..MaxTime
      /\ located \in BOOLEAN /\ delivered \in BOOLEAN /\ reported \in BOOLEAN
  <2>1. /\ stage = [r \in Requests |-> "unsent"] /\ durable = [r \in Requests |-> 0]
        /\ outcome = [r \in Requests |-> NoOutcome] /\ pc = [r \in Requests |-> "idle"]
        /\ graced = {} /\ located = FALSE /\ delivered = FALSE /\ reported = FALSE /\ now = 0
        /\ call = [r \in Requests |-> Store!CallOn(Unset)]
    BY DEF Init, Locker!Init, Store!Init
  <2>2. Store!CallOn(Unset).pc = "idle" /\ "unsent" \in Stages
    BY CallOnTyped DEF Stages
  <2>3. now \in 0..MaxTime
    BY <2>1, OrchestratorAssumption
  <2> QED BY <2>1, <2>2, <2>3
<1>4. /\ minted = {} /\ stored = {} /\ objects = [k \in {Key} |-> Store!Absent]
      /\ record = [u \in {Upload} |-> Store!EmptyRecord(Unset)]
      /\ call = [c \in Requests |-> Store!CallOn(Unset)]
      /\ editions = 0 /\ sealedOver = [u \in {Upload} |-> 0]
    BY DEF Init, Store!Init
<1>5. Store!TypeOK
  <2>1. <<>> \in Store!Content
    BY DEF Store!Content
  <2>2. Store!Absent \in Store!Entry
    BY <2>1 DEF Store!Entry, Store!Absent
  <2>3. Store!EmptyRecord(Unset) \in Store!Record
    BY <2>1 DEF Store!EmptyRecord, Store!Record, Store!Optional, Optional
  <2>4. Store!CallOn(Unset) \in Store!Call
    BY CallOnTyped
  <2>5. yielding \subseteq Requests
    BY <1>3 DEF yielding
  <2>6. /\ objects \in [{Key} -> Store!Entry] /\ record \in [{Upload} -> Store!Record]
        /\ call \in [Requests -> Store!Call] /\ sealedOver \in [{Upload} -> Nat]
    BY <1>4, <2>2, <2>3, <2>4
  <2> QED BY <1>4, <2>5, <2>6 DEF Store!TypeOK
<1>6. NoOutcome \in [kind : Outcomes, offset : Nat, complete : BOOLEAN]
      /\ NoOutcome.kind = "none" /\ ~NoOutcome.complete
    BY DEF NoOutcome, Outcome, Outcomes
<1>7. TypeOK
  <2>1. outcome \in [Requests -> [kind : Outcomes, offset : Nat, complete : BOOLEAN]]
    BY <1>6 DEF Init
  <2> QED BY <1>1, <1>2, <1>3, <1>5, <2>1 DEF TypeOK, Locker!Inv
<1>8. record[Upload].size = 0 /\ record[Upload].length = Unset /\ ~record[Upload].isComplete
    BY <1>4 DEF Store!EmptyRecord
<1>9. RecordSound
    BY <1>8 DEF RecordSound, Over
<1>10. CreationSound
    BY <1>3, <1>8 DEF CreationSound, Begun, Creating
<1>11. ASSUME NEW r \in Requests
       PROVE  RequestSound(r) /\ WholeBody(r)
  <2>1. LockSound(r) /\ VerdictSound(r) /\ CallSound(r) /\ CompletionSound(r)
    BY <1>3 DEF LockSound, Working, Begun, Queueing, VerdictSound, CallSound, CompletionSound
  <2>2. OutcomeSound(r) /\ WholeBody(r)
    BY <1>3, <1>6 DEF OutcomeSound, WholeBody, Condemning, Telling
  <2> QED BY <2>1, <2>2 DEF RequestSound
<1>12. Judged
    BY DEF Init, Judged
<1>13. WholeBodyPublished
    BY <1>11 DEF WholeBodyPublished, WholeBody
<1> QED BY <1>1, <1>2, <1>3, <1>7, <1>9, <1>10, <1>11, <1>12, <1>13 DEF IInv

\* No step takes the room for a verdict away.
LEMMA StillJudged == Judged /\ [Next]_vars => Judged'
<1> SUFFICES ASSUME Judged, [Next]_vars PROVE Judged'
    OBVIOUS
<1>1. ASSUME NEW r \in Requests, Handles(r)
      PROVE  DOMAIN verdict' = DOMAIN verdict
    BY <1>1 DEF Handles, RefuseCreation, Allocate, Acquire, LockTimesOut, Release, BeginCreation,
           Read, Discard, PeekFindsContent, PeekFindsNothing, StartWrite, Written, Reread,
           StartCompletion, Hashed, Completed, ReportKnown, HookResolves, HookThrows, ownVars
<1>2. ASSUME \/ \E r \in Requests : BodyArrives(r) \/ BodyEnds(r) \/ BodyTorn(r) \/ ClientLeaves(r)
             \/ Sweep \/ StrangerTouches \/ Tick \/ Forgets \/ UNCHANGED vars
      PROVE  DOMAIN verdict' = DOMAIN verdict
    BY <1>2 DEF BodyArrives, BodyEnds, BodyTorn, ClientLeaves, Sweep, StrangerTouches, Tick,
           Forgets, ownVars, vars
<1> QED BY <1>1, <1>2 DEF Next, Judged

\* Every step keeps the invariant.
LEMMA EveryStepKeeps == IInv /\ Judged /\ [Next]_vars => IInv'
<1> SUFFICES ASSUME IInv, Judged, [Next]_vars PROVE IInv'
    OBVIOUS
<1>1. ASSUME NEW r \in Requests, Handles(r)
      PROVE  IInv'
    BY <1>1, RefuseCreationKeeps, AllocateKeeps, AcquireKeeps, LockTimesOutKeeps, ReleaseKeeps,
       BeginCreationKeeps, ReadKeeps, DiscardKeeps, PeekFindsContentKeeps,
       PeekFindsNothingKeeps, StartWriteKeeps, WrittenKeeps, RereadKeeps, StartCompletionKeeps,
       HashedKeeps, CompletedKeeps, ReportKnownKeeps, HookResolvesKeeps, HookThrowsKeeps
       DEF Handles
<1>2. ASSUME NEW r \in Requests, BodyArrives(r) \/ BodyEnds(r) \/ BodyTorn(r)
      PROVE  IInv'
    BY <1>2, BodyKeeps
<1> QED BY <1>1, <1>2, ElsewhereKeeps DEF Next

\* Whatever happens, the invariant holds.
LEMMA Always == Spec => []IInv
<1>1. Init => IInv /\ Judged
    BY Beginning
<1>2. (IInv /\ Judged) /\ [Next]_vars => (IInv /\ Judged)'
    BY StillJudged, EveryStepKeeps
<1> QED BY <1>1, <1>2, PTL DEF Spec

\* The types, and the state every request finds is one the engine accepts.
THEOREM EngineAccepts == Spec => []Inv
<1>1. IInv => Inv
  <2> SUFFICES ASSUME IInv PROVE EngineNeverThrows
    BY DEF IInv, Inv
  <2> QED BY DEF IInv, RecordSound, EngineNeverThrows, SaneState, State
<1> QED BY <1>1, Always, PTL

\* Nobody is told an upload is complete before it was reported.
THEOREM ReportedFirst == Spec => []CompleteMeansReported
<1>1. IInv => CompleteMeansReported
    BY DEF IInv, RequestSound, OutcomeSound, CompleteMeansReported, Decided
<1> QED BY <1>1, Always, PTL

\* Whoever is told that it completed the upload delivered its whole body.
THEOREM WholeBodies == Spec => []WholeBodyPublished
<1>1. IInv => WholeBodyPublished
    BY DEF IInv
<1> QED BY <1>1, Always, PTL

\* What a client is told is durable stays so.
THEOREM ToldStaysDurable == Spec => []ToldOffsetIsDurable
<1>1. IInv => ToldOffsetIsDurable
    BY DEF IInv, RequestSound, OutcomeSound, ToldOffsetIsDurable, Decided, Telling
<1> QED BY <1>1, Always, PTL

\* An end that was announced has come.
THEOREM CondemnedFreed == Spec => []CondemnedIsFreed
<1>1. IInv => CondemnedIsFreed
    BY DEF IInv, RequestSound, OutcomeSound, CondemnedIsFreed, Decided, Condemning
<1> QED BY <1>1, Always, PTL
====

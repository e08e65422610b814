----------------------------- MODULE EngineProofs -----------------------------
(***************************************************************************)
(* What the engine's verdicts make of an upload, for every valid policy.    *)
(*                                                                         *)
(* First UploadDialogue: one upload keeps to its length and to its policy's *)
(* limits, whatever sequence of requests and bodies it is put through;     *)
(* what the verdicts promise of the writes they permit, and what those     *)
(* promises make of the dialogue.                                          *)
(*                                                                         *)
(* Then UploadDialects: what a client of either dialect is told is true,   *)
(* for every size, any number of handlings and faults; the invariant says  *)
(* of each request being handled what its handler may still answer.        *)
(***************************************************************************)
EXTENDS UploadDialogue, UploadDialects, WellFoundedInduction, TLAPS

-------------------------------------------------------------------------------
(* The engine's verdicts *)

\* What an append's bound admits of n bytes keeps within the length, the policy's
\* maximum and its ceiling; it is fatal only where bytes landed and the
\* representation is full (appendBound, src/upload-engine.ts).
LEMMA BoundSound ==
    ASSUME NEW p \in Policies, NEW offset \in Nat,
           NEW length \in Optional, NEW n \in Nat,
           ~Over(offset, length), ~Over(offset, p.maxSize)
    PROVE  LET b == AppendBound(offset, length, p)
               landed == Landed(b, n)
           IN  /\ b.maxBytes \in Optional /\ b.maxBytesFatal \in BOOLEAN
               /\ landed \in Nat /\ landed <= n
               /\ ~Over(offset + landed, length)
               /\ ~Over(offset + landed, p.maxSize)
               /\ ~Over(landed, p.maxAppendSize)
               /\ IF CrossesBound(b, n) THEN landed = b.maxBytes /\ landed < n ELSE landed = n
               /\ b.maxBytesFatal =>
                     /\ b.maxBytes \in Nat \ {0}
                     /\ \A m \in Nat :
                           ~Over(offset + m, length) /\ ~Over(offset + m, p.maxSize)
                              => m <= b.maxBytes
               /\ ~b.maxBytesFatal => b.maxBytes \in {0, p.maxAppendSize}
               /\ length = offset => landed = 0
<1> DEFINE toLength == Room(length, offset)
           toSize == Room(p.maxSize, offset)
           total == Tighter(toLength, toSize)
           b == AppendBound(offset, length, p)
           landed == Landed(b, n)
<1>1. p.maxSize \in Optional /\ p.maxAppendSize \in Optional /\ Unset \notin Nat
    BY UnsetAssumption DEF Policies
<1>2. /\ IF length = Unset THEN toLength = Unset
         ELSE length \in Nat /\ toLength \in Nat /\ offset + toLength = length
      /\ IF p.maxSize = Unset THEN toSize = Unset
         ELSE p.maxSize \in Nat /\ toSize \in Nat /\ offset + toSize = p.maxSize
    BY <1>1 DEF Room, Over, Optional
<1>3. /\ total = Unset => toLength = Unset /\ toSize = Unset
      /\ total # Unset => total \in Nat /\ (toLength # Unset => total <= toLength)
                          /\ (toSize # Unset => total <= toSize)
                          /\ (total = toLength \/ total = toSize)
    BY <1>1, <1>2 DEF Tighter
<1>4. \/ /\ total \in Nat /\ b.maxBytes = total /\ (b.maxBytesFatal <=> total # 0)
         /\ total = 0 \/ p.maxAppendSize = Unset \/ total <= p.maxAppendSize
      \/ /\ total # Unset =>
               total \in Nat \ {0} /\ p.maxAppendSize \in Nat /\ total > p.maxAppendSize
         /\ b.maxBytes = p.maxAppendSize /\ ~b.maxBytesFatal
  <2>1. CASE total # Unset /\ (total = 0 \/ RepresentationBinds(total, p.maxAppendSize))
    BY <1>1, <1>3, <2>1 DEF AppendBound, RepresentationBinds, Fatal
  <2>2. CASE ~(total # Unset /\ (total = 0 \/ RepresentationBinds(total, p.maxAppendSize)))
    <3>1. b.maxBytes = p.maxAppendSize /\ ~b.maxBytesFatal
      BY <2>2 DEF AppendBound
    <3>2. total # Unset =>
               total \in Nat \ {0} /\ p.maxAppendSize \in Nat /\ total > p.maxAppendSize
      BY <1>1, <1>3, <2>2 DEF RepresentationBinds, Optional
    <3> QED BY <3>1, <3>2
  <2> QED BY <2>1, <2>2
<1>12. b.maxBytesFatal \in BOOLEAN
    BY DEF AppendBound, Fatal
<1> HIDE DEF b
<1>5. b.maxBytes \in Optional /\ b.maxBytesFatal \in BOOLEAN
    BY <1>1, <1>4, <1>12 DEF Optional
<1>6. /\ landed \in Nat /\ landed <= n
      /\ IF CrossesBound(b, n) THEN landed = b.maxBytes /\ landed < n ELSE landed = n
      /\ b.maxBytes # Unset => landed <= b.maxBytes
    BY <1>1, <1>5 DEF Landed, Tighter, CrossesBound, Optional
<1> HIDE DEF landed, toLength, toSize, total
<1>7. /\ ~Over(offset + landed, length)
      /\ ~Over(offset + landed, p.maxSize)
  <2>1. /\ toLength # Unset => landed <= toLength
        /\ toSize # Unset => landed <= toSize
    BY <1>1, <1>2, <1>3, <1>4, <1>5, <1>6 DEF Optional
  <2> QED BY <1>1, <1>2, <1>6, <2>1 DEF Over
<1>8. ~Over(landed, p.maxAppendSize)
    BY <1>1, <1>4, <1>5, <1>6 DEF Over, Optional
<1>9. ASSUME b.maxBytesFatal
      PROVE  /\ b.maxBytes \in Nat \ {0}
             /\ \A m \in Nat :
                   ~Over(offset + m, length) /\ ~Over(offset + m, p.maxSize)
                      => m <= b.maxBytes
  <2>1. b.maxBytes = total /\ total \in Nat \ {0}
    BY <1>4, <1>9
  <2>2. ASSUME NEW m \in Nat, ~Over(offset + m, length), ~Over(offset + m, p.maxSize)
        PROVE  m <= total
    BY <1>1, <1>2, <1>3, <2>1, <2>2 DEF Over
  <2> QED BY <2>1, <2>2
<1>10. ~b.maxBytesFatal => b.maxBytes \in {0, p.maxAppendSize}
    BY <1>4
<1>11. length = offset => landed = 0
  <2>1. SUFFICES ASSUME length = offset PROVE landed = 0
    OBVIOUS
  <2>2. toLength = 0 /\ total = 0
    BY <1>1, <1>2, <1>3, <2>1
  <2> QED BY <1>1, <1>4, <1>6, <2>2
<1> QED BY <1>5, <1>6, <1>7, <1>8, <1>9, <1>10, <1>11 DEF b, landed

\* The total an allowed append leaves the upload with, and what it found: the
\* offset, and a body that fits (evaluateAppend, src/upload-engine.ts).
LEMMA AllowedSound ==
    ASSUME NEW p \in Policies, NEW s \in Resources, NEW i,
           i.offset \in Nat, i.contentLength \in Optional, i.declaredLength \in Optional,
           i.complete \in BOOLEAN, EvaluateAppend(i, s, p).kind = "append-allowed",
           ~Over(s.offset, s.length)
    PROVE  LET total == AppendTotal(i, Or(s.length, i.declaredLength))
               v == EvaluateAppend(i, s, p)
               ends == ClientStatesFinal(i, s, Or(s.length, i.declaredLength))
           IN  /\ v = AppendAllowed(i, s, total, p)
               /\ s.status # "complete" /\ i.offset = s.offset
               /\ total \in Optional /\ ~Over(s.offset, total)
               /\ Or(s.length, v.declaredLength) = total
               /\ IF s.length # Unset THEN total = s.length
                  ELSE ~Over(total, p.maxSize) /\ ~Under(total, p.minSize)
               /\ i.contentLength # Unset =>
                     /\ ~Over(s.offset + i.contentLength, total)
                     /\ ~Over(s.offset + i.contentLength, p.maxSize)
                     /\ ~Over(i.contentLength, p.maxAppendSize)
               /\ p.minAppendSize # Unset
                  /\ (i.contentLength # Unset => i.contentLength < p.minAppendSize) =>
                     /\ i.complete
                     /\ IF i.contentLength # Unset THEN total = s.offset + i.contentLength
                        ELSE total \in {Unset, s.offset}
<1> DEFINE length == Or(s.length, i.declaredLength)
           total == AppendTotal(i, length)
           v == EvaluateAppend(i, s, p)
           ends == ClientStatesFinal(i, s, length)
<1>1. /\ s.offset \in Nat /\ s.length \in Optional /\ Unset \notin Nat
      /\ p.maxSize \in Optional /\ p.maxAppendSize \in Optional
      /\ p.minAppendSize \in Optional /\ p.minSize \in Optional
    BY UnsetAssumption DEF Policies, Resources
<1>2. /\ ~LengthMutated(i, s)
      /\ ~TailDisagrees(i, s, length)
      /\ i.offset = s.offset /\ s.status # "complete"
      /\ ~Over(i.contentLength, p.maxAppendSize)
      /\ ~(/\ p.minAppendSize # Unset /\ ~ends
           /\ i.contentLength = Unset \/ Under(i.contentLength, p.minAppendSize))
      /\ ~CrossesLength(i, length)
      /\ ~CrossesMaxSize(i, p)
      /\ s.length = Unset => ~Over(i.declaredLength, p.maxSize)
      /\ ~TotalBelowFloor(i, s, total, p)
      /\ v = AppendAllowed(i, s, total, p)
    BY DEF EvaluateAppend, Inconsistent, Limited, Mismatch, AppendAllowed
<1> HIDE DEF v
<1>3. length \in Optional /\ ~Over(s.offset, length) /\ (s.length # Unset => length = s.length)
    BY <1>1, <1>2 DEF Or, LengthMutated, Over, Optional
<1> HIDE DEF length
<1>4. /\ total \in Optional /\ ~Over(s.offset, total)
      /\ length # Unset => total = length
      /\ i.complete /\ i.contentLength # Unset => total = s.offset + i.contentLength
      /\ i.contentLength = Unset => total = length
    BY <1>1, <1>2, <1>3 DEF AppendTotal, TailDisagrees, Over, Optional
<1>5. Or(s.length, v.declaredLength) = total
    BY <1>1, <1>2, <1>3, <1>4 DEF Or, AppendAllowed
<1>8. IF s.length # Unset THEN total = s.length
      ELSE ~Over(total, p.maxSize) /\ ~Under(total, p.minSize)
  <2>1. CASE s.length # Unset
    BY <1>1, <1>3, <1>4, <2>1
  <2>2. CASE s.length = Unset
    <3>1. length = i.declaredLength /\ ~Under(total, p.minSize)
      BY <1>2, <2>2 DEF Or, TotalBelowFloor, length
    <3>2. ~Over(total, p.maxSize)
      BY <1>1, <1>2, <1>4, <2>2, <3>1 DEF Over, Optional, AppendTotal, CrossesMaxSize
    <3> QED BY <2>2, <3>1, <3>2
  <2> QED BY <2>1, <2>2
<1>6. ASSUME i.contentLength # Unset
      PROVE  /\ ~Over(s.offset + i.contentLength, total)
             /\ ~Over(s.offset + i.contentLength, p.maxSize)
  <2>1. ~Over(s.offset + i.contentLength, length) /\ ~Over(s.offset + i.contentLength, p.maxSize)
    BY <1>2, <1>6 DEF CrossesLength, CrossesMaxSize
  <2> QED BY <1>1, <1>3, <1>4, <1>6, <2>1 DEF Over, Optional, AppendTotal
<1>7. ASSUME p.minAppendSize # Unset, i.contentLength # Unset => i.contentLength < p.minAppendSize
      PROVE  /\ i.complete
             /\ IF i.contentLength # Unset THEN total = s.offset + i.contentLength
                ELSE total \in {Unset, s.offset}
  <2>1. ends
    BY <1>1, <1>2, <1>7 DEF Under, Optional
  <2> QED BY <1>2, <1>4, <2>1 DEF ClientStatesFinal
<1> HIDE DEF total
<1> QED BY <1>2, <1>4, <1>5, <1>6, <1>7, <1>8 DEF v, length, total

\* The same of an accepted creation (evaluateUploadCreation).
LEMMA AcceptedSound ==
    ASSUME NEW p \in Policies, NEW i,
           i.contentLength \in Optional, i.declaredLength \in Optional,
           i.complete \in BOOLEAN, EvaluateUploadCreation(i, p).kind = "create-accepted"
    PROVE  LET total == CreationTotal(i)
               v == EvaluateUploadCreation(i, p)
           IN  /\ v = [kind |-> "create-accepted", bound |-> AppendBound(0, total, p),
                       declaredLength |-> total, completes |-> i.complete, completesAt |-> total]
               /\ total \in Optional
               /\ ~Over(total, p.maxSize) /\ ~Under(total, p.minSize)
               /\ i.contentLength # Unset =>
                     /\ ~Over(0 + i.contentLength, total)
                     /\ ~Over(0 + i.contentLength, p.maxSize)
<1> DEFINE total == CreationTotal(i)
           v == EvaluateUploadCreation(i, p)
<1>1. p.maxSize \in Optional /\ Unset \notin Nat
    BY UnsetAssumption DEF Policies
<1>2. /\ ~CreationInconsistent(i)
      /\ ~Over(Or(total, i.contentLength), p.maxSize) /\ ~Under(total, p.minSize)
      /\ v = [kind |-> "create-accepted", bound |-> AppendBound(0, total, p),
              declaredLength |-> total, completes |-> i.complete, completesAt |-> total]
    BY DEF EvaluateUploadCreation, Inconsistent, Limited
<1> HIDE DEF v
<1>3. total \in Optional
    BY DEF CreationTotal
<1>4. i.contentLength # Unset => ~Over(i.contentLength, total)
    BY <1>1, <1>2 DEF CreationInconsistent, CreationTotal, Over, Optional
<1>5. i.contentLength # Unset => ~Over(i.contentLength, p.maxSize)
    BY <1>1, <1>2, <1>3, <1>4 DEF Or, Over, Optional
<1>6. i.contentLength # Unset => 0 + i.contentLength = i.contentLength
    BY DEF Optional
<1>7. ~Over(total, p.maxSize)
    BY <1>1, <1>2, <1>3 DEF Or, Over, Optional
<1> HIDE DEF total
<1> QED BY <1>2, <1>3, <1>4, <1>5, <1>6, <1>7 DEF v, total

\* What a permitted write leaves fits the total it was permitted under: it is
\* complete only when whole, and invalidated only by bytes that landed and of
\* which there were more than fit.
LEMMA AfterSound ==
    ASSUME rules \in Policies, NEW s \in Resources, NEW v,
           NEW b \in [sends : Nat, torn : BOOLEAN], NEW total \in Optional,
           v.bound = AppendBound(s.offset, total, rules),
           Or(s.length, v.declaredLength) = total,
           v.completes => v.completesAt = total,
           ~Over(s.offset, total), ~Over(s.offset, rules.maxSize)
    PROVE  LET r == After(s, v, b) IN
           /\ r \in Resources /\ r.length = total
           /\ r.offset = s.offset + Landed(v.bound, b.sends)
           /\ ~Over(r.offset, r.length) /\ ~Over(r.offset, rules.maxSize)
           /\ r.status = "complete" =>
                 /\ r.length \in {Unset, r.offset}
                 /\ ~Under(r.offset, rules.minSize)
           /\ r.status = "invalidated" =>
                 /\ r.offset > s.offset
                 /\ Over(s.offset + b.sends, total) \/ Over(s.offset + b.sends, rules.maxSize)
           /\ r.status = "incomplete" =>
                 IF CrossesBound(v.bound, b.sends) THEN ~v.bound.maxBytesFatal
                 ELSE ~CompletionDue(v, b.torn, r.offset) \/ BelowMinSize(rules, r.offset)
<1> DEFINE r == After(s, v, b)
           landed == Landed(v.bound, b.sends)
<1>1. s.offset \in Nat /\ s.length \in Optional /\ b.sends \in Nat /\ b.torn \in BOOLEAN
    BY DEF Resources
<1>2. /\ landed \in Nat
      /\ ~Over(s.offset + landed, total) /\ ~Over(s.offset + landed, rules.maxSize)
      /\ CrossesBound(v.bound, b.sends) => landed = v.bound.maxBytes /\ landed < b.sends
      /\ v.bound.maxBytesFatal =>
            /\ v.bound.maxBytes \in Nat \ {0}
            /\ \A m \in Nat :
                  ~Over(s.offset + m, total) /\ ~Over(s.offset + m, rules.maxSize)
                     => m <= v.bound.maxBytes
    BY <1>1, BoundSound
<1> HIDE DEF landed
<1>3. /\ r = [s EXCEPT !.offset = s.offset + landed, !.length = total,
                       !.status = StatusAfter(v, b, s.offset + landed)]
      /\ r.offset = s.offset + landed /\ r.length = total
      /\ r.status = StatusAfter(v, b, s.offset + landed)
    BY DEF After, Resources, landed
<1> HIDE DEF r
<1>4. /\ r.status \in Statuses
      /\ r.status = "complete" =>
            CompletionDue(v, b.torn, r.offset) /\ ~BelowMinSize(rules, r.offset)
      /\ r.status = "invalidated" => CrossesBound(v.bound, b.sends) /\ v.bound.maxBytesFatal
      /\ r.status = "incomplete" =>
            IF CrossesBound(v.bound, b.sends) THEN ~v.bound.maxBytesFatal
            ELSE ~CompletionDue(v, b.torn, r.offset) \/ BelowMinSize(rules, r.offset)
    BY <1>3 DEF StatusAfter, CrossedStatus, Statuses
<1>5. r \in Resources
  <2>1. s.offset + landed \in Nat /\ StatusAfter(v, b, s.offset + landed) \in Statuses
    BY <1>1, <1>2, <1>3, <1>4
  <2> QED BY <1>3, <2>1 DEF Resources
<1>6. ASSUME r.status = "complete"
      PROVE  r.length \in {Unset, r.offset} /\ ~Under(r.offset, rules.minSize)
    BY <1>3, <1>4, <1>6 DEF CompletionDue, BelowMinSize
<1>7. ASSUME r.status = "invalidated"
      PROVE  /\ r.offset > s.offset
             /\ Over(s.offset + b.sends, total) \/ Over(s.offset + b.sends, rules.maxSize)
  <2>1. landed \in Nat \ {0} /\ ~(b.sends <= v.bound.maxBytes)
    BY <1>1, <1>2, <1>4, <1>7
  <2> QED BY <1>1, <1>2, <1>3, <1>4, <1>7, <2>1
<1> QED BY <1>2, <1>3, <1>4, <1>5, <1>6, <1>7 DEF r, landed

-------------------------------------------------------------------------------
(* The dialogue's requests *)

\* Whether a request ends an upload only by bytes of undeclared size that landed,
\* and a complete one only by a cancel.
EndsByOverrun ==
    /\ resource' # NoUpload /\ resource'.status = "invalidated" /\ resource' # resource =>
          ~handled'.sized /\ (resource # NoUpload => resource'.offset > resource.offset)
    /\ resource # NoUpload /\ resource.status = "complete" /\ resource' # resource =>
          handled'.kind = "discard"

\* Whether what it lands is within the limits on one append.
LandsWithinLimits ==
    resource # NoUpload /\ resource' # NoUpload /\ resource'.offset > resource.offset =>
        LET landed == resource'.offset - resource.offset IN
        /\ ~Over(landed, rules.maxAppendSize)
        /\ Under(landed, rules.minAppendSize) /\ ~handled'.torn
           /\ resource'.status = "incomplete" => BelowMinSize(rules, resource'.offset)

\* A length that is known is one the policy admits: below the minimum or over
\* the maximum no append could complete it, within both one still can.
LengthAdmitted ==
    resource # NoUpload =>
        /\ ~Over(resource.length, rules.maxSize) /\ ~Under(resource.length, rules.minSize)
        /\ WithinBounds(resource)

\* The policy is valid all along, and its minimum no more than the model's bound.
DialogueIInv ==
    /\ DialogueInv /\ LengthAdmitted
    /\ ValidPolicy(rules) /\ ~Over(rules.minSize, MaxBytes)

\* A request and the body a connection delivers for it are counts.
LEMMA RequestType ==
    ASSUME NEW req \in DialogueRequests, NEW b \in Bodies(req)
    PROVE  /\ req.offset \in Nat /\ req.contentLength \in Optional
           /\ req.declaredLength \in Optional /\ req.body \in BOOLEAN
           /\ b \in [sends : Nat, torn : BOOLEAN]
           /\ req.contentLength # Unset =>
                 req.contentLength \in Nat /\ b.sends <= req.contentLength
                 /\ (~b.torn => b.sends = req.contentLength)
<1>1. 0..MaxBytes \subseteq Nat /\ 0..(MaxBytes + 1) \subseteq Nat
    BY BoundsAssumption
<1> QED BY <1>1 DEF DialogueRequests, Bodies, Sizes, Optional

\* A creation keeps the invariant and, from nothing, ends an upload only by an
\* overrun.
LEMMA CreateUploadKeeps ==
    ASSUME DialogueIInv, NEW req \in DialogueRequests, CreateUpload(req)
    PROVE  DialogueIInv' /\ EndsByOverrun /\ LandsWithinLimits
<1> DEFINE i == CreateIntent(req)
           v == EvaluateUploadCreation(i, rules)
           total == CreationTotal(i)
           s == FreshResource(v.declaredLength)
<1>1. /\ rules \in Policies /\ now \in Nat /\ Unset \notin Nat
      /\ UNCHANGED <<rules, now>> /\ resource = NoUpload
    BY UnsetAssumption DEF DialogueIInv, DialogueInv, DialogueTypeOK, CreateUpload
<1>2. PICK b \in Bodies(req) :
          /\ resource' = After(s, v, b)
          /\ handled' = Handling("create", req.contentLength # Unset, b.torn)
    BY DEF CreateUpload
<1>3. /\ i.contentLength = req.contentLength
      /\ i.contentLength \in Optional /\ i.declaredLength \in Optional
      /\ i.complete \in BOOLEAN
      /\ b \in [sends : Nat, torn : BOOLEAN]
      /\ req.contentLength # Unset => req.contentLength \in Nat /\ b.sends <= req.contentLength
    BY RequestType DEF CreateIntent
<1>4. v.kind = "create-accepted"
    BY DEF CreateUpload
<1> HIDE DEF i
<1>5. /\ v = [kind |-> "create-accepted", bound |-> AppendBound(0, total, rules),
              declaredLength |-> total, completes |-> i.complete, completesAt |-> total]
      /\ total \in Optional
      /\ ~Over(total, rules.maxSize) /\ ~Under(total, rules.minSize)
      /\ i.contentLength # Unset =>
            /\ ~Over(0 + i.contentLength, total)
            /\ ~Over(0 + i.contentLength, rules.maxSize)
    BY <1>1, <1>3, <1>4, AcceptedSound
<1> HIDE DEF v, total
<1>6. s \in Resources /\ s.offset = 0 /\ s.length = total
  <2>1. rules.maxAge # Unset => now + rules.maxAge \in Nat
    BY <1>1 DEF Policies, Optional
  <2> QED BY <1>1, <1>5, <2>1 DEF FreshResource, Resources, Statuses, Optional
<1>7. Or(s.length, v.declaredLength) = total
    BY <1>5, <1>6 DEF Or
<1>8. ~Over(s.offset, total) /\ ~Over(s.offset, rules.maxSize)
    BY <1>1, <1>5, <1>6 DEF Over, Policies, Optional
<1>9. v.bound = AppendBound(s.offset, total, rules) /\ (v.completes => v.completesAt = total)
    BY <1>5, <1>6
<1> HIDE DEF s
<1>10. /\ resource' \in Resources /\ resource'.length = total
       /\ ~Over(resource'.offset, resource'.length) /\ ~Over(resource'.offset, rules.maxSize)
       /\ resource'.status = "complete" =>
             /\ resource'.length \in {Unset, resource'.offset}
             /\ ~Under(resource'.offset, rules.minSize)
       /\ resource'.status = "invalidated" =>
             Over(s.offset + b.sends, total) \/ Over(s.offset + b.sends, rules.maxSize)
    BY <1>1, <1>2, <1>3, <1>5, <1>6, <1>7, <1>8, <1>9, AfterSound
<1>11. handled' = [kind |-> "create", sized |-> (req.contentLength # Unset), torn |-> b.torn]
    BY <1>2 DEF Handling
<1>12. DialogueIInv'
  <2>1. DialogueTypeOK'
    BY <1>1, <1>3, <1>10, <1>11 DEF DialogueTypeOK, DialogueIInv, DialogueInv
  <2>2. WithinRepresentation' /\ CompleteIsWhole'
    BY <1>1, <1>10 DEF WithinRepresentation, CompleteIsWhole, Live
  <2>3. LengthAdmitted'
    BY <1>1, <1>5, <1>10 DEF LengthAdmitted, CreateUpload
  <2> QED BY <1>1, <2>1, <2>2, <2>3 DEF DialogueIInv, DialogueInv, ValidPolicy
<1>13. resource'.status = "invalidated" => req.contentLength = Unset
    BY <1>1, <1>3, <1>5, <1>6, <1>10 DEF Over, Optional, Policies
<1> QED BY <1>1, <1>11, <1>12, <1>13 DEF EndsByOverrun, LandsWithinLimits

\* An append the engine allows keeps the invariant, ends the upload only by an
\* overrun of undeclared size, and lands within the limits.
LEMMA AppendBodyKeeps ==
    ASSUME DialogueIInv, NEW req \in DialogueRequests, AppendBody(req)
    PROVE  DialogueIInv' /\ EndsByOverrun /\ LandsWithinLimits
<1> DEFINE i == AppendIntent(req, resource)
           v == EvaluateUploadIntent(i, resource, rules, now)
           total == AppendTotal(i, Or(resource.length, i.declaredLength))
<1>1. /\ rules \in Policies /\ ValidPolicy(rules) /\ now \in Nat /\ Unset \notin Nat
      /\ UNCHANGED <<rules, now>> /\ resource # NoUpload
      /\ resource \in Resources /\ Unset \notin {"invalidated", "expired"}
    BY UnsetAssumption DEF DialogueIInv, DialogueInv, DialogueTypeOK, AppendBody
<1>2. PICK b \in Bodies(req) :
          /\ resource' = After(resource, v, b)
          /\ handled' = Handling("append", req.contentLength # Unset, b.torn)
    BY DEF AppendBody
<1>3. /\ i.contentLength = req.contentLength /\ i.kind = "append"
      /\ i.offset \in Nat /\ i.contentLength \in Optional /\ i.declaredLength \in Optional
      /\ i.complete \in BOOLEAN
      /\ b \in [sends : Nat, torn : BOOLEAN]
      /\ req.contentLength # Unset =>
            req.contentLength \in Nat /\ b.sends <= req.contentLength
            /\ (~b.torn => b.sends = req.contentLength)
    BY RequestType DEF AppendIntent, Infers
<1>4. v.kind = "append-allowed"
    BY DEF AppendBody
<1> HIDE DEF i
<1>5. /\ v = EvaluateAppend(i, resource, rules)
      /\ resource.status # "invalidated"
    BY <1>1, <1>3, <1>4 DEF EvaluateUploadIntent, GoneReason, Gone
<1>6. ~Over(resource.offset, resource.length) /\ ~Over(resource.offset, rules.maxSize)
    BY <1>1, <1>5 DEF DialogueIInv, DialogueInv, WithinRepresentation, Live
<1> HIDE DEF v
<1>7. /\ v = AppendAllowed(i, resource, total, rules)
      /\ resource.status # "complete"
      /\ total \in Optional /\ ~Over(resource.offset, total)
      /\ Or(resource.length, v.declaredLength) = total
      /\ IF resource.length # Unset THEN total = resource.length
         ELSE ~Over(total, rules.maxSize) /\ ~Under(total, rules.minSize)
      /\ i.contentLength # Unset =>
            /\ ~Over(resource.offset + i.contentLength, total)
            /\ ~Over(resource.offset + i.contentLength, rules.maxSize)
            /\ ~Over(i.contentLength, rules.maxAppendSize)
      /\ rules.minAppendSize # Unset
         /\ (i.contentLength # Unset => i.contentLength < rules.minAppendSize) =>
            /\ i.complete
            /\ IF i.contentLength # Unset THEN total = resource.offset + i.contentLength
               ELSE total \in {Unset, resource.offset}
    BY <1>1, <1>3, <1>4, <1>5, <1>6, AllowedSound
<1> HIDE DEF total
<1>8. /\ v.bound = AppendBound(resource.offset, total, rules)
      /\ v.completes = i.complete /\ (i.complete => v.completesAt = total)
    BY <1>7 DEF AppendAllowed
<1>9. /\ resource' \in Resources /\ resource'.length = total
      /\ resource'.offset = resource.offset + Landed(v.bound, b.sends)
      /\ ~Over(resource'.offset, resource'.length) /\ ~Over(resource'.offset, rules.maxSize)
      /\ resource'.status = "complete" =>
            /\ resource'.length \in {Unset, resource'.offset}
            /\ ~Under(resource'.offset, rules.minSize)
      /\ resource'.status = "invalidated" =>
            /\ resource'.offset > resource.offset
            /\ \/ Over(resource.offset + b.sends, total)
               \/ Over(resource.offset + b.sends, rules.maxSize)
      /\ resource'.status = "incomplete" =>
            IF CrossesBound(v.bound, b.sends) THEN ~v.bound.maxBytesFatal
            ELSE \/ ~CompletionDue(v, b.torn, resource'.offset)
                 \/ BelowMinSize(rules, resource'.offset)
    BY <1>1, <1>2, <1>3, <1>6, <1>7, <1>8, AfterSound
<1>10. handled' = [kind |-> "append", sized |-> (req.contentLength # Unset), torn |-> b.torn]
    BY <1>2 DEF Handling
<1>11. DialogueIInv'
  <2>1. DialogueTypeOK'
    BY <1>1, <1>3, <1>9, <1>10 DEF DialogueTypeOK, DialogueIInv, DialogueInv
  <2>2. WithinRepresentation' /\ CompleteIsWhole'
    BY <1>1, <1>9 DEF WithinRepresentation, CompleteIsWhole, Live
  <2>3. LengthAdmitted'
    <3>1. ~Over(total, rules.maxSize) /\ ~Under(total, rules.minSize)
      BY <1>1, <1>7 DEF DialogueIInv, LengthAdmitted
    <3> QED BY <1>1, <1>9, <3>1 DEF LengthAdmitted, AppendBody
  <2> QED BY <1>1, <2>1, <2>2, <2>3 DEF DialogueIInv, DialogueInv, ValidPolicy
<1>12. EndsByOverrun
  <2>1. resource'.status = "invalidated" => req.contentLength = Unset
    BY <1>1, <1>3, <1>7, <1>9 DEF Over, Optional, Policies, Resources
  <2> QED BY <1>7, <1>9, <1>10, <2>1 DEF EndsByOverrun
\* What an append lands that is too little was all of it, or the last.
<1>13. LandsWithinLimits
  <2> DEFINE bound == v.bound
             landed == Landed(bound, b.sends)
  <2>1. /\ bound.maxBytes \in Optional
        /\ landed \in Nat
        /\ ~Over(landed, rules.maxAppendSize)
        /\ IF CrossesBound(bound, b.sends) THEN landed = bound.maxBytes /\ landed < b.sends
           ELSE landed = b.sends
        /\ ~bound.maxBytesFatal => bound.maxBytes \in {0, rules.maxAppendSize}
        /\ total = resource.offset => landed = 0
    <3>1. resource.offset \in Nat /\ b.sends \in Nat
      BY <1>1, <1>3 DEF Resources
    <3> QED BY <1>1, <1>6, <1>7, <1>8, <3>1, BoundSound
  <2>2. resource'.offset - resource.offset = landed
    BY <1>1, <1>9, <2>1 DEF Resources
  <2>3. SUFFICES ASSUME landed > 0, Under(landed, rules.minAppendSize), ~b.torn,
                        resource'.status = "incomplete"
                 PROVE  BelowMinSize(rules, resource'.offset)
    BY <1>1, <1>9, <1>10, <2>1, <2>2 DEF LandsWithinLimits, Resources
  <2> HIDE DEF bound, landed
  <2>4. rules.minAppendSize \in Nat /\ landed < rules.minAppendSize
        /\ (rules.maxAppendSize # Unset => rules.minAppendSize <= rules.maxAppendSize)
        /\ rules.maxAppendSize \in Optional
    BY <1>1, <2>3 DEF Under, ValidPolicy, Exceeds, Policies, Optional
  \* It crossed no bound: a fatal one would have ended the upload, and the
  \* ceiling is no less than the floor.
  <2>5. ~CrossesBound(bound, b.sends)
    BY <1>1, <1>9, <2>1, <2>3, <2>4 DEF CrossesBound, Optional, bound
  <2>6. CASE i.contentLength # Unset
    <3>1. b.sends = i.contentLength /\ i.contentLength \in Nat
      BY <1>3, <2>3, <2>6
    <3>3. landed = i.contentLength
      BY <2>1, <2>5, <3>1
    <3>4. i.complete /\ total = resource'.offset
      BY <1>1, <1>7, <1>9, <2>2, <2>4, <2>6, <3>1, <3>3 DEF landed, bound
    <3> QED BY <1>8, <1>9, <2>3, <2>5, <3>4 DEF CompletionDue, bound
  <2>7. CASE i.contentLength = Unset
    <3>1. i.complete /\ total = Unset
      BY <1>1, <1>7, <2>1, <2>3, <2>4, <2>7
    <3>2. v.completesAt = Unset /\ v.completes
      BY <1>8, <3>1
    <3> QED BY <1>9, <2>3, <2>5, <3>2 DEF CompletionDue, bound
  <2> QED BY <2>6, <2>7
<1> QED BY <1>11, <1>12, <1>13

\* A verdict that frees the upload, a cancel and the clock keep the invariant;
\* no request finds a complete upload expired.
LEMMA OthersKeep ==
    ASSUME DialogueIInv, Condemn \/ Discard \/ Tick \/ UNCHANGED dialogueVars
    PROVE  DialogueIInv' /\ EndsByOverrun /\ LandsWithinLimits
<1>1. /\ DialogueTypeOK /\ WithinRepresentation /\ CompleteIsWhole /\ ValidPolicy(rules)
      /\ LengthAdmitted /\ ~Over(rules.minSize, MaxBytes)
      /\ MaxTime \in Nat
    BY BoundsAssumption DEF DialogueIInv, DialogueInv
<1>2. CASE Condemn \/ Discard
  <2>1. /\ resource' = NoUpload /\ UNCHANGED <<rules, now>>
        /\ \E kind \in {"probe", "discard"} : handled' = Handling(kind, FALSE, FALSE)
    BY <1>2 DEF Condemn, Discard
  <2>2. resource # NoUpload /\ resource.status = "complete" => handled'.kind = "discard"
    <3>1. ASSUME resource.status = "complete"
          PROVE  ~Condemn
      BY <3>1 DEF Condemn, EvaluateUploadIntent, GoneReason, ExpiryGovernsUnfinished,
                  ProbeResult
    <3> QED BY <1>2, <3>1 DEF Discard, Handling
  <2>3. handled' \in [kind : {"create", "append", "probe", "discard"}, sized : BOOLEAN,
                  torn : BOOLEAN]
    BY <2>1 DEF Handling
  <2>4. DialogueIInv'
    BY <1>1, <2>1, <2>3 DEF DialogueIInv, DialogueInv, DialogueTypeOK, WithinRepresentation,
                            CompleteIsWhole, Live, ValidPolicy,
                            LengthAdmitted, WithinBounds
  <2> QED BY <2>1, <2>2, <2>4 DEF EndsByOverrun, LandsWithinLimits
<1>3. CASE Tick \/ UNCHANGED dialogueVars
  <2>1. UNCHANGED <<rules, resource, handled>> /\ now' \in 0..MaxTime
    BY <1>1, <1>3 DEF Tick, dialogueVars, DialogueTypeOK
  <2>2. DialogueIInv'
    BY <1>1, <2>1 DEF DialogueIInv, DialogueInv, DialogueTypeOK, WithinRepresentation, CompleteIsWhole,
                      Live, ValidPolicy, LengthAdmitted, WithinBounds
  <2>3. ~(resource.offset > resource.offset) \/ resource = NoUpload
    BY <1>1 DEF DialogueTypeOK, Resources
  <2> QED BY <2>1, <2>2, <2>3 DEF EndsByOverrun, LandsWithinLimits
<1> QED BY <1>2, <1>3

\* Every step of the dialogue does.
LEMMA Steps ==
    ASSUME DialogueIInv, [DialogueNext]_dialogueVars
    PROVE  DialogueIInv' /\ EndsByOverrun /\ LandsWithinLimits
    BY CreateUploadKeeps, AppendBodyKeeps, OthersKeep DEF DialogueNext

\* The invariant holds of every state of the dialogue.
LEMMA Reached == DialogueSpec => []DialogueIInv
<1>1. DialogueInit => DialogueIInv
  <2> SUFFICES ASSUME DialogueInit PROVE DialogueIInv
    OBVIOUS
  <2>1. /\ Limits \subseteq Optional /\ 0 \in 0..MaxTime
        /\ \A n \in Limits : ~Over(n, MaxBytes)
    BY BoundsAssumption DEF Optional, Over
  <2>2. /\ rules \in [maxSize : Limits, minSize : Limits, maxAppendSize : Limits,
                      minAppendSize : Limits, maxAge : Ages]
        /\ ValidPolicy(rules)
    BY DEF DialogueInit
  <2>3. rules \in Policies /\ ~Over(rules.minSize, MaxBytes)
    BY <2>1, <2>2, BoundsAssumption DEF Policies
  <2> QED BY <2>1, <2>2, <2>3 DEF DialogueInit, DialogueIInv, DialogueInv, DialogueTypeOK, WithinRepresentation,
                      CompleteIsWhole, Live, Handling, LengthAdmitted
<1>2. DialogueIInv /\ [DialogueNext]_dialogueVars => DialogueIInv'
    BY Steps
<1> QED BY <1>1, <1>2, PTL DEF DialogueSpec

\* Whatever the policy, the requests and the bodies that come for them, an
\* upload never holds more than its length or the policy's maximum, and what is
\* published is whole and of a size allowed (evaluateUploadCreation,
\* evaluateAppend and appendBound of src/upload-engine.ts).
THEOREM KeepsToBounds == DialogueSpec => []DialogueInv
<1>1. DialogueIInv => DialogueInv
    BY DEF DialogueIInv
<1> QED BY <1>1, Reached, PTL

\* Only bytes of undeclared size that land past a bound end an upload, and only
\* a cancel ends a complete one (appendBound, isExpired).
THEOREM OverrunKills == DialogueSpec => OnlyUnsizedOverrunKills
<1>1. DialogueIInv /\ [DialogueNext]_dialogueVars => EndsByOverrun
    BY Steps
<1> QED BY <1>1, Reached, PTL DEF DialogueSpec, OnlyUnsizedOverrunKills, EndsByOverrun

\* No append adds more than the ceiling; one that was delivered whole and leaves
\* the upload open adds no less than the floor, but a last one that left it
\* smaller than the policy's minimum (evaluateAppend).
THEOREM WithinLimits == DialogueSpec => AppendWithinLimits
<1>1. DialogueIInv /\ [DialogueNext]_dialogueVars => LandsWithinLimits
    BY Steps
<1> QED BY <1>1, Reached, PTL DEF DialogueSpec, AppendWithinLimits, LandsWithinLimits


-------------------------------------------------------------------------------
(* An upload still open can be finished *)

\* A set of numbers that is not empty has a least one.
LEMMA LeastNumber ==
    ASSUME NEW T, T \subseteq Nat, T # {}
    PROVE  \E x \in T : \A y \in T : x <= y
<1> DEFINE R == OpToRel(<, Nat)
           Below(y, x) == <<y, x>> \in R
<1>1. IsWellFoundedOn(R, Nat)
    BY NatLessThanWellFounded
<1>2. \A x, y \in Nat : y < x => Below(y, x)
    BY DEF OpToRel
<1>3. \E x \in T : \A y \in T : ~Below(y, x)
  <2> HIDE DEF R
  <2> QED BY <1>1, WFMin
<1> HIDE DEF Below
<1> QED BY <1>2, <1>3

\* An append bounded by room, for no more than fits and no more than a request
\* may carry, crosses no bound.
LEMMA NothingCrossed ==
    ASSUME NEW p \in Policies, NEW at \in Nat, NEW total \in Optional, NEW n \in Nat,
           ~Over(at + n, total), ~Over(at + n, p.maxSize), ~Over(n, p.maxAppendSize)
    PROVE  ~CrossesBound(AppendBound(at, total, p), n)
<1> DEFINE b == AppendBound(at, total, p)
<1>1. /\ p.maxSize \in Optional /\ p.maxAppendSize \in Optional /\ Unset \notin Nat
      /\ ~Over(at, total) /\ ~Over(at, p.maxSize)
    BY UnsetAssumption DEF Policies, Over, Optional
<1>2. b.maxBytes \in Optional
    BY <1>1, BoundSound DEF Landed
<1>3. b.maxBytes # Unset => n <= b.maxBytes
    BY <1>1 DEF AppendBound, Room, Tighter, Over, Optional
<1> QED BY <1>1, <1>2, <1>3 DEF CrossesBound, Optional

\* What size an open upload can be finished at: its length, or as much as it
\* holds, but no less than the policy's minimum.
FinalSize(size) ==
    /\ size \in resource.offset..MaxBytes
    /\ resource.length \in {Unset, size}
    /\ ~Over(size, rules.maxSize) /\ ~Under(size, rules.minSize)

\* There is such a size.
LEMMA HasFinalSize ==
    ASSUME DialogueIInv, resource # NoUpload, resource.status = "incomplete"
    PROVE  \E size \in Nat : FinalSize(size)
<1> DEFINE floor == Or(rules.minSize, 0)
           size == IF resource.length # Unset THEN resource.length
                   ELSE IF resource.offset >= floor THEN resource.offset ELSE floor
<1>1. /\ rules.maxSize \in Optional /\ rules.minSize \in Optional /\ Unset \notin Nat
      /\ resource.offset \in Nat /\ resource.length \in Optional /\ MaxBytes \in Nat
    BY UnsetAssumption, BoundsAssumption
    DEF DialogueIInv, DialogueInv, DialogueTypeOK, Policies, Resources
<1>2. /\ ~Over(resource.offset, resource.length) /\ ~Over(resource.offset, rules.maxSize)
      /\ ~Over(resource.length, rules.maxSize) /\ ~Under(resource.length, rules.minSize)
      /\ resource.offset <= MaxBytes /\ ~Over(resource.length, MaxBytes)
      /\ ~Over(rules.minSize, MaxBytes) /\ ~Exceeds(rules.minSize, rules.maxSize)
    BY DEF DialogueIInv, DialogueInv, WithinRepresentation, Live, LengthAdmitted,
           WithinBounds, ValidPolicy
<1>3. size \in Nat /\ resource.offset <= size /\ size <= MaxBytes
    BY <1>1, <1>2 DEF Or, Over, Optional
<1>4. ~Over(size, rules.maxSize) /\ ~Under(size, rules.minSize)
    BY <1>1, <1>2 DEF Or, Over, Under, Exceeds, Optional
<1> QED BY <1>1, <1>3, <1>4 DEF FinalSize

\* From any offset on the way there, the engine lets an append on that goes no
\* further, is within the ceiling, and ends the upload or is not too small.
LEMMA GoesOnToIt ==
    ASSUME DialogueIInv, resource # NoUpload, resource.status = "incomplete",
           NEW size \in Nat, FinalSize(size), NEW at \in resource.offset..size,
           NEW n \in 0..(size - at), ~Over(n, rules.maxAppendSize), NEW complete \in BOOLEAN,
           IF complete THEN at + n = size ELSE ~Under(n, rules.minAppendSize)
    PROVE  Permits(at, n, complete)
<1>1. /\ rules \in Policies /\ rules.minAppendSize \in Optional
      /\ rules.minSize \in Optional /\ rules.maxSize \in Optional
      /\ rules.maxAppendSize \in Optional
      /\ resource \in Resources /\ resource.offset \in Nat /\ resource.createdAt \in Nat
      /\ Unset \notin Nat \cup {"invalidated", "expired"}
    BY UnsetAssumption DEF DialogueIInv, DialogueInv, DialogueTypeOK, Policies, Resources
<1>2. at \in Nat /\ n \in Nat /\ at + n \in Nat /\ at + n <= size /\ at <= size
    BY <1>1
<1>3. SUFFICES ASSUME NEW s, s = [resource EXCEPT !.offset = at],
                      NEW i, i = [kind |-> "append", offset |-> at, contentLength |-> n,
                                  complete |-> complete, completeInferred |-> FALSE,
                                  declaredLength |-> Unset],
                      NEW v, v = EvaluateUploadIntent(i, s, rules, s.createdAt)
               PROVE  /\ v.kind = "append-allowed"
                      /\ ~CrossesBound(v.bound, n)
                      /\ complete => /\ CompletionDue(v, FALSE, at + n)
                                     /\ ~BelowMinSize(rules, at + n)
    BY DEF Permits
<1>4. /\ s.offset = at /\ s.length = resource.length /\ s.status = "incomplete"
      /\ s.createdAt = resource.createdAt
      /\ s.length \in {Unset, size}
    BY <1>1, <1>3 DEF Resources, FinalSize
<1>5. /\ i.kind = "append" /\ i.offset = at /\ i.contentLength = n /\ i.complete = complete
      /\ i.completeInferred = FALSE /\ i.declaredLength = Unset
    BY <1>3
<1>6. v = EvaluateAppend(i, s, rules)
  <2>1. GoneReason(s, rules, s.createdAt) = Unset
    BY <1>1, <1>4 DEF GoneReason, IsExpired
  <2> QED BY <1>3, <1>5, <2>1 DEF EvaluateUploadIntent
<1>7. SUFFICES ASSUME NEW total, total = AppendTotal(i, Or(s.length, i.declaredLength))
               PROVE  /\ v.kind = "append-allowed"
                      /\ ~CrossesBound(v.bound, n)
                      /\ complete => /\ CompletionDue(v, FALSE, at + n)
                                     /\ ~BelowMinSize(rules, at + n)
    OBVIOUS
<1>8. /\ total \in {Unset, size} /\ (complete => total = size)
      /\ s.length = Unset /\ ~complete => total = Unset
      /\ Or(s.length, i.declaredLength) = s.length
    BY <1>1, <1>2, <1>4, <1>5, <1>7 DEF AppendTotal, Or
<1>9. v = AppendAllowed(i, s, total, rules)
  <2>1. ~LengthMutated(i, s) /\ ~Over(i.declaredLength, rules.maxSize)
    BY <1>5 DEF LengthMutated, Over
  <2>2. ~TailDisagrees(i, s, s.length)
    BY <1>1, <1>2, <1>4, <1>5 DEF TailDisagrees
  <2>3. ~Over(i.contentLength, rules.maxAppendSize)
    BY <1>5
  <2>4. ~(/\ rules.minAppendSize # Unset /\ ~ClientStatesFinal(i, s, s.length)
          /\ i.contentLength = Unset \/ Under(i.contentLength, rules.minAppendSize))
    BY <1>1, <1>2, <1>5 DEF ClientStatesFinal
  <2>5. ~CrossesLength(i, s.length)
    BY <1>1, <1>2, <1>4, <1>5 DEF CrossesLength, Over
  <2>6. ~CrossesMaxSize(i, rules)
    BY <1>1, <1>2, <1>5 DEF CrossesMaxSize, Over, FinalSize, Optional
  <2>7. ~TotalBelowFloor(i, s, total, rules)
    BY <1>1, <1>4, <1>8 DEF TotalBelowFloor, Under, FinalSize, Optional
  <2> QED BY <1>4, <1>5, <1>6, <1>7, <1>8, <2>1, <2>2, <2>3, <2>4, <2>5, <2>6, <2>7
          DEF EvaluateAppend
<1>10. ~CrossesBound(v.bound, n)
  <2>1. v.bound = AppendBound(at, total, rules)
    BY <1>4, <1>9 DEF AppendAllowed
  <2>2. total \in Optional /\ ~Over(at + n, total) /\ ~Over(at + n, rules.maxSize)
    BY <1>1, <1>2, <1>8 DEF Over, FinalSize, Optional
  <2> QED BY <1>1, <1>2, <2>1, <2>2, NothingCrossed
<1>11. complete => CompletionDue(v, FALSE, at + n) /\ ~BelowMinSize(rules, at + n)
    BY <1>5, <1>8, <1>9 DEF AppendAllowed, CompletionDue, BelowMinSize, FinalSize
<1> QED BY <1>9, <1>10, <1>11 DEF AppendAllowed

\* Every state of the invariant can be finished from.
LEMMA NeverWedged == DialogueIInv => NoWedge
<1>2. SUFFICES ASSUME DialogueIInv, resource # NoUpload, resource.status = "incomplete",
                      rules.maxAppendSize # 0,
                      NEW S \in SUBSET (0..MaxBytes), resource.offset \notin S
               PROVE  ~ClosedUnderFinishing(S)
    BY DEF NoWedge, FinishableFrom
<1>3. PICK size \in Nat : FinalSize(size)
    BY <1>2, HasFinalSize
<1>4. /\ resource.offset \in Nat /\ MaxBytes \in Nat
      /\ resource.offset <= size /\ size <= MaxBytes
      /\ rules.maxAppendSize \in Optional \ {0} /\ rules.minAppendSize \in Optional
      /\ Unset \notin Nat /\ ~Exceeds(rules.minAppendSize, rules.maxAppendSize)
    BY <1>2, <1>3, UnsetAssumption, BoundsAssumption
    DEF FinalSize, DialogueIInv, DialogueInv, DialogueTypeOK, Policies, Resources, ValidPolicy
\* The last of the offsets that are not in the set.
<1> DEFINE Left == {d \in 0..(size - resource.offset) : size - d \notin S}
<1>5. PICK d \in Left : \A e \in Left : d <= e
  <2>1. size - resource.offset \in Left /\ Left \subseteq Nat
    BY <1>2, <1>4
  <2> QED BY <2>1, LeastNumber
<1> DEFINE at == size - d
<1>6. /\ d \in Nat /\ d <= size - resource.offset /\ at \in resource.offset..size
      /\ at \in (0..MaxBytes) \ S /\ d = size - at
    BY <1>4, <1>5
<1>7. CASE Over(d, rules.maxAppendSize)
  <2> DEFINE n == rules.maxAppendSize
  <2>1. /\ n \in Nat \ {0} /\ n < d /\ ~Over(n, rules.maxAppendSize)
        /\ ~Under(n, rules.minAppendSize)
    BY <1>4, <1>6, <1>7 DEF Over, Under, Exceeds, Optional
  <2> HIDE DEF n
  <2>2. d - n \in 0..(size - resource.offset) /\ d - n < d /\ size - (d - n) = at + n
    BY <1>4, <1>6, <2>1
  <2>3. d - n \notin Left
    BY <1>5, <1>6, <2>1, <2>2
  <2>4. at + n \in S
    BY <2>2, <2>3
  <2>5. n \in 0..(size - at) /\ n \in 1..(MaxBytes - at)
    BY <1>4, <1>6, <2>1
  <2>6. Permits(at, n, FALSE)
    BY <1>2, <1>3, <1>6, <2>1, <2>5, GoesOnToIt
  <2> QED BY <1>6, <2>4, <2>5, <2>6 DEF ClosedUnderFinishing
<1>8. CASE ~Over(d, rules.maxAppendSize)
  <2>1. d \in 0..(size - at) /\ d \in 0..(MaxBytes - at) /\ at + d = size
    BY <1>4, <1>6
  <2>2. Permits(at, d, TRUE)
    BY <1>2, <1>3, <1>6, <1>8, <2>1, GoesOnToIt
  <2> QED BY <1>6, <2>1, <2>2 DEF ClosedUnderFinishing
<1> QED BY <1>7, <1>8

\* Whatever requests an open upload has been through, appends the engine allows
\* lead it to a publication the policy allows, one or one after the other
\* (evaluateUploadCreation, evaluateAppend of src/upload-engine.ts); a ceiling of
\* zero bytes apart.
THEOREM NobodyIsWedged == DialogueSpec => []NoWedge
    BY Reached, NeverWedged, PTL

-------------------------------------------------------------------------------
(* The inductive invariant *)

\* A request that would carry the representation to its end.
Last(req) == req.offset + req.content = Size

\* A request as the client or a handler makes one: it stays within the
\* representation, and says that it is the last one only if it is.
Fit(req) ==
    /\ req.offset + req.content <= Size
    /\ req.contentLength \in {Unset, req.content}
    /\ req.complete = "yes" /\ req.header # "malformed" => Last(req)
Asked(req) ==
    /\ req \in Requests /\ Fit(req)
    /\ req.body <=> req.content > 0
    /\ req.corrupt => req.sum
    /\ req.sum => tus
    /\ IF tus THEN req.complete # "yes" /\ req.header = "absent"
       ELSE /\ req.complete # "infer"
            /\ req.header \in {"?1", "?0"} /\ DecodeCompleteness(req.header) => Last(req)
    /\ req.declaredLength =
          IF req.op = "create" THEN (IF deferred THEN Unset ELSE Size)
          ELSE IF tus /\ deferred /\ req.op = "append" /\ Last(req) THEN Size ELSE Unset
    /\ req.op = "create" => req.offset = 0 /\ (req.complete = "infer" => ~deferred)

\* What a handling that is about to publish goes on, u being the resource.
Begun(s) == s.pc \in {"received", "verified"}
Promised(req, o, u) ==
    /\ tus /\ o.kind \in {"created", "appended", "probed"} /\ req.op # "cancel"
    /\ o.offset = Size /\ o.length = Size /\ o.token \in BOOLEAN
    /\ o.token <=> req.op = "create"
    /\ o.kind = "created" <=> req.op = "create"
    /\ u # None => u.length = Size /\ u.offset = Size

\* An answer that waits for its client: it is not ahead of the upload, says
\* that nothing is there only where nothing is, and is taken for success only
\* where the representation has been published, as p.
Answered(req, a, u, p) ==
    /\ a.offset \in 0..Size \cup {Unset} /\ a.location \in BOOLEAN /\ a.status \in Nat
    /\ a.location => req.op = "create"
    /\ a.offset # Unset /\ u # None => a.offset <= u.offset
    /\ Satisfied(req, a) => p # None
    /\ Vanished(req, a) => u = None
    /\ ~GivesUp(a)
    /\ req.op = "create" /\ ~a.location =>
          /\ a.offset = Unset /\ a.status # 201
          /\ a.status # 423 => u = None

Stands(s, u, p) ==
    /\ s.pc \in {"received", "verified", "healing", "answering"}
    /\ Asked(s.req)
    /\ s.pc = "verified" => ~s.req.corrupt
    /\ Begun(s) => s = [pc |-> s.pc, req |-> s.req] /\ (s.req.op = "create" => u = None)
    /\ s.pc = "healing" =>
          /\ Promised(s.req, s.outcome, u)
          /\ s.req.op = "create" /\ u # None => u.status # "complete"
    /\ s.pc = "answering" => Answered(s.req, s.answer, u, p)

\* Until the client has a location, a creation is all that is handled.
Alone(h) ==
    ~client.located =>
        /\ client.at \in {h, "stranded"}
        /\ \A g \in Handlings : Busy(g) => g = h
Handled(h) ==
    Busy(h) =>
        /\ Stands(server[h], upload, published)
        /\ server[h].req.op = "cancel" => client.quits
        /\ server[h].req.op = "create" <=> ~client.located
        /\ Alone(h)

Setting ==
    /\ dialect \in Dialects /\ policy \in Surfaces /\ deferred \in BOOLEAN
    /\ DOMAIN server = Handlings
Held(u, p) ==
    u # None =>
        /\ u \in Resource /\ ~u.soiled
        /\ ~deferred => u.length = Size
        /\ u.status = "complete" => p # None
Out(u, p) ==
    p # None =>
        /\ p \in Publication
        /\ p.length = Size /\ ~p.soiled
        /\ client.quits \/ (u # None /\ u.status = "complete")
Informed(u, p) ==
    /\ client.offset # Unset /\ u # None => client.offset <= u.offset
    /\ client.at = "idle" /\ ~client.located => u = None
    /\ client.at = "gone" => u = None
    /\ client.at # "failed"
    /\ client.at = "done" => p # None
    /\ ~client.located => client.offset = Unset
IInv ==
    /\ TypeOK /\ Setting
    /\ Held(upload, published) /\ Out(upload, published) /\ Informed(upload, published)
    /\ \A h \in Handlings : Handled(h)

-------------------------------------------------------------------------------
(* The engine's verdicts *)

\* What the proofs use of the constants.
LEMMA Constants ==
    /\ Unset \notin Nat /\ Size \in Nat /\ Size # 0 /\ MaxFaults \in Nat
    /\ Surfaces \subseteq Policies
    BY UnsetAssumption, DialectsAssumption

\* A write that a verdict allows at the resource s: it is finished with it only
\* if that takes it to Size.
Allows(v, req, s) ==
    /\ v.bound.maxBytes \in Nat \cup {Unset}
    /\ v.declaredLength \in {Size, Unset}
    /\ req.offset = s.offset
    /\ s.status = "incomplete"
    /\ req.declaredLength = Size \/ ~deferred => Or(s.length, v.declaredLength) = Size
    /\ req.complete = "yes" => v.completes
    /\ v.completes =>
          \/ v.completesAt = Size
          \/ v.completesAt = Unset /\ deferred /\ Last(req)

\* The bound of a write is a count or none.
LEMMA BoundIsACount ==
    ASSUME NEW p \in Policies, NEW offset \in Nat, NEW length \in Nat \cup {Unset}
    PROVE  AppendBound(offset, length, p).maxBytes \in Nat \cup {Unset}
<1>1. p.maxSize \in Nat \cup {Unset} /\ p.maxAppendSize \in Nat \cup {Unset}
    BY DEF Policies, Optional
<1>2. Room(length, offset) \in Nat \cup {Unset} /\ Room(p.maxSize, offset) \in Nat \cup {Unset}
    BY <1>1, Constants DEF Room
<1>3. Tighter(Room(length, offset), Room(p.maxSize, offset)) \in Nat \cup {Unset}
    BY <1>2 DEF Tighter
<1> QED BY <1>1, <1>3 DEF AppendBound

\* An accepted creation allows its write.
LEMMA CreationAllows ==
    ASSUME NEW req, Asked(req), req.op = "create", policy \in Policies, deferred \in BOOLEAN,
           req.header # "malformed", CreationVerdict(req).kind = "create-accepted"
    PROVE  Allows(CreationVerdict(req), req, Fresh(CreationVerdict(req).declaredLength))
<1> DEFINE i == CreateIntent(req)
           v == CreationVerdict(req)
           total == CreationTotal(i)
<1>1. v = [kind |-> "create-accepted", bound |-> AppendBound(0, total, policy),
           declaredLength |-> total, completes |-> i.complete, completesAt |-> total]
    BY DEF CreationVerdict, EvaluateUploadCreation, Inconsistent, Limited
<1>2. /\ req.offset = 0 /\ req.content \in 0..Size /\ req.contentLength \in {Unset, req.content}
      /\ req.declaredLength = IF deferred THEN Unset ELSE Size
      /\ req.complete \in {"yes", "no", "infer"}
      /\ req.complete = "yes" => req.content = Size
      /\ req.complete = "infer" => ~deferred
    BY Constants DEF Asked, Fit, Last, Requests
<1>8. /\ i.declaredLength = req.declaredLength /\ i.contentLength = req.contentLength
      /\ i.complete \in BOOLEAN /\ (i.complete <=> req.complete # "no")
    BY DEF CreateIntent
<1>9. /\ req.complete = "yes" => req.content = Size /\ Last(req)
    BY <1>2 DEF Last
<1>3. /\ total \in {Size, Unset} /\ (~deferred => total = Size)
      /\ i.complete => total = Size \/ (total = Unset /\ deferred /\ Last(req))
    BY <1>2, <1>8, <1>9, Constants DEF CreationTotal
<1>4. AppendBound(0, total, policy).maxBytes \in Nat \cup {Unset}
    BY <1>3, BoundIsACount, Constants
<1> HIDE DEF v, total, i
<1>5. Fresh(v.declaredLength).length = total /\ Fresh(v.declaredLength).offset = 0
      /\ Fresh(v.declaredLength).status = "incomplete"
    BY <1>1 DEF Fresh
<1>6. Or(total, total) = total
    BY DEF Or
<1>7. req.declaredLength = Size => ~deferred
    BY <1>2, Constants
<1> QED BY <1>1, <1>2, <1>3, <1>4, <1>5, <1>6, <1>7, <1>8 DEF Allows, v

AppendVerdict(req, s) == EvaluateUploadIntent(AppendIntent(req, s), s, policy, Now)

\* What the verdict on an append may be, and what it says of the resource.
LEMMA AppendJudged ==
    ASSUME NEW req, req \in Requests, Fit(req), req.header # "malformed", policy \in Policies,
           NEW s, s \in Resource, deferred \in BOOLEAN, ~deferred => s.length = Size
    PROVE  LET v == AppendVerdict(req, s) IN
           \/ v.kind = "append-allowed" /\ Allows(v, req, s)
           \/ v.kind = "already-complete" /\ s.status = "complete" /\ req.offset = s.offset
           \/ v.kind = "gone" /\ s.status # "complete"
           \/ v.kind = "offset-mismatch" /\ v.correctOffset = s.offset
           \/ v.kind = "length-inconsistent"
           \/ v.kind = "limit-violation"
<1> DEFINE i == AppendIntent(req, s)
           v == AppendVerdict(req, s)
           length == Or(s.length, i.declaredLength)
           total == AppendTotal(i, length)
<1>1. /\ req.offset \in 0..Size /\ req.content \in 0..Size
      /\ req.contentLength \in {Unset, req.content} /\ req.declaredLength \in {Size, Unset}
      /\ req.complete = "yes" => Last(req)
      /\ s.offset \in 0..Size /\ s.length \in {Size, Unset} /\ s.status \in Statuses
    BY DEF Fit, Requests, Resource
<1>2. /\ i.kind = "append" /\ i.offset = req.offset /\ i.contentLength = req.contentLength
      /\ i.declaredLength = req.declaredLength /\ i.complete \in BOOLEAN
      /\ req.complete = "yes" => i.complete
      /\ i.complete => (Last(req) /\ req.complete = "yes") \/ length = Size
    BY <1>1 DEF AppendIntent, Infers, Or
<1>3. /\ length \in {Size, Unset} /\ (s.length # Unset => length = s.length)
      /\ req.declaredLength = Size \/ ~deferred => length = Size
    BY <1>1, <1>2, Constants DEF Or
<1>4. /\ total \in {Size, Unset} /\ (length = Size => total = Size)
      /\ i.complete => total = Size \/ (total = Unset /\ deferred /\ Last(req))
    BY <1>1, <1>2, <1>3, Constants DEF AppendTotal, Last
<1> HIDE DEF i, length, total
<1>5. CASE GoneReason(s, policy, Now) # Unset
  <2>1. v.kind = "gone"
    BY <1>5 DEF AppendVerdict, EvaluateUploadIntent, Gone
  <2>2. s.status # "complete"
    BY <1>5 DEF GoneReason, ExpiryGovernsUnfinished
  <2> QED BY <2>1, <2>2
<1>6. CASE GoneReason(s, policy, Now) = Unset
  <2>1. v = EvaluateAppend(i, s, policy)
    BY <1>2, <1>6 DEF AppendVerdict, EvaluateUploadIntent, i
  <2>2. s.status # "invalidated"
    BY <1>6, UnsetAssumption DEF GoneReason
  <2>3. v.kind = "append-allowed" => v = AppendAllowed(i, s, total, policy) /\ s.status # "complete"
                                     /\ i.offset = s.offset
    BY <2>1 DEF EvaluateAppend, Inconsistent, Limited, Mismatch, total, length
  <2>4. v.kind = "append-allowed" => Allows(v, req, s)
    <3> SUFFICES ASSUME v.kind = "append-allowed" PROVE Allows(v, req, s)
      OBVIOUS
    <3>1. v = AppendAllowed(i, s, total, policy) /\ s.status = "incomplete" /\ req.offset = s.offset
      BY <1>1, <1>2, <2>2, <2>3 DEF Statuses
    <3>2. AppendBound(s.offset, total, policy).maxBytes \in Nat \cup {Unset}
      BY <1>1, <1>4, BoundIsACount, Constants
    <3>3. Or(s.length, IF s.length = Unset THEN total ELSE Unset)
             = IF s.length = Unset THEN total ELSE s.length
      BY DEF Or
    <3> HIDE DEF v
    <3> QED BY <1>1, <1>2, <1>3, <1>4, <3>1, <3>2, <3>3, Constants DEF Allows, AppendAllowed
  <2>5. \/ v = Inconsistent \/ v = Mismatch(s) \/ v = AppendAllowed(i, s, total, policy)
        \/ v = [kind |-> "already-complete"] /\ s.status = "complete" /\ i.offset = s.offset
        \/ \E reason \in {"size-exceeded", "append-too-large", "append-too-small",
                           "below-min-size"} : v = Limited(reason)
    BY <2>1 DEF EvaluateAppend, total, length
  <2>6. \/ v.kind = "append-allowed"
        \/ v.kind = "already-complete" /\ s.status = "complete" /\ i.offset = s.offset
        \/ v.kind = "offset-mismatch" /\ v.correctOffset = s.offset
        \/ v.kind = "length-inconsistent"
        \/ v.kind = "limit-violation"
    <3> HIDE DEF v
    <3> QED BY <2>5 DEF AppendAllowed, Inconsistent, Limited, Mismatch
  <2> QED BY <1>2, <2>4, <2>6
<1> QED BY <1>5, <1>6

-------------------------------------------------------------------------------
(* Writes *)

\* What a write makes of the resource, and that it is finished with only at Size.
LEMMA WriteLands ==
    ASSUME NEW req, req \in Requests, Fit(req), req.header # "malformed", ~req.corrupt,
           deferred \in BOOLEAN,
           NEW s, s \in Resource, ~s.soiled, NEW v, Allows(v, req, s),
           NEW b, b \in Deliveries(req)
    PROVE  LET kept == Lands(req, s, v, b) IN
           /\ kept \in Resource /\ ~kept.soiled /\ kept.status = "incomplete"
           /\ s.offset <= kept.offset
           /\ kept.length = Or(s.length, v.declaredLength)
           /\ req.offset <= kept.offset
           /\ Due(v, b, kept) => kept.offset = Size /\ ~Torn(v, b) /\ ~Crosses(v, b)
<1> DEFINE kept == Lands(req, s, v, b)
           landed == Tighter(v.bound.maxBytes, b.n)
<1>1. /\ req.offset \in 0..Size /\ req.content \in 0..Size
      /\ req.offset + req.content <= Size /\ req.offset = s.offset
      /\ s.offset \in 0..Size /\ s.length \in {Size, Unset} /\ s.soiled \in BOOLEAN
      /\ s.status = "incomplete" /\ s.createdAt = 0 /\ s.expiresAt \in {Unset, Now}
      /\ b.n \in 0..req.content /\ b.end \in {"whole", "torn", "short"}
    BY DEF Fit, Requests, Resource, Deliveries, Allows
<1>2. /\ landed \in Nat /\ landed <= b.n /\ (~Crosses(v, b) => landed = b.n)
    BY <1>1, Constants DEF Tighter, Allows, Crosses, Over
<1> HIDE DEF landed
<1>3. kept = [s EXCEPT !.offset = s.offset + landed, !.length = Or(s.length, v.declaredLength),
                       !.soiled = s.soiled \/ (landed > 0 /\ req.corrupt)]
    BY DEF Lands, landed
<1>4. Or(s.length, v.declaredLength) \in {Size, Unset}
    BY <1>1 DEF Or, Allows
<1>5. /\ kept.offset = s.offset + landed /\ kept.length = Or(s.length, v.declaredLength)
      /\ kept.status = "incomplete" /\ ~kept.soiled
      /\ kept \in Resource
  <2>1. /\ kept.offset = s.offset + landed /\ kept.length = Or(s.length, v.declaredLength)
        /\ kept.status = s.status /\ kept.createdAt = s.createdAt
        /\ kept.expiresAt = s.expiresAt /\ kept.soiled = FALSE
        /\ kept = [offset |-> kept.offset, length |-> kept.length, status |-> kept.status,
                   createdAt |-> kept.createdAt, expiresAt |-> kept.expiresAt,
                   soiled |-> kept.soiled]
    BY <1>3 DEF Resource
  <2>2. s.offset + landed \in 0..Size
    BY <1>1, <1>2, Constants
  <2> HIDE DEF kept
  <2> QED BY <1>1, <1>4, <2>1, <2>2 DEF Resource, Statuses
<1> HIDE DEF kept
<1>6. ASSUME Due(v, b, kept) PROVE kept.offset = Size /\ ~Torn(v, b) /\ ~Crosses(v, b)
  <2>1. /\ ~Crosses(v, b) /\ ~Torn(v, b) /\ v.completes
        /\ v.completesAt \in {Unset, kept.offset}
    BY <1>6 DEF Due, Reaches, CompletionDue
  <2>2. CASE v.completesAt = Size
    BY <2>1, <2>2, Constants
  <2>3. CASE v.completesAt = Unset /\ deferred /\ Last(req)
    <3>1. b.n = req.content
      BY <2>1, <2>3 DEF Deliveries, Torn
    <3> QED BY <1>1, <1>2, <1>5, <2>1, <2>3, <3>1 DEF Last
  <2> QED BY <2>1, <2>2, <2>3 DEF Allows
<1> QED BY <1>1, <1>2, <1>5, <1>6 DEF kept

\* What an orchestrator's answer may say, u and p being the resource and what
\* is published by then.
Stated(req, o, u, p) ==
    /\ o.offset \in 0..Size /\ o.at \in 0..Size \cup {Unset} /\ o.length \in {Size, Unset}
    /\ o.complete \in BOOLEAN /\ o.interrupted \in BOOLEAN /\ o.token \in BOOLEAN
    /\ o.token => req.op = "create"
    /\ u # None /\ o.at # Unset => o.at <= u.offset
    /\ u # None /\ o.kind \in {"created", "appended", "probed"} =>
          o.offset <= u.offset /\ (o.length = Size => u.length = Size)
    /\ o.complete => p # None /\ ~o.interrupted
    /\ o.kind = "created" => o.token /\ o.length = req.declaredLength
    /\ o.kind = "created" /\ ~o.complete /\ u # None => u.status # "complete"
    /\ o.kind = "appended" =>
          req.op = "append" /\ (req.declaredLength = Size \/ ~deferred => o.length = Size)
    /\ o.kind = "probed" => req.op = "probe" /\ (~deferred => o.length = Size)
    /\ o.kind = "already-complete" =>
          req.op = "append" /\ p # None /\ (u # None => req.offset <= u.offset)
    /\ o.kind = "cancelled" => req.op = "cancel" /\ u = None
    /\ o.kind \in {"gone", "not-found"} => u = None
    /\ req.op = "create" /\ ~o.token => o.at = Unset /\ (o.kind # "contended" => u = None)

\* A refusal that names no offset.
LEMMA RefusalStated ==
    ASSUME NEW req, NEW u, NEW p, NEW kind, NEW token, token \in BOOLEAN,
           token => req.op = "create",
           kind \notin {"created", "appended", "probed", "already-complete", "cancelled"},
           kind \in {"gone", "not-found"} => u = None,
           req.op = "create" /\ ~token /\ kind # "contended" => u = None
    PROVE  Stated(req, Reject(kind, Unset, token), u, p)
    BY Constants DEF Stated, Reject, Outcome

\* What the orchestrator says of a write.
LEMMA WriteStated ==
    ASSUME NEW req, req \in Requests, Fit(req), NEW s, NEW v, Allows(v, req, s), NEW b,
           NEW kept, kept \in Resource, NEW fate, fate \in Fates \ {"died"},
           NEW created \in BOOLEAN, created <=> req.op = "create", req.op \in {"create", "append"},
           NEW u, NEW p, u = None \/ (u.offset = kept.offset /\ u.length = kept.length),
           kept.length = Or(s.length, v.declaredLength),
           created => req.declaredLength = IF deferred THEN Unset ELSE Size,
           Due(v, b, kept) => ~Torn(v, b) /\ (fate = "fine" => p # None),
           u # None /\ u.status = "complete" => Due(v, b, kept),
           fate \in {"unpublished", "unreported", "leaseless"} => Due(v, b, kept)
    PROVE  Stated(req, Told(req, v, b, fate, kept, created), u, p)
<1> DEFINE o == Told(req, v, b, fate, kept, created)
<1> SUFFICES Stated(req, o, u, p)
    OBVIOUS
<1>1. /\ kept.offset \in 0..Size /\ kept.length \in {Size, Unset}
      /\ Due(v, b, kept) \in BOOLEAN /\ Torn(v, b) \in BOOLEAN
      /\ req.declaredLength \in {Size, Unset}
    BY DEF Resource, Requests, Due, Torn, Reaches, CompletionDue
<1>5. Due(v, b, kept) =>
          /\ ~Crosses(v, b) /\ Reaches(v, b, kept)
          /\ ~StatedShort(req, Torn(v, b), v.completesAt, kept.offset)
    BY DEF Due, Reaches, CompletionDue, StatedShort
<1>2. CASE fate = "leaseless"
  <2>1. o = Reject("contended", Unset, FALSE)
    BY <1>2, <1>5 DEF Told
  <2>2. FALSE \in BOOLEAN
    OBVIOUS
  <2> HIDE DEF o
  <2> QED BY <2>1, <2>2, RefusalStated
<1>3. CASE fate \in {"unpublished", "unreported"}
  <2>1. o = Reject("store-error", Unset, created)
    BY <1>3, <1>5 DEF Told
  <2> QED BY <2>1, RefusalStated
<1>4. CASE fate = "fine"
  <2>1. \/ \E kind \in {"too-large", "length-inconsistent", "limit-violation"} :
              o = Reject(kind, Unset, created)
        \/ \E kind \in {"too-large", "length-inconsistent"} :
              o = Reject(kind, kept.offset, created)
        \/ o = Outcome(IF created THEN "created" ELSE "appended", kept.offset,
                       IF created THEN req.declaredLength ELSE kept.length,
                       Due(v, b, kept), Torn(v, b), Unset, created)
    BY <1>4, <1>5 DEF Told, EndReached
  <2>2. CASE \E kind \in {"too-large", "length-inconsistent", "limit-violation"} :
                o = Reject(kind, Unset, created)
    BY <2>2, RefusalStated
  <2>3. CASE \E kind \in {"too-large", "length-inconsistent"} :
                o = Reject(kind, kept.offset, created)
    <3> HIDE DEF o
    <3>1. /\ o.kind \in {"too-large", "length-inconsistent"} /\ o.offset = 0 /\ o.length = Unset
          /\ o.complete = FALSE /\ o.interrupted = FALSE /\ o.at = kept.offset
          /\ o.token \in BOOLEAN /\ (o.token <=> req.op = "create")
      BY <2>3 DEF Reject, Outcome
    <3>2. kept.offset \in Nat /\ kept.offset <= kept.offset
      BY <1>1, Constants
    <3>3. u # None => o.at <= u.offset
      BY <3>1, <3>2
    <3>4. o.offset \in 0..Size /\ o.at \in 0..Size
      BY <1>1, <3>1, Constants
    <3> QED BY <3>1, <3>3, <3>4 DEF Stated
  <2>4. CASE o = Outcome(IF created THEN "created" ELSE "appended", kept.offset,
                         IF created THEN req.declaredLength ELSE kept.length,
                         Due(v, b, kept), Torn(v, b), Unset, created)
    <3> HIDE DEF o
    <3>1. /\ o.kind = IF created THEN "created" ELSE "appended"
          /\ o.offset = kept.offset
          /\ o.length = IF created THEN req.declaredLength ELSE kept.length
          /\ o.complete = Due(v, b, kept) /\ o.interrupted = Torn(v, b) /\ o.at = Unset
          /\ o.token = created
      BY <2>4 DEF Outcome
    <3>2. created /\ req.declaredLength = Size => kept.length = Size
      BY DEF Allows
    <3>3. ~created /\ (req.declaredLength = Size \/ ~deferred) => kept.length = Size
      BY DEF Allows
    <3> QED BY <1>1, <1>4, <3>1, <3>2, <3>3, Constants DEF Stated
  <2> QED BY <2>1, <2>2, <2>3, <2>4
<1> QED BY <1>2, <1>3, <1>4 DEF Fates

-------------------------------------------------------------------------------
(* Answers *)

\* A refusal's answer, of either dialect, is not a success.
LEMMA TusRefusalAnswered ==
    ASSUME NEW req, NEW o, NEW u, NEW p, tus,
           o.at \in 0..Size \cup {Unset}, u # None /\ o.at # Unset => o.at <= u.offset,
           o.kind \in {"gone", "not-found"} => u = None,
           NEW a, a.status = TusRejects(o).status, a.offset = TusRejects(o).offset,
           a.location \in BOOLEAN, a.location => req.op = "create",
           req.op = "create" /\ ~a.location => o.at = Unset /\ (o.kind # "contended" => u = None)
    PROVE  Answered(req, a, u, p)
<1>1. /\ a.status \in {404, 409, 410, 413, 400, 423, 502}
      /\ a.status \in {404, 410} => o.kind \in {"gone", "not-found"}
      /\ o.kind = "contended" => a.status = 423
      /\ a.offset \in {Unset, o.at}
    BY DEF TusRejects, Blank, Response
<1>2. ~Satisfied(req, a) /\ ~GivesUp(a)
    BY <1>1 DEF Satisfied, GivesUp
<1>3. Vanished(req, a) => u = None
    BY <1>1 DEF Vanished
<1>4. a.status \in Nat /\ a.status # 201
    BY <1>1
<1>5. a.offset \in 0..Size \cup {Unset} /\ (a.offset # Unset /\ u # None => a.offset <= u.offset)
    BY <1>1
<1>6. req.op = "create" /\ ~a.location =>
          a.offset = Unset /\ (a.status # 423 => u = None)
    BY <1>1
<1> QED BY <1>2, <1>3, <1>4, <1>5, <1>6 DEF Answered

\* An answer that says nothing but that the request has failed.
LEMMA BlankAnswered ==
    ASSUME NEW req, NEW u, NEW p, NEW status \in {400, 460, 500}, req.op = "create" => u = None
    PROVE  Answered(req, Blank(status), u, p)
<1> DEFINE a == Blank(status)
<1> SUFFICES Answered(req, a, u, p)
    OBVIOUS
<1>1. a.status = status /\ a.offset = Unset /\ a.location = FALSE
    BY DEF Blank, Response
<1> HIDE DEF a
<1>2. a.location \in BOOLEAN /\ ~a.location
    BY <1>1
<1>3. a.status \in Nat /\ a.status \in {400, 460, 500}
    BY <1>1
<1>4. ~Satisfied(req, a) /\ ~GivesUp(a) /\ ~Vanished(req, a)
    BY <1>3 DEF Satisfied, GivesUp, Vanished
<1> QED BY <1>1, <1>2, <1>3, <1>4 DEF Answered

\* What a tus handler makes of an outcome that leaves nothing to publish.
LEMMA TusAnswered ==
    ASSUME NEW req, Asked(req), NEW o, NEW u, NEW p, Stated(req, o, u, p), tus,
           deferred \in BOOLEAN, ~HealDue(o)
    PROVE  Answered(req, TusAnswers(req, o), u, p)
<1> DEFINE a == TusAnswers(req, o)
<1> SUFFICES Answered(req, a, u, p)
    OBVIOUS
<1>1. /\ req.offset \in 0..Size /\ o.offset \in 0..Size /\ o.length \in {Size, Unset}
      /\ req.declaredLength \in {Size, Unset} /\ req.body \in BOOLEAN /\ o.complete \in BOOLEAN
    BY DEF Asked, Requests, Stated
<1>2. CASE o.kind = "created"
  <2>1. /\ a.status = 201 /\ a.offset \in {o.offset, Unset} /\ a.length = Unset
        /\ a.location = TRUE
    BY <1>2 DEF TusAnswers, Response
  <2>2. req.op = "create" /\ o.length = req.declaredLength
    BY <1>2 DEF Stated
  <2> HIDE DEF a
  <2>3. ASSUME Satisfied(req, a) PROVE p # None
    <3>1. o.offset = Size /\ o.length = Size
      BY <1>1, <2>1, <2>2, <2>3, Constants DEF Satisfied, Asked
    <3>2. o.complete
      BY <1>2, <3>1, Constants DEF HealDue, Unpublished
    <3> QED BY <3>2 DEF Stated
  <2>4. ~Vanished(req, a) /\ ~GivesUp(a)
    BY <2>1, <2>2 DEF Vanished, GivesUp
  <2>5. a.offset # Unset /\ u # None => a.offset <= u.offset
    BY <1>2, <2>1 DEF Stated
  <2>6. a.location \in BOOLEAN /\ (a.location => req.op = "create")
    BY <2>1, <2>2
  <2>7. a.offset \in 0..Size \cup {Unset} /\ a.status \in Nat
    BY <1>1, <2>1
  <2> QED BY <2>1, <2>2, <2>3, <2>4, <2>5, <2>6, <2>7 DEF Answered
<1>3. CASE o.kind = "appended"
  <2>1. /\ a.status = 204 /\ a.offset = o.offset /\ a.length = Unset /\ a.location = FALSE
    BY <1>3 DEF TusAnswers, Blank, Response
  <2>2. req.op = "append" /\ (req.declaredLength = Size \/ ~deferred => o.length = Size)
    BY <1>3 DEF Stated
  <2> HIDE DEF a
  <2>3. ASSUME Satisfied(req, a) PROVE p # None
    <3>1. o.offset = Size /\ o.length = Size
      BY <1>1, <2>1, <2>2, <2>3, Constants DEF Satisfied
    <3>2. o.complete
      BY <1>3, <3>1, Constants DEF HealDue, Unpublished
    <3> QED BY <3>2 DEF Stated
  <2>4. ~Vanished(req, a) /\ ~GivesUp(a)
    BY <2>1, <2>2 DEF Vanished, GivesUp
  <2>5. a.offset # Unset /\ u # None => a.offset <= u.offset
    BY <1>3, <2>1 DEF Stated
  <2>6. a.location \in BOOLEAN /\ (a.location => req.op = "create")
    BY <2>1, <2>2
  <2>7. a.offset \in 0..Size \cup {Unset} /\ a.status \in Nat
    BY <1>1, <2>1
  <2> QED BY <2>1, <2>2, <2>3, <2>4, <2>5, <2>6, <2>7 DEF Answered
<1>4. CASE o.kind = "already-complete"
  <2>1. /\ a.status = 204 /\ a.offset = req.offset /\ a.location = FALSE
    BY <1>4 DEF TusAnswers, Blank, Response
  <2>2. req.op = "append" /\ p # None /\ (u # None => req.offset <= u.offset)
    BY <1>4 DEF Stated
  <2> HIDE DEF a
  <2>3. ~Vanished(req, a) /\ ~GivesUp(a)
    BY <2>1, <2>2 DEF Vanished, GivesUp
  <2>6. a.location \in BOOLEAN /\ (a.location => req.op = "create")
    BY <2>1, <2>2
  <2>7. a.offset \in 0..Size \cup {Unset} /\ a.status \in Nat
    BY <1>1, <2>1
  <2> QED BY <2>1, <2>2, <2>3, <2>6, <2>7 DEF Answered
<1>5. CASE o.kind = "probed"
  <2>1. /\ a.status = 200 /\ a.offset = o.offset /\ a.length = o.length /\ a.location = FALSE
    BY <1>5 DEF TusAnswers, Response
  <2>2. req.op = "probe" /\ (~deferred => o.length = Size) /\ req.declaredLength = Unset
    BY <1>5 DEF Stated, Asked
  <2> HIDE DEF a
  <2>3. ASSUME Satisfied(req, a) PROVE p # None
    <3>1. o.offset = Size /\ o.length = Size
      BY <1>1, <2>1, <2>2, <2>3, Constants DEF Satisfied
    <3>2. o.complete
      BY <1>5, <3>1, Constants DEF HealDue, Unpublished
    <3> QED BY <3>2 DEF Stated
  <2>4. ~Vanished(req, a) /\ ~GivesUp(a)
    BY <2>1, <2>2 DEF Vanished, GivesUp
  <2>5. a.offset # Unset /\ u # None => a.offset <= u.offset
    BY <1>5, <2>1 DEF Stated
  <2>6. a.location \in BOOLEAN /\ (a.location => req.op = "create")
    BY <2>1, <2>2
  <2>7. a.offset \in 0..Size \cup {Unset} /\ a.status \in Nat
    BY <1>1, <2>1
  <2> QED BY <2>1, <2>2, <2>3, <2>4, <2>5, <2>6, <2>7 DEF Answered
<1>6. CASE o.kind = "cancelled"
  <2>1. /\ a.status = 204 /\ a.offset = Unset /\ a.location = FALSE
    BY <1>6 DEF TusAnswers, Blank, Response
  <2>2. req.op = "cancel" /\ u = None
    BY <1>6 DEF Stated
  <2> HIDE DEF a
  <2>3. ~Satisfied(req, a) /\ ~GivesUp(a)
    BY <2>1, Constants DEF Satisfied, GivesUp
  <2>6. a.location \in BOOLEAN /\ (a.location => req.op = "create")
    BY <2>1, <2>2
  <2>7. a.offset \in 0..Size \cup {Unset} /\ a.status \in Nat
    BY <1>1, <2>1
  <2> QED BY <2>1, <2>2, <2>3, <2>6, <2>7 DEF Answered
<1>7. CASE o.kind \notin {"created", "appended", "already-complete", "probed", "cancelled"}
  <2>1. a = TusRejects(o)
    BY <1>7 DEF TusAnswers
  <2>2. TusRejects(o).location = o.token
    BY DEF TusRejects, Blank, Response
  <2> HIDE DEF a
  <2>3. o.token \in BOOLEAN /\ (o.token => req.op = "create")
        /\ (req.op = "create" /\ ~o.token => o.at = Unset /\ (o.kind # "contended" => u = None))
    BY DEF Stated
  <2>4. /\ o.at \in 0..Size \cup {Unset} /\ (u # None /\ o.at # Unset => o.at <= u.offset)
        /\ o.kind \in {"gone", "not-found"} => u = None
    BY DEF Stated
  <2> QED BY <2>1, <2>2, <2>3, <2>4, TusRefusalAnswered
<1> QED BY <1>2, <1>3, <1>4, <1>5, <1>6, <1>7

\* What a handler of the draft makes of any outcome.
LEMMA IetfAnswered ==
    ASSUME NEW req, Asked(req), NEW o, NEW u, NEW p, Stated(req, o, u, p), ~tus
    PROVE  Answered(req, IetfAnswers(req, o), u, p)
<1> DEFINE a == IetfAnswers(req, o)
<1> SUFFICES Answered(req, a, u, p)
    OBVIOUS
<1>1. /\ req.offset \in 0..Size /\ o.offset \in 0..Size /\ o.at \in 0..Size \cup {Unset}
      /\ o.complete \in BOOLEAN /\ o.interrupted \in BOOLEAN /\ o.token \in BOOLEAN
    BY DEF Asked, Requests, Stated
<1>2. CASE o.kind = "created"
  <2>1. /\ a.status = (IF StoppedShort(o) THEN 409 ELSE 201) /\ a.offset = o.offset
        /\ a.complete = (IF o.complete THEN "yes" ELSE "no") /\ a.location = TRUE
    BY <1>2 DEF IetfAnswers, Progress, Said, Response, CreatedStatus
  <2>2. req.op = "create" /\ (o.complete => p # None /\ ~o.interrupted)
        /\ (u # None => o.offset <= u.offset)
    BY <1>2 DEF Stated
  <2> HIDE DEF a
  <2>3. (Satisfied(req, a) => p # None) /\ ~GivesUp(a) /\ ~Vanished(req, a)
    BY <2>1, <2>2 DEF Satisfied, GivesUp, Vanished, StoppedShort
  <2>4. a.offset \in 0..Size \cup {Unset} /\ a.status \in Nat
    BY <1>1, <2>1
  <2>5. a.location \in BOOLEAN /\ (a.location => req.op = "create") /\ a.location
    BY <2>1, <2>2
  <2> QED BY <2>1, <2>2, <2>3, <2>4, <2>5 DEF Answered
<1>3. CASE o.kind = "appended"
  <2>1. /\ a.status \in {200, 204, 409} /\ a.offset = o.offset /\ a.location = FALSE
        /\ a.complete = IF o.complete THEN "yes" ELSE "no"
        /\ o.complete => a.status = 200
    BY <1>3 DEF IetfAnswers, Progress, Said, Response, AppendedStatus
  <2>2. req.op = "append" /\ (o.complete => p # None)
        /\ (u # None => o.offset <= u.offset)
    BY <1>3 DEF Stated
  <2> HIDE DEF a
  <2>3. (Satisfied(req, a) => p # None) /\ ~GivesUp(a) /\ ~Vanished(req, a)
    BY <2>1, <2>2 DEF Satisfied, GivesUp, Vanished
  <2>4. a.offset \in 0..Size \cup {Unset} /\ a.status \in Nat
    BY <1>1, <2>1
  <2>5. a.location \in BOOLEAN /\ (a.location => req.op = "create")
    BY <2>1, <2>2
  <2> QED BY <2>1, <2>2, <2>3, <2>4, <2>5 DEF Answered
<1>4. CASE o.kind = "already-complete"
  <2>1. /\ a.status \in {200, 400} /\ a.offset \in {req.offset, Unset} /\ a.location = FALSE
    BY <1>4 DEF IetfAnswers, Progress, Response, Blank
  <2>2. req.op = "append" /\ p # None /\ (u # None => req.offset <= u.offset)
    BY <1>4 DEF Stated
  <2> HIDE DEF a
  <2>3. ~GivesUp(a) /\ ~Vanished(req, a)
    BY <2>1, <2>2 DEF GivesUp, Vanished
  <2>4. a.offset \in 0..Size \cup {Unset} /\ a.status \in Nat
    BY <1>1, <2>1
  <2>5. a.location \in BOOLEAN /\ (a.location => req.op = "create")
    BY <2>1, <2>2
  <2> QED BY <2>1, <2>2, <2>3, <2>4, <2>5 DEF Answered
<1>5. CASE o.kind = "offset-mismatch" /\ req.op = "append"
  <2>1. /\ a.status = 409 /\ a.offset = o.at /\ a.complete = "no" /\ a.location = FALSE
    BY <1>5 DEF IetfAnswers, Progress, Said, Response, ConflictIsComplete
  <2>2. u # None /\ o.at # Unset => o.at <= u.offset
    BY DEF Stated
  <2> HIDE DEF a
  <2>3. ~Satisfied(req, a) /\ ~GivesUp(a) /\ ~Vanished(req, a)
    BY <1>5, <2>1 DEF Satisfied, GivesUp, Vanished
  <2>4. a.offset \in 0..Size \cup {Unset} /\ a.status \in Nat
    BY <1>1, <2>1
  <2>5. a.location \in BOOLEAN /\ (a.location => req.op = "create")
    BY <2>1
  <2> QED BY <1>5, <2>1, <2>2, <2>3, <2>4, <2>5 DEF Answered
<1>6. CASE o.kind = "probed"
  <2>1. /\ a.status = 204 /\ a.offset = o.offset /\ a.location = FALSE
        /\ a.complete = IF o.complete THEN "yes" ELSE "no"
    BY <1>6 DEF IetfAnswers, Progress, Said, Response
  <2>2. req.op = "probe" /\ (o.complete => p # None)
        /\ (u # None => o.offset <= u.offset)
    BY <1>6 DEF Stated
  <2> HIDE DEF a
  <2>3. (Satisfied(req, a) => p # None) /\ ~GivesUp(a) /\ ~Vanished(req, a)
    BY <2>1, <2>2 DEF Satisfied, GivesUp, Vanished
  <2>4. a.offset \in 0..Size \cup {Unset} /\ a.status \in Nat
    BY <1>1, <2>1
  <2>5. a.location \in BOOLEAN /\ (a.location => req.op = "create")
    BY <2>1, <2>2
  <2> QED BY <2>1, <2>2, <2>3, <2>4, <2>5 DEF Answered
<1>7. CASE o.kind = "cancelled"
  <2>1. /\ a.status = 204 /\ a.offset = Unset /\ a.complete = "none" /\ a.location = FALSE
    BY <1>7 DEF IetfAnswers, Blank, Response
  <2>2. req.op = "cancel" /\ u = None
    BY <1>7 DEF Stated
  <2> HIDE DEF a
  <2>3. ~Satisfied(req, a) /\ ~GivesUp(a)
    BY <2>1 DEF Satisfied, GivesUp
  <2>4. a.offset \in 0..Size \cup {Unset} /\ a.status \in Nat
    BY <1>1, <2>1
  <2>5. a.location \in BOOLEAN /\ (a.location => req.op = "create")
    BY <2>1, <2>2
  <2> QED BY <2>1, <2>2, <2>3, <2>4, <2>5 DEF Answered
<1>8. CASE /\ o.kind \notin {"created", "appended", "already-complete", "probed", "cancelled"}
           /\ ~(o.kind = "offset-mismatch" /\ req.op = "append")
  <2>1. a = IetfRejects(o)
    BY <1>8 DEF IetfAnswers
  <2>2. /\ a.status \in {404, 413, 400, 423, 500}
        /\ a.status = 404 => o.kind \in {"gone", "not-found"}
        /\ o.kind = "contended" => a.status = 423
        /\ a.offset \in {Unset, o.at}
        /\ a.location = o.token
    BY <2>1 DEF IetfRejects, Blank, Progress, Response
  <2>3. /\ u # None /\ o.at # Unset => o.at <= u.offset
        /\ o.token => req.op = "create"
        /\ req.op = "create" /\ ~o.token => o.at = Unset /\ (o.kind # "contended" => u = None)
        /\ o.kind \in {"gone", "not-found"} => u = None
    BY DEF Stated
  <2> HIDE DEF a
  <2>4. ~Satisfied(req, a) /\ ~GivesUp(a) /\ (Vanished(req, a) => u = None)
    BY <2>2, <2>3 DEF Satisfied, GivesUp, Vanished
  <2>5. a.offset \in 0..Size \cup {Unset} /\ a.status \in Nat /\ a.status # 201
    BY <1>1, <2>2
  <2>6. a.location \in BOOLEAN /\ (a.location => req.op = "create")
        /\ (req.op = "create" /\ ~a.location =>
              a.offset = Unset /\ (a.status # 423 => u = None))
    BY <1>1, <2>2, <2>3
  <2> QED BY <2>2, <2>3, <2>4, <2>5, <2>6 DEF Answered
<1> QED BY <1>2, <1>3, <1>4, <1>5, <1>6, <1>7, <1>8

\* The append of nothing that publishes what has all its bytes.
Healer(offset) ==
    [Bare("append") EXCEPT !.complete = "yes", !.contentLength = 0, !.offset = offset]

\* What completeImplicitly makes of its outcome.
LEMMA HealedAnswered ==
    ASSUME NEW req, Asked(req), NEW first, NEW o, NEW u, NEW p,
           Promised(req, first, u), Stated(Healer(first.offset), o, u, p),
           o.kind = "appended" => p # None
    PROVE  Answered(req, Healed(req, first, o), u, p)
<1> DEFINE a == Healed(req, first, o)
<1> SUFFICES Answered(req, a, u, p)
    OBVIOUS
<1>1. /\ first.offset = Size /\ tus /\ first.token \in BOOLEAN
      /\ first.token <=> req.op = "create"
      /\ first.kind \in {"created", "appended", "probed"}
      /\ first.kind = "created" <=> req.op = "create"
      /\ req.body \in BOOLEAN
      /\ u # None => u.offset = Size
    BY DEF Promised, Asked, Requests
<1>2. CASE o.kind \in {"appended", "already-complete"}
  <2>1. p # None
    BY <1>2 DEF Stated
  <2> DEFINE f == [first EXCEPT !.complete = TRUE]
  <2>8. f.kind = first.kind /\ f.offset = first.offset
    OBVIOUS
  <2>9. a = TusAnswers(req, f)
    BY <1>2 DEF Healed
  <2> HIDE DEF f, a
  <2>2. /\ a.status \in {200, 201, 204} /\ a.offset \in {Size, Unset}
        /\ IF first.kind = "created" THEN a.location = TRUE ELSE a.location = FALSE
    <3>1. CASE first.kind = "created"
      BY <1>1, <2>8, <2>9, <3>1 DEF TusAnswers, Response
    <3>2. CASE first.kind = "appended"
      BY <1>1, <2>8, <2>9, <3>2 DEF TusAnswers, Response, Blank
    <3>3. CASE first.kind = "probed"
      BY <1>1, <2>8, <2>9, <3>3 DEF TusAnswers, Response
    <3> QED BY <1>1, <3>1, <3>2, <3>3
  <2>3. ~GivesUp(a)
    BY <1>1 DEF GivesUp
  <2>4. a.status \in Nat /\ a.status \notin {404, 410}
    BY <2>2
  <2>5. a.offset \in 0..Size \cup {Unset} /\ (u # None /\ a.offset # Unset => a.offset <= u.offset)
    BY <1>1, <2>2, Constants
  <2>6. a.location \in BOOLEAN /\ (a.location <=> req.op = "create")
    BY <1>1, <2>2
  <2>7. req.op # "cancel"
    BY DEF Promised
  <2> QED BY <2>1, <2>3, <2>4, <2>5, <2>6, <2>7 DEF Answered, Vanished
<1>3. CASE o.kind \notin {"appended", "already-complete"}
  <2>1. /\ a.status = TusRejects(o).status /\ a.offset = TusRejects(o).offset
        /\ a.location = first.token
    BY <1>3 DEF Healed, TusRejects, Blank, Response
  <2>2. a.location \in BOOLEAN /\ (a.location <=> req.op = "create")
    BY <1>1, <2>1
  <2>3. /\ o.at \in 0..Size \cup {Unset} /\ (u # None /\ o.at # Unset => o.at <= u.offset)
        /\ o.kind \in {"gone", "not-found"} => u = None
    BY DEF Stated
  <2> HIDE DEF a
  <2> QED BY <1>1, <2>1, <2>2, <2>3, TusRefusalAnswered
<1> QED BY <1>2, <1>3

-------------------------------------------------------------------------------
(* A handler's steps *)

\* A step of one handling to u and p: the resource only grows, only a creation
\* makes one, and what is published stays.
Grows(u, p, h) ==
    /\ Held(u, p) /\ Out(u, p)
    /\ upload # None /\ u # None =>
          upload.offset <= u.offset /\ (upload.length = Size => u.length = Size)
    /\ upload = None /\ u # None => Begun(server[h]) /\ server[h].req.op = "create"
    /\ published # None => p # None

\* What a handling has in hand stays true meanwhile.
LEMMA StandsKept ==
    ASSUME NEW s, NEW u, NEW p, Stands(s, upload, published),
           Held(upload, published), Held(u, p), upload = None => u = None,
           upload # None /\ u # None =>
              /\ upload.offset <= u.offset /\ (upload.length = Size => u.length = Size)
              /\ s.req.op = "create" => u.status = upload.status,
           published # None => p # None
    PROVE  Stands(s, u, p)
<1>1. /\ u # None => upload # None /\ upload.offset \in 0..Size /\ u.offset \in 0..Size
    BY DEF Held, Resource
<1>2. s.pc = "healing" =>
          /\ Promised(s.req, s.outcome, u)
          /\ s.req.op = "create" /\ u # None => u.status # "complete"
    BY <1>1, Constants DEF Stands, Promised
<1>3. s.pc = "answering" => Answered(s.req, s.answer, u, p)
  <2> SUFFICES ASSUME s.pc = "answering" PROVE Answered(s.req, s.answer, u, p)
    OBVIOUS
  <2>1. Answered(s.req, s.answer, upload, published)
    BY DEF Stands
  <2>2. s.answer.offset # Unset /\ u # None => s.answer.offset <= u.offset
    BY <1>1, <2>1, Constants DEF Answered
  <2> QED BY <2>1, <2>2 DEF Answered
<1> QED BY <1>2, <1>3 DEF Stands

\* Next states are judged as the present one, under the same settings.
LEMMA StandsPrimed ==
    ASSUME UNCHANGED <<dialect, deferred>>, NEW s, NEW u, NEW p, Stands(s, u, p)
    PROVE  Stands(s, u, p)'
    BY DEF Stands, Asked, Fit, Last, Promised, Answered, Satisfied, GivesUp, Vanished, tus, Wire,
           DecodeCompleteness, Begun

\* A step of one handling that leaves the client alone.
LEMMA HandlerKeeps ==
    ASSUME IInv, NEW h \in Handlings, Busy(h), UNCHANGED <<dialect, policy, deferred, client>>,
           Grows(upload', published', h),
           NEW new, server' = [server EXCEPT ![h] = new],
           new = Free \/ (Stands(new, upload', published') /\ new.req.op = server[h].req.op)
    PROVE  IInv'
<1>1. /\ DOMAIN server = Handlings /\ DOMAIN server' = Handlings /\ server'[h] = new
      /\ \A g \in Handlings \ {h} : server'[g] = server[g]
    BY DEF IInv, Setting
<1>2. Handled(h) /\ (upload = None /\ upload' # None => ~client.located)
    BY DEF IInv, Handled, Grows
<1>3. ASSUME NEW g \in Handlings, server'[g] # Free PROVE Handled(g)'
  <2>1. Busy(g) /\ Handled(g) /\ Handled(h)
    BY <1>1, <1>3 DEF IInv, Busy
  <2>2. Stands(server'[g], upload', published') /\ server'[g].req.op = server[g].req.op
    <3>1. CASE g = h
      BY <1>1, <1>3, <3>1
    <3>2. CASE g # h
      <4>1. upload = None => upload' = None
        BY <1>2, <2>1, <3>2 DEF Handled, Alone
      <4>2. Stands(server[g], upload, published) /\ server[g].req.op # "create"
        BY <2>1, <3>2 DEF Handled, Alone
      <4>3. Stands(server[g], upload', published')
        BY <4>1, <4>2, StandsKept DEF Grows, IInv
      <4> QED BY <1>1, <3>2, <4>3
    <3> QED BY <3>1, <3>2
  <2>4. Stands(server[g], upload, published)'
    BY <2>2, StandsPrimed
  <2>5. \A f \in Handlings : server'[f] # Free => server[f] # Free
    BY <1>1 DEF Busy
  <2>6. Alone(g)'
    BY <2>1, <2>5 DEF Handled, Alone, Busy
  <2> QED BY <2>1, <2>2, <2>4, <2>6 DEF Handled
<1>4. /\ client.offset # Unset /\ upload' # None => client.offset <= upload'.offset
      /\ client.at = "idle" /\ ~client.located => upload' = None
      /\ client.at = "gone" => upload' = None
      /\ client.at = "done" => published' # None
  <2>1. upload = None /\ upload' # None =>
           ~client.located /\ client.at \notin {"idle", "gone"} /\ client.offset = Unset
    BY <1>2, DialectsAssumption DEF Handled, Alone, IInv, Informed
  <2>2. /\ client.offset \in 0..Size \cup {Unset}
        /\ upload # None => upload.offset \in 0..Size
        /\ upload' # None => upload'.offset \in 0..Size
    BY DEF IInv, TypeOK, Resource, Grows, Held
  <2>3. client.offset # Unset /\ upload' # None => client.offset <= upload'.offset
    BY <2>1, <2>2, Constants DEF IInv, Informed, Grows
  <2>4. ~client.located /\ client.at = "idle" => FALSE
    BY <1>2, DialectsAssumption DEF Handled, Alone
  <2> QED BY <2>1, <2>3, <2>4 DEF IInv, Informed, Grows
<1>5. Informed(upload, published)'
    BY <1>4 DEF IInv, Informed
<1>6. Held(upload, published)' /\ Out(upload, published)'
    BY DEF Grows, Held, Out
<1>7. Setting'
    BY <1>1 DEF IInv, Setting
<1>8. \A g \in Handlings : Handled(g)'
  <2> TAKE g \in Handlings
  <2>1. CASE server'[g] # Free
    BY <1>3, <2>1
  <2>2. CASE server'[g] = Free
    BY <2>2 DEF Handled, Busy
  <2> QED BY <2>1, <2>2
<1>9. TypeOK'
  <2>1. upload' \in Resource \cup {None}
    BY DEF Grows, Held
  <2>2. published' \in Publication \cup {None}
    BY DEF Grows, Out
  <2>3. \A g \in Handlings : Busy(g)' =>
           /\ server'[g].pc \in {"received", "verified", "healing", "answering"}
           /\ server'[g].req \in Requests
    BY <1>8 DEF Handled, Stands, Asked
  <2> QED BY <2>1, <2>2, <2>3 DEF IInv, TypeOK
<1> QED BY <1>5, <1>6, <1>7, <1>8, <1>9 DEF IInv

\* An outcome that a handling may have at u and p.
Comes(h, req, o, u, p) ==
    IF server[h].pc = "healing"
    THEN Stated(Healer(server[h].outcome.offset), o, u, p) /\ (o.kind = "appended" => p # None)
    ELSE Asked(req) /\ req.op = server[h].req.op /\ Stated(req, o, u, p)

\* An answer is given.
LEMMA AnswersKeeps ==
    ASSUME IInv, NEW h \in Handlings, Busy(h), UNCHANGED <<dialect, policy, deferred, client>>,
           Grows(upload', published', h), NEW req, Asked(req), req.op = server[h].req.op,
           NEW response, Answered(req, response, upload', published'),
           Answers(h, req, response)
    PROVE  IInv'
<1> DEFINE new == [pc |-> "answering", req |-> req, answer |-> response]
<1>1. Stands(new, upload', published') /\ new.req.op = server[h].req.op
    BY DEF Stands, Begun
<1>2. server' = [server EXCEPT ![h] = new]
    BY DEF Answers
<1> QED BY <1>1, <1>2, HandlerKeeps

\* A handler's call of the orchestrator returns.
LEMMA ReturnsKeeps ==
    ASSUME IInv, NEW h \in Handlings, Busy(h), UNCHANGED <<dialect, policy, deferred, client>>,
           Grows(upload', published', h), NEW req, NEW o,
           Comes(h, req, o, upload', published'), Returns(h, req, o)
    PROVE  IInv'
<1>1. Stands(server[h], upload, published) /\ deferred \in BOOLEAN
    BY DEF IInv, Handled, Setting
<1>2. CASE server[h].pc = "healing"
  <2>1. Asked(server[h].req) /\ Promised(server[h].req, server[h].outcome, upload')
    <3>1. Asked(server[h].req) /\ Promised(server[h].req, server[h].outcome, upload)
      BY <1>1, <1>2 DEF Stands
    <3>2. upload' # None => upload # None
      BY <1>2 DEF Grows, Begun
    <3>3. /\ upload # None => upload.offset \in 0..Size
          /\ upload' # None => upload'.offset \in 0..Size
      BY DEF IInv, Grows, Held, Resource
    <3> QED BY <3>1, <3>2, <3>3, Constants DEF Promised, Grows
  <2>2. Answered(server[h].req, Healed(server[h].req, server[h].outcome, o), upload', published')
    BY <1>2, <2>1, HealedAnswered DEF Comes
  <2>3. Answers(h, server[h].req, Healed(server[h].req, server[h].outcome, o))
    BY <1>2 DEF Returns
  <2> QED BY <2>1, <2>2, <2>3, AnswersKeeps
<1>3. CASE server[h].pc # "healing"
  <2>1. Asked(req) /\ req.op = server[h].req.op /\ Stated(req, o, upload', published')
    BY <1>3 DEF Comes
  <2>2. CASE HealDue(o)
    <3> DEFINE new == [pc |-> "healing", req |-> req, outcome |-> o]
    <3>1. server' = [server EXCEPT ![h] = new]
      BY <1>3, <2>2 DEF Returns
    <3>2. /\ tus /\ o.kind \in {"created", "appended", "probed"}
          /\ o.offset = Size /\ o.length = Size
      BY <2>1, <2>2 DEF HealDue, Unpublished, Stated
    <3>3. /\ req.op # "cancel" /\ o.token \in BOOLEAN
          /\ o.token <=> req.op = "create"
          /\ o.kind = "created" <=> req.op = "create"
      BY <2>1, <3>2 DEF Stated
    <3>4. upload' # None =>
             /\ upload'.length = Size /\ upload'.offset = Size
             /\ req.op = "create" => upload'.status # "complete"
      <4>1. upload' # None => upload'.offset \in 0..Size
        BY DEF Grows, Held, Resource
      <4>2. o.complete = FALSE
        BY <2>1, <2>2 DEF HealDue, Unpublished, Stated
      <4> QED BY <2>1, <3>2, <3>3, <4>1, <4>2, Constants DEF Stated
    <3>5. Promised(req, o, upload')
      BY <3>2, <3>3, <3>4 DEF Promised
    <3>6. Stands(new, upload', published') /\ new.req.op = server[h].req.op
      BY <2>1, <3>4, <3>5 DEF Stands, Begun
    <3> QED BY <3>1, <3>6, HandlerKeeps
  <2>3. CASE ~HealDue(o)
    <3>1. Answers(h, req, Answer(req, o))
      BY <1>3, <2>3 DEF Returns
    <3>2. Answered(req, Answer(req, o), upload', published')
      BY <1>1, <2>1, <2>3, TusAnswered, IetfAnswered DEF Answer
    <3> QED BY <2>1, <3>1, <3>2, AnswersKeeps
  <2> QED BY <2>2, <2>3
<1> QED BY <1>2, <1>3

\* A handling ends without an answer.
LEMMA DiesKeeps ==
    ASSUME IInv, NEW h \in Handlings, Busy(h), UNCHANGED <<dialect, policy, deferred, client>>,
           Grows(upload', published', h), Dies(h)
    PROVE  IInv'
    BY HandlerKeeps DEF Dies

-------------------------------------------------------------------------------
(* The orchestrator's calls *)

\* Nothing changes but the handling.
LEMMA StillGrows ==
    ASSUME IInv, NEW h \in Handlings
    PROVE  Grows(upload, published, h)
<1>1. upload # None => upload.offset \in Nat
    BY DEF IInv, Held, Resource
<1> QED BY <1>1 DEF IInv, Grows

\* A request as its handler puts it to the orchestrator.
Put(h, req) ==
    /\ req \in Requests /\ Fit(req) /\ req.header # "malformed"
    /\ \/ server[h].pc = "healing" /\ req = Healer(server[h].outcome.offset)
       \/ Begun(server[h]) /\ Asked(req) /\ req.op = server[h].req.op

\* A refusal that says nothing of an offset, or the one there is.
LEMMA RefusesKeeps ==
    ASSUME IInv, NEW h \in Handlings, Busy(h), UNCHANGED <<dialect, policy, deferred, client>>,
           NEW req, Put(h, req), NEW kind, NEW at, Refuses(h, req, kind, at),
           kind \notin {"created", "appended", "probed", "already-complete", "cancelled", "gone"},
           kind = "not-found" => upload = None,
           at = Unset \/ (upload # None /\ at = upload.offset /\ req.op # "create"),
           req.op = "create" => upload = None
    PROVE  IInv'
<1>1. Stated(req, Reject(kind, at, FALSE), upload', published')
  <2>1. UNCHANGED <<upload, published>>
    BY DEF Refuses
  <2>2. at = Unset \/ (at \in 0..Size /\ at <= upload.offset)
    BY Constants DEF IInv, Held, Resource
  <2>3. FALSE \in BOOLEAN
    OBVIOUS
  <2> DEFINE o == Reject(kind, at, FALSE)
  <2>4. /\ o.kind = kind /\ o.offset = 0 /\ o.length = Unset /\ o.complete = FALSE
        /\ o.interrupted = FALSE /\ o.at = at /\ o.token = FALSE
    BY DEF Reject, Outcome
  <2> HIDE DEF o
  <2>5. o.offset \in 0..Size /\ o.at \in 0..Size \cup {Unset}
    BY <2>2, <2>4, Constants
  <2>6. Stated(req, o, upload, published)
    BY <2>2, <2>4, <2>5 DEF Stated
  <2> QED BY <2>1, <2>6 DEF o
<1>2. Comes(h, req, Reject(kind, at, FALSE), upload', published')
  <2>1. Reject(kind, at, FALSE).kind # "appended"
    BY DEF Reject, Outcome
  <2> QED BY <1>1, <2>1 DEF Comes, Put, Begun
<1>3. Grows(upload', published', h)
    BY StillGrows DEF Refuses
<1> QED BY <1>2, <1>3, ReturnsKeeps DEF Refuses

\* The append that heals publishes what it is answered to have appended.
LEMMA HealingPublishes ==
    ASSUME NEW s, s \in Resource, NEW v, NEW b, NEW fate, NEW kept, NEW offset, offset = Size,
           Allows(v, Healer(offset), s), b \in Deliveries(Healer(offset)),
           kept = Lands(Healer(offset), s, v, b), kept.offset \in 0..Size, s.offset <= kept.offset,
           fate \in Fates \ {"died"},
           Told(Healer(offset), v, b, fate, kept, FALSE).kind = "appended",
           fate \in {"unpublished", "unreported", "leaseless"} => Due(v, b, kept)
    PROVE  Due(v, b, kept) /\ fate = "fine"
<1> DEFINE req == Healer(offset)
           o == Told(req, v, b, fate, kept, FALSE)
<1>1. /\ req.content = 0 /\ req.body = FALSE /\ req.complete = "yes" /\ req.offset = offset
    BY DEF Healer, Bare
<1> HIDE DEF req
<1>2. b.n = 0 /\ b.end # "torn"
    BY <1>1, Constants DEF Deliveries, req
<1>3. ~Crosses(v, b) /\ ~Torn(v, b)
    BY <1>2, Constants DEF Crosses, Over, Torn, Allows
<1>4. v.completes /\ kept.offset = Size /\ v.completesAt \in {Unset, Size}
  <2>1. s.offset = Size /\ v.completes
    BY <1>1 DEF Allows, req
  <2> QED BY <2>1, Constants DEF Allows
<1>5. Reaches(v, b, kept)
    BY <1>3, <1>4 DEF Reaches, CompletionDue
<1>6. CASE ~Due(v, b, kept)
  <2>1. fate = "fine"
    BY <1>6 DEF Fates
  <2>2. ~StatedShort(req, Torn(v, b), v.completesAt, kept.offset)
    BY <1>4 DEF StatedShort
  <2>3. o = Reject("limit-violation", Unset, FALSE)
    BY <1>3, <1>5, <1>6, <2>1, <2>2 DEF Told
  <2> HIDE DEF o
  <2>4. o.kind = "limit-violation"
    BY <2>3 DEF Reject, Outcome
  <2> QED BY <2>4 DEF req, o
<1>7. CASE Due(v, b, kept) /\ fate # "fine"
  <2>1. ~StatedShort(req, Torn(v, b), v.completesAt, kept.offset)
    BY <1>4 DEF StatedShort
  <2>2. o = Reject("contended", Unset, FALSE) \/ o = Reject("store-error", Unset, FALSE)
    BY <1>3, <1>5, <1>7, <2>1 DEF Told, Fates
  <2> HIDE DEF o
  <2>3. o.kind \in {"contended", "store-error"}
    BY <2>2 DEF Reject, Outcome
  <2> QED BY <2>3 DEF req, o
<1> QED BY <1>6, <1>7

\* A write keeps the invariant: of a creation, or of an append to what there is.
LEMMA WritingKeeps ==
    ASSUME IInv, NEW h \in Handlings, Busy(h), UNCHANGED <<dialect, policy, deferred, client>>,
           NEW req, Put(h, req), ~req.corrupt, req.op \in {"create", "append"},
           NEW created \in BOOLEAN, created <=> req.op = "create",
           NEW s, s \in Resource, ~s.soiled,
           IF created THEN upload = None ELSE upload # None /\ s = upload,
           NEW v, Allows(v, req, s), Writing(h, req, s, v, created)
    PROVE  IInv'
<1>1. PICK b \in Deliveries(req), fate \in Fates :
          \E kept \in {Lands(req, s, v, b)} :
              LET publishes == Due(v, b, kept) /\ fate \in {"fine", "unreported"} IN
              /\ fate \in {"unpublished", "unreported", "leaseless"} => Due(v, b, kept)
              /\ upload' = [kept EXCEPT !.status =
                              IF Crosses(v, b) /\ v.bound.maxBytesFatal THEN "invalidated"
                              ELSE IF publishes THEN "complete" ELSE @]
              /\ IF publishes THEN Publishes(kept) ELSE UNCHANGED published
              /\ IF fate = "died" THEN Dies(h)
                 ELSE Returns(h, req, Told(req, v, b, fate, kept, created))
    BY DEF Writing
<1> DEFINE kept == Lands(req, s, v, b)
           publishes == Due(v, b, kept) /\ fate \in {"fine", "unreported"}
           status == IF Crosses(v, b) /\ v.bound.maxBytesFatal THEN "invalidated"
                     ELSE IF publishes THEN "complete" ELSE kept.status
<1>2. /\ fate \in {"unpublished", "unreported", "leaseless"} => Due(v, b, kept)
      /\ upload' = [kept EXCEPT !.status = status]
      /\ IF publishes THEN Publishes(kept) ELSE UNCHANGED published
      /\ IF fate = "died" THEN Dies(h)
         ELSE Returns(h, req, Told(req, v, b, fate, kept, created))
    BY <1>1
<1>3. deferred \in BOOLEAN /\ req \in Requests /\ Fit(req) /\ req.header # "malformed"
    BY DEF IInv, Setting, Put
<1>4. /\ kept \in Resource /\ ~kept.soiled /\ kept.status = "incomplete"
      /\ s.offset <= kept.offset
      /\ kept.length = Or(s.length, v.declaredLength)
      /\ Due(v, b, kept) => kept.offset = Size /\ ~Torn(v, b) /\ ~Crosses(v, b)
    BY <1>3, WriteLands
<1>5. s.status = "incomplete" /\ (~deferred => kept.length = Size)
      /\ (s.length = Size => kept.length = Size)
    BY <1>4, Constants DEF Allows, Or
<1> HIDE DEF kept
<1>6. /\ upload' \in Resource /\ upload' # None /\ upload'.offset = kept.offset
      /\ upload'.length = kept.length /\ ~upload'.soiled /\ upload'.status = status
  <2>1. status \in Statuses
    BY <1>4 DEF Statuses
  <2> HIDE DEF status
  <2> QED BY <1>2, <1>4, <2>1, NoneAssumption DEF Resource
<1>7. /\ status = "complete" <=> publishes
      /\ IF publishes THEN /\ published' \in Publication /\ published' # None
                           /\ published'.length = Size /\ ~published'.soiled
         ELSE published' = published
  <2>1. CASE publishes
    <3>1. published' = [length |-> kept.offset, soiled |-> kept.soiled]
      BY <1>2, <2>1 DEF Publishes
    <3>2. kept.offset = Size /\ ~Crosses(v, b) /\ kept.soiled \in BOOLEAN /\ ~kept.soiled
      BY <1>4, <2>1 DEF Resource
    <3>3. published' \in Publication /\ published' # None /\ published'.length = Size
          /\ ~published'.soiled
      BY <3>1, <3>2, Constants, NoneAssumption DEF Publication
    <3> QED BY <2>1, <3>2, <3>3
  <2>2. CASE ~publishes
    BY <1>2, <1>4, <2>2
  <2> QED BY <2>1, <2>2
<1> HIDE DEF publishes, status
<1>8. published # None => client.quits
    BY <1>5, NoneAssumption DEF IInv, Out
<1>9. Grows(upload', published', h)
  <2>1. Held(upload', published')
    BY <1>5, <1>6, <1>7 DEF Held
  <2>5. Out(upload', published')
    <3>1. CASE publishes
      BY <1>6, <1>7, <3>1 DEF Out
    <3>2. CASE ~publishes
      BY <1>7, <1>8, <3>2 DEF Out, IInv
    <3> QED BY <3>1, <3>2
  <2>2. upload = None => Begun(server[h]) /\ server[h].req.op = "create"
    BY DEF Put, Healer, Bare
  <2>3. upload # None => s = upload
    OBVIOUS
  <2>4. published # None => published' # None
    BY <1>7
  <2> QED BY <1>4, <1>5, <1>6, <2>1, <2>2, <2>3, <2>4, <2>5 DEF Grows
<1>10. CASE fate = "died"
  BY <1>2, <1>9, <1>10, DiesKeeps
<1>11. CASE fate # "died"
  <2> DEFINE o == Told(req, v, b, fate, kept, created)
  <2>1. Returns(h, req, o) /\ fate \in Fates \ {"died"}
    BY <1>2, <1>11
  <2>2. Due(v, b, kept) /\ fate = "fine" => published' # None
    BY <1>7 DEF publishes
  <2>3. created => req.declaredLength = IF deferred THEN Unset ELSE Size
    BY DEF Put, Asked, Healer, Bare
  <2>4. Stated(req, o, upload', published')
    <3>1. Due(v, b, kept) => ~Torn(v, b) /\ (fate = "fine" => published' # None)
      BY <1>4, <2>2
    <3>2. fate \in {"unpublished", "unreported", "leaseless"} => Due(v, b, kept)
      BY <1>2
    <3>3. /\ upload'.offset = kept.offset /\ upload'.length = kept.length
          /\ upload'.status = "complete" => Due(v, b, kept)
      BY <1>6, <1>7 DEF publishes
    <3>4. kept \in Resource /\ kept.length = Or(s.length, v.declaredLength)
      BY <1>4
    <3> HIDE DEF o
    <3>5. \A u, p : u.offset = kept.offset /\ u.length = kept.length
                      /\ (Due(v, b, kept) /\ fate = "fine" => p # None)
                      /\ (u.status = "complete" => Due(v, b, kept))
                         => Stated(req, o, u, p)
      BY <1>3, <2>1, <2>3, <3>1, <3>2, <3>4, WriteStated DEF o
    <3> QED BY <2>2, <3>3, <3>5
  <2>5. Comes(h, req, o, upload', published')
    <3>1. CASE Begun(server[h]) /\ Asked(req) /\ req.op = server[h].req.op
      BY <2>4, <3>1 DEF Comes, Begun
    <3>2. CASE server[h].pc = "healing" /\ req = Healer(server[h].outcome.offset)
      <4>1. created = FALSE /\ server[h].outcome.offset = Size
        BY <3>2 DEF Healer, Bare, IInv, Handled, Stands, Promised
      <4>2. kept.offset \in 0..Size /\ kept = Lands(req, s, v, b)
        BY <1>4 DEF Resource, kept
      <4>3. o.kind = "appended" => published' # None
        BY <1>2, <1>4, <2>1, <2>2, <3>2, <4>1, <4>2, HealingPublishes
      <4> QED BY <2>4, <3>2, <4>3 DEF Comes
    <3> QED BY <3>1, <3>2 DEF Put
  <2> QED BY <1>9, <2>1, <2>5, ReturnsKeeps
<1> QED BY <1>10, <1>11

\* An orchestrator's append keeps the invariant.
LEMMA AppendingKeeps ==
    ASSUME IInv, NEW h \in Handlings, Busy(h), UNCHANGED <<dialect, policy, deferred, client>>,
           NEW req, Put(h, req), req.op = "append", upload # None => ~req.corrupt,
           Appending(h, req)
    PROVE  IInv'
<1>1. CASE upload = None
  <2>1. Refuses(h, req, "not-found", Unset)
    BY <1>1 DEF Appending
  <2> QED BY <1>1, <2>1, RefusesKeeps
<1>2. CASE upload # None
  <2> DEFINE v == AppendVerdict(req, upload)
  <2>1. /\ policy \in Policies /\ deferred \in BOOLEAN /\ upload \in Resource /\ ~upload.soiled
        /\ ~deferred => upload.length = Size
    BY <1>2, Constants DEF IInv, Setting, Held
  <2>2. \/ v.kind = "append-allowed" /\ Allows(v, req, upload)
        \/ v.kind = "already-complete" /\ upload.status = "complete" /\ req.offset = upload.offset
        \/ v.kind = "gone" /\ upload.status # "complete"
        \/ v.kind = "offset-mismatch" /\ v.correctOffset = upload.offset
        \/ v.kind = "length-inconsistent"
        \/ v.kind = "limit-violation"
    BY <2>1, AppendJudged DEF Put
  <2> HIDE DEF v
  <2>3. CASE v.kind = "append-allowed"
    <3>1. Writing(h, req, upload, v, FALSE)
      BY <1>2, <2>3 DEF Appending, AppendVerdict, v
    <3>2. FALSE \in BOOLEAN
      OBVIOUS
    <3> QED BY <1>2, <2>1, <2>2, <2>3, <3>1, <3>2, WritingKeeps
  <2>4. CASE v.kind = "already-complete"
    <3>1. \/ Refuses(h, req, "length-inconsistent", Unset)
          \/ /\ UNCHANGED <<upload, published>>
             /\ \/ Returns(h, req, Outcome("already-complete", upload.offset, upload.length,
                                           TRUE, FALSE, Unset, FALSE))
                \/ Answers(h, server[h].req, Blank(500))
      BY <1>2, <2>4 DEF Appending, AppendVerdict, v
    <3>2. upload.status = "complete" /\ req.offset = upload.offset /\ published # None
      BY <1>2, <2>2, <2>4 DEF IInv, Held
    <3>3. CASE Refuses(h, req, "length-inconsistent", Unset)
      BY <3>3, RefusesKeeps
    <3>4. ASSUME UNCHANGED <<upload, published>> PROVE Grows(upload', published', h)
      BY <3>4, StillGrows
    <3>5. CASE /\ UNCHANGED <<upload, published>>
               /\ Returns(h, req, Outcome("already-complete", upload.offset, upload.length,
                                          TRUE, FALSE, Unset, FALSE))
      <4> DEFINE o == Outcome("already-complete", upload.offset, upload.length,
                              TRUE, FALSE, Unset, FALSE)
      <4>1. /\ o.kind = "already-complete" /\ o.offset = upload.offset
            /\ o.length = upload.length /\ o.complete = TRUE /\ o.interrupted = FALSE
            /\ o.at = Unset /\ o.token = FALSE
        BY DEF Outcome
      <4> HIDE DEF o
      <4>2. /\ upload.offset \in 0..Size /\ upload.length \in {Size, Unset}
            /\ upload.offset <= upload.offset
        BY <2>1, Constants DEF Resource
      <4>3. Stated(req, o, upload, published)
        BY <3>2, <4>1, <4>2 DEF Stated
      <4>4. Comes(h, req, o, upload, published)
        BY <4>1, <4>3 DEF Comes, Put, Begun
      <4>5. Returns(h, req, o) /\ Grows(upload', published', h) /\ upload' = upload
            /\ published' = published
        BY <3>4, <3>5 DEF o
      <4> QED BY <4>4, <4>5, ReturnsKeeps
    <3>6. CASE UNCHANGED <<upload, published>> /\ Answers(h, server[h].req, Blank(500))
      <4>1. Asked(server[h].req) /\ Stands(server[h], upload, published)
        BY DEF IInv, Handled, Stands
      <4>2. server[h].req.op # "create"
        BY <1>2, <3>2, <4>1 DEF Put, Stands, Begun
      <4>3. Answered(server[h].req, Blank(500), upload, published)
        BY <4>2, BlankAnswered
      <4> QED BY <3>4, <3>6, <4>1, <4>3, AnswersKeeps
    <3> QED BY <3>1, <3>3, <3>5, <3>6
  <2>5. CASE v.kind = "gone"
    <3>1. upload' = None /\ Returns(h, req, Reject("gone", Unset, FALSE)) /\ published' = published
      BY <1>2, <2>5 DEF Appending, AppendVerdict, v
    <3>2. Grows(upload', published', h)
      BY <1>2, <2>2, <2>5, <3>1 DEF Grows, Held, Out, IInv
    <3>3. Stated(req, Reject("gone", Unset, FALSE), upload', published')
      <4>1. FALSE \in BOOLEAN
        OBVIOUS
      <4> QED BY <3>1, <4>1, RefusalStated
    <3>4. Comes(h, req, Reject("gone", Unset, FALSE), upload', published')
      <4>1. Reject("gone", Unset, FALSE).kind # "appended"
        BY DEF Reject, Outcome
      <4> QED BY <3>3, <4>1 DEF Comes, Put, Begun
    <3> QED BY <3>1, <3>2, <3>4, ReturnsKeeps
  <2>6. CASE v.kind = "offset-mismatch"
    <3>1. Refuses(h, req, v.kind, v.correctOffset)
      BY <1>2, <2>6 DEF Appending, AppendVerdict, v
    <3> QED BY <1>2, <2>2, <2>6, <3>1, RefusesKeeps
  <2>7. CASE v.kind \in {"length-inconsistent", "limit-violation"}
    <3>1. Refuses(h, req, Renamed(v), Unset)
      BY <1>2, <2>7 DEF Appending, AppendVerdict, v
    <3>2. Renamed(v) \in {"too-large", "length-inconsistent", "limit-violation"}
      BY <2>7 DEF Renamed
    <3> QED BY <3>1, <3>2, RefusesKeeps
  <2> QED BY <2>2, <2>3, <2>4, <2>5, <2>6, <2>7
<1> QED BY <1>1, <1>2

-------------------------------------------------------------------------------
(* The handlers *)

\* A request as the draft reads it, that is not refused for its header.
LEMMA UnderstoodAsked ==
    ASSUME NEW req, Asked(req)
    PROVE  LET known == Understood(req) IN
           /\ Asked(known) /\ known.op = req.op /\ known.corrupt = req.corrupt
           /\ known.sum = req.sum /\ known.header = req.header
           /\ ~HeaderRefused(req) => known.header # "malformed"
<1>1. CASE tus
  <2>1. Understood(req) = req
    BY <1>1 DEF Understood
  <2>2. req.header # "malformed"
    BY <1>1 DEF Asked
  <2> QED BY <2>1, <2>2
<1>2. CASE ~tus
  <2> DEFINE complete == IF req.header # "absent" /\ DecodeCompleteness(req.header)
                         THEN "yes" ELSE "no"
             known == Understood(req)
  <2>1. known = [req EXCEPT !.complete = complete]
    BY <1>2 DEF Understood
  <2>2. /\ known \in Requests /\ known.complete = complete /\ known.op = req.op
        /\ known.offset = req.offset /\ known.content = req.content
        /\ known.contentLength = req.contentLength /\ known.body = req.body
        /\ known.declaredLength = req.declaredLength /\ known.header = req.header
        /\ known.sum = req.sum /\ known.corrupt = req.corrupt
    <3>1. complete \in {"yes", "no", "infer"} /\ req \in Requests
      BY DEF Asked
    <3> HIDE DEF complete
    <3> QED BY <2>1, <3>1 DEF Requests
  <2>3. complete = "yes" => req.header \in {"?1", "?0", "malformed"}
    BY DEF Asked, Requests, Headers
  <2>4. complete = "yes" => DecodeCompleteness(req.header)
    OBVIOUS
  <2>5. complete \in {"yes", "no"}
    OBVIOUS
  <2> HIDE DEF known, complete
  <2>6. known.complete = "yes" /\ known.header # "malformed" => Last(known)
    BY <1>2, <2>2, <2>3, <2>4 DEF Asked, Last
  <2>7. Asked(known)
    BY <1>2, <2>2, <2>5, <2>6 DEF Asked, Fit, Last
  <2>8. ~HeaderRefused(req) => known.header # "malformed"
    BY <1>2, <2>2 DEF HeaderRefused
  <2> QED BY <2>2, <2>7, <2>8 DEF known
<1> QED BY <1>1, <1>2

\* A handler that verifies nothing first.
LEMMA Intact ==
    ASSUME IInv, NEW h \in Handlings, Busy(h), Begun(server[h]), ~Unverified(h)
    PROVE  ~server[h].req.corrupt
<1>1. Stands(server[h], upload, published)
    BY DEF IInv, Handled
<1> QED BY <1>1 DEF Begun, Unverified, Stands, Asked

\* verifyChecksum
LEMMA VerifyKeeps ==
    ASSUME IInv, NEW h \in Handlings, Verify(h)
    PROVE  IInv'
<1> DEFINE req == server[h].req
<1>1. /\ Busy(h) /\ server[h].pc = "received"
      /\ UNCHANGED <<dialect, policy, deferred, upload, published, client>>
      /\ \/ ~req.corrupt /\ server' = [server EXCEPT ![h].pc = "verified"]
         \/ Answers(h, req, Blank(460))
         \/ Answers(h, req, Blank(400))
    BY DEF Verify, Unverified
<1>2. Stands(server[h], upload, published) /\ Asked(req) /\ (req.op = "create" => upload = None)
    BY <1>1 DEF IInv, Handled, Stands, Begun
<1>3. Grows(upload', published', h)
    BY <1>1, StillGrows
<1>4. CASE ~req.corrupt /\ server' = [server EXCEPT ![h].pc = "verified"]
  <2> DEFINE new == [server[h] EXCEPT !.pc = "verified"]
  <2>1. server' = [server EXCEPT ![h] = new]
    BY <1>4
  <2>2. server[h] = [pc |-> server[h].pc, req |-> server[h].req]
    BY <1>1, <1>2 DEF Stands, Begun
  <2>3. new = [pc |-> "verified", req |-> server[h].req]
    BY <2>2
  <2> HIDE DEF new
  <2>4. new.pc = "verified" /\ new.req = server[h].req
    BY <2>3
  <2>5. Stands(new, upload', published')
    BY <1>1, <1>2, <1>4, <2>3, <2>4 DEF Stands, Begun
  <2> QED BY <1>1, <1>3, <2>1, <2>4, <2>5, HandlerKeeps
<1>5. CASE \E status \in {400, 460} : Answers(h, req, Blank(status))
  <2>1. PICK status \in {400, 460} : Answers(h, req, Blank(status))
    BY <1>5
  <2>2. Answered(req, Blank(status), upload', published')
    BY <1>1, <1>2, BlankAnswered
  <2> QED BY <1>1, <1>2, <1>3, <2>1, <2>2, AnswersKeeps
<1> QED BY <1>1, <1>4, <1>5

\* A request that is refused for its header.
LEMMA BadRequestKeeps ==
    ASSUME IInv, NEW h \in Handlings, Busy(h), UNCHANGED <<dialect, policy, deferred, client>>,
           Begun(server[h]), NEW req, Asked(req), req.op = server[h].req.op, BadRequest(h, req)
    PROVE  IInv'
<1>1. /\ Answers(h, req, Blank(400)) /\ UNCHANGED <<upload, published>>
      /\ req.op = "create" => upload = None
    BY DEF BadRequest, IInv, Handled, Stands
<1>2. Answered(req, Blank(400), upload', published')
    BY <1>1, BlankAnswered
<1>3. Grows(upload', published', h)
    BY <1>1, StillGrows
<1> QED BY <1>1, <1>2, <1>3, AnswersKeeps

\* handleCreate, handleCreation
LEMMA CreateKeeps ==
    ASSUME IInv, NEW h \in Handlings, Create(h)
    PROVE  IInv'
<1> DEFINE req == Understood(server[h].req)
           v == CreationVerdict(req)
<1>1. /\ Busy(h) /\ Begun(server[h]) /\ server[h].req.op = "create"
      /\ UNCHANGED <<dialect, policy, deferred, client>>
      /\ IF HeaderRefused(req) THEN BadRequest(h, req) ELSE Creating(h, req, v)
    BY DEF Create, Received, Begun
<1>2. /\ Stands(server[h], upload, published) /\ Asked(server[h].req) /\ upload = None
      /\ policy \in Policies /\ deferred \in BOOLEAN
    BY <1>1, Constants DEF IInv, Handled, Stands, Setting
<1>3. /\ Asked(req) /\ req.op = "create" /\ req.header = server[h].req.header
      /\ req.corrupt = server[h].req.corrupt
    BY <1>1, <1>2, UnderstoodAsked
<1> HIDE DEF req
<1>4. CASE HeaderRefused(req)
    BY <1>1, <1>3, <1>4, BadRequestKeeps
<1>5. CASE ~HeaderRefused(req)
  <2>1. req.header # "malformed" /\ Creating(h, req, v)
    BY <1>1, <1>3, <1>5 DEF HeaderRefused, Asked
  <2>2. Put(h, req)
    BY <1>1, <1>3, <2>1 DEF Put, Asked
  <2>3. CASE v.kind # "create-accepted"
    <3>1. Refuses(h, req, Renamed(v), Unset)
      BY <2>1, <2>3 DEF Creating
    <3>2. Renamed(v) \in {"too-large", "length-inconsistent", "limit-violation"}
      BY <2>3 DEF Renamed, CreationVerdict, EvaluateUploadCreation, Inconsistent, Limited
    <3> QED BY <1>1, <1>2, <1>3, <2>2, <3>1, <3>2, RefusesKeeps
  <2>4. CASE v.kind = "create-accepted"
    <3> DEFINE s == Fresh(v.declaredLength)
    <3>1. Allows(v, req, s)
      BY <1>2, <1>3, <2>1, <2>4, CreationAllows
    <3>2. ~req.corrupt
      BY <1>1, <1>3, <2>1, <2>4, Intact DEF Creating
    <3>3. s \in Resource /\ ~s.soiled /\ s.offset = 0 /\ s.length = v.declaredLength
          /\ s.status = "incomplete"
      BY <3>1, Constants DEF Fresh, Resource, Statuses, Allows
    <3>4. ~deferred => s.length = Size
      BY <3>1, <3>3 DEF Allows, Or
    <3> HIDE DEF s, v
    <3>5. \/ Writing(h, req, s, v, TRUE)
          \/ Returns(h, req, Reject("store-error", Unset, FALSE)) /\ UNCHANGED <<upload, published>>
          \/ upload' = s /\ Returns(h, req, Reject("contended", Unset, FALSE))
             /\ UNCHANGED published
      BY <2>1, <2>4 DEF Creating, s
    <3>6. CASE Writing(h, req, s, v, TRUE)
      <4>1. TRUE \in BOOLEAN
        OBVIOUS
      <4> QED BY <1>1, <1>2, <1>3, <2>2, <3>1, <3>2, <3>3, <3>6, <4>1, WritingKeeps
    <3>7. ASSUME NEW kind \in {"store-error", "contended"},
                 Returns(h, req, Reject(kind, Unset, FALSE)),
                 kind = "store-error" => upload' = None, Grows(upload', published', h)
          PROVE  IInv'
      <4>1. FALSE \in BOOLEAN
        OBVIOUS
      <4>2. Stated(req, Reject(kind, Unset, FALSE), upload', published')
        BY <3>7, <4>1, RefusalStated
      <4>3. Comes(h, req, Reject(kind, Unset, FALSE), upload', published')
        BY <1>1, <1>3, <4>2 DEF Comes, Begun
      <4> QED BY <1>1, <3>7, <4>3, ReturnsKeeps
    <3>8. CASE /\ Returns(h, req, Reject("store-error", Unset, FALSE))
               /\ UNCHANGED <<upload, published>>
      BY <1>2, <3>7, <3>8, StillGrows
    <3>9. CASE upload' = s /\ Returns(h, req, Reject("contended", Unset, FALSE))
               /\ UNCHANGED published
      <4>1. Grows(upload', published', h)
        BY <1>1, <1>2, <3>3, <3>4, <3>9 DEF Grows, Held, Out, IInv
      <4> QED BY <3>7, <3>9, <4>1
    <3> QED BY <3>5, <3>6, <3>8, <3>9
  <2> QED BY <2>3, <2>4
<1> QED BY <1>4, <1>5

\* handlePatch, handleAppend
LEMMA AppendKeeps ==
    ASSUME IInv, NEW h \in Handlings, Append(h)
    PROVE  IInv'
<1> DEFINE req == Understood(server[h].req)
<1>1. /\ Busy(h) /\ Begun(server[h]) /\ server[h].req.op = "append"
      /\ UNCHANGED <<dialect, policy, deferred, client>>
      /\ IF HeaderRefused(req) THEN BadRequest(h, req)
         ELSE (upload # None => ~Unverified(h)) /\ Appending(h, req)
    BY DEF Append, Received, Begun
<1>2. Asked(server[h].req)
    BY <1>1 DEF IInv, Handled, Stands
<1>3. /\ Asked(req) /\ req.op = "append" /\ req.header = server[h].req.header
      /\ req.corrupt = server[h].req.corrupt
    BY <1>1, <1>2, UnderstoodAsked
<1> HIDE DEF req
<1>4. CASE HeaderRefused(req)
    BY <1>1, <1>3, <1>4, BadRequestKeeps
<1>5. CASE ~HeaderRefused(req)
  <2>1. req.header # "malformed"
    BY <1>3, <1>5 DEF HeaderRefused, Asked
  <2>2. Put(h, req)
    BY <1>1, <1>3, <2>1 DEF Put, Asked
  <2>3. upload # None => ~req.corrupt
    BY <1>1, <1>3, <1>5, Intact
  <2> QED BY <1>1, <1>3, <1>5, <2>2, <2>3, AppendingKeeps
<1> QED BY <1>4, <1>5

\* completeImplicitly
LEMMA HealKeeps ==
    ASSUME IInv, NEW h \in Handlings, Heal(h)
    PROVE  IInv'
<1> DEFINE req == Healer(server[h].outcome.offset)
<1>1. /\ Busy(h) /\ server[h].pc = "healing" /\ Appending(h, req)
      /\ UNCHANGED <<dialect, policy, deferred, client>>
    BY DEF Heal, Healer
<1>2. server[h].outcome.offset = Size
    BY <1>1 DEF IInv, Handled, Stands, Promised
<1>3. /\ req.op = "append" /\ req.complete = "yes" /\ req.offset = Size /\ req.content = 0
      /\ req.contentLength = 0 /\ req.header = "absent" /\ req.corrupt = FALSE
    BY <1>2 DEF Healer, Bare
<1>4. req \in Requests /\ Fit(req)
  <2>1. Bare("append") \in Requests
    BY Constants DEF Bare, Requests, Headers
  <2> DEFINE b == Bare("append")
  <2>3. [b EXCEPT !.complete = "yes", !.contentLength = 0, !.offset = Size] \in Requests
    <3> HIDE DEF b
    <3>1. b \in Requests => [b EXCEPT !.complete = "yes"] \in Requests
      BY DEF Requests
    <3>2. \A r \in Requests : [r EXCEPT !.contentLength = 0] \in Requests
      BY Constants DEF Requests
    <3>3. \A r \in Requests : [r EXCEPT !.offset = Size] \in Requests
      BY Constants DEF Requests
    <3> QED BY <2>1, <3>1, <3>2, <3>3 DEF b
  <2>2. req \in Requests
    BY <1>2, <2>3 DEF Healer
  <2> HIDE DEF req
  <2> QED BY <1>3, <2>2, Constants DEF Fit, Last
<1>5. Put(h, req)
    BY <1>1, <1>3, <1>4 DEF Put, req
<1> QED BY <1>1, <1>3, <1>5, AppendingKeeps

\* handleHead, handleProbe
LEMMA ProbeKeeps ==
    ASSUME IInv, NEW h \in Handlings, Probe(h)
    PROVE  IInv'
<1> DEFINE req == server[h].req
           v == EvaluateUploadIntent([kind |-> "probe"], upload, policy, Now)
<1>1. /\ Busy(h) /\ Begun(server[h]) /\ server[h].req.op = "probe"
      /\ UNCHANGED <<dialect, policy, deferred, client>>
      /\ Probing(h, req)
    BY DEF Probe, Received, Begun
<1>2. Asked(req) /\ req \in Requests /\ Fit(req)
    BY <1>1 DEF IInv, Handled, Stands, Asked
<1>3. ASSUME NEW o, Stated(req, o, upload', published'), Returns(h, req, o),
             Grows(upload', published', h)
      PROVE  IInv'
  <2>1. Comes(h, req, o, upload', published')
    BY <1>1, <1>2, <1>3 DEF Comes, Begun
  <2> QED BY <1>1, <1>3, <2>1, ReturnsKeeps
<1>4. FALSE \in BOOLEAN
    OBVIOUS
<1>5. CASE upload = None
  <2>1. /\ Returns(h, req, Reject("not-found", Unset, FALSE)) /\ UNCHANGED <<upload, published>>
    BY <1>1, <1>5 DEF Probing, Refuses
  <2>2. Stated(req, Reject("not-found", Unset, FALSE), upload', published')
    BY <1>4, <1>5, <2>1, RefusalStated
  <2> QED BY <1>3, <2>1, <2>2, StillGrows
<1>6. CASE upload # None /\ v.kind = "gone"
  <2>1. upload' = None /\ Returns(h, req, Reject("gone", Unset, FALSE)) /\ published' = published
    BY <1>1, <1>6 DEF Probing
  <2>2. upload.status # "complete"
    BY <1>6 DEF EvaluateUploadIntent, GoneReason, ExpiryGovernsUnfinished, ProbeResult
  <2>3. Grows(upload', published', h)
    BY <1>6, <2>1, <2>2 DEF Grows, Held, Out, IInv
  <2>4. Stated(req, Reject("gone", Unset, FALSE), upload', published')
    BY <1>4, <2>1, RefusalStated
  <2> QED BY <1>3, <2>1, <2>3, <2>4
<1>7. CASE upload # None /\ v.kind # "gone"
  <2>1. /\ UNCHANGED <<upload, published>>
        /\ \/ Returns(h, req, Outcome("probed", v.offset, v.length, v.complete, FALSE,
                                     Unset, FALSE))
           \/ Returns(h, req, Reject("store-error", Unset, FALSE))
    BY <1>1, <1>7 DEF Probing
  <2>2. v = ProbeResult(upload)
    BY <1>7 DEF EvaluateUploadIntent, Gone
  <2> HIDE DEF v
  <2>3. /\ v.offset = upload.offset /\ v.length = upload.length
        /\ v.complete \in BOOLEAN /\ (v.complete => upload.status = "complete")
    BY <2>2 DEF ProbeResult
  <2>4. Grows(upload', published', h)
    BY <2>1, StillGrows
  <2>5. Stated(req, Reject("store-error", Unset, FALSE), upload', published')
    BY <1>1, <1>4, RefusalStated
  <2> DEFINE o == Outcome("probed", v.offset, v.length, v.complete, FALSE, Unset, FALSE)
  <2>6. /\ o.kind = "probed" /\ o.offset = upload.offset /\ o.length = upload.length
        /\ o.complete \in BOOLEAN /\ (o.complete => upload.status = "complete")
        /\ o.interrupted = FALSE /\ o.at = Unset /\ o.token = FALSE
    BY <2>3 DEF Outcome
  <2> HIDE DEF o
  <2>7. /\ upload.offset \in 0..Size /\ upload.length \in {Size, Unset}
        /\ upload.offset <= upload.offset /\ (~deferred => upload.length = Size)
        /\ upload.status = "complete" => published # None
    BY <1>7, Constants DEF IInv, Held, Resource
  <2>8. Stated(req, o, upload, published)
    BY <1>1, <2>6, <2>7 DEF Stated
  <2>9. Stated(req, o, upload', published')
    BY <2>1, <2>8
  <2>10. Returns(h, req, o) \/ Returns(h, req, Reject("store-error", Unset, FALSE))
    BY <2>1 DEF o
  <2> QED BY <1>3, <2>4, <2>5, <2>9, <2>10
<1> QED BY <1>5, <1>6, <1>7

\* handleDelete, handleCancel
LEMMA CancelKeeps ==
    ASSUME IInv, NEW h \in Handlings, Cancel(h)
    PROVE  IInv'
<1> DEFINE req == server[h].req
           kind == IF upload = None THEN "not-found" ELSE "cancelled"
           o == Reject(kind, Unset, FALSE)
<1>1. /\ Busy(h) /\ Begun(server[h]) /\ req.op = "cancel"
      /\ UNCHANGED <<dialect, policy, deferred, published, client>>
      /\ upload' = None /\ Returns(h, req, o)
    BY DEF Cancel, Received, Begun
<1>2. Asked(req) /\ client.quits
    BY <1>1 DEF IInv, Handled, Stands
<1>3. Grows(upload', published', h)
    BY <1>1, <1>2 DEF Grows, Held, Out, IInv
<1>4. /\ o.kind \in {"not-found", "cancelled"} /\ o.offset = 0 /\ o.length = Unset
      /\ o.complete = FALSE /\ o.interrupted = FALSE /\ o.at = Unset /\ o.token = FALSE
    BY DEF Reject, Outcome
<1> HIDE DEF o
<1>5. o.offset \in 0..Size
    BY <1>4, Constants
<1>6. Stated(req, o, upload', published')
    BY <1>1, <1>4, <1>5 DEF Stated
<1>7. Comes(h, req, o, upload', published')
    BY <1>1, <1>2, <1>6 DEF Comes, Begun
<1> QED BY <1>1, <1>3, <1>7, ReturnsKeeps

\* A lock that is waited for in vain.
LEMMA ContendKeeps ==
    ASSUME IInv, NEW h \in Handlings, Contend(h)
    PROVE  IInv'
<1> DEFINE req == server[h].req
           o == Reject("contended", Unset, FALSE)
<1>1. /\ Busy(h) /\ Returns(h, req, o)
      /\ UNCHANGED <<dialect, policy, deferred, upload, published, client>>
    BY DEF Contend
<1>2. Asked(req)
    BY <1>1 DEF IInv, Handled, Stands
<1>3. FALSE \in BOOLEAN /\ o.kind = "contended"
    BY DEF Reject, Outcome
<1>4. Stated(req, o, upload', published')
      /\ Stated(Healer(server[h].outcome.offset), o, upload', published')
    BY <1>3, RefusalStated
<1>5. Comes(h, req, o, upload', published')
    BY <1>2, <1>3, <1>4 DEF Comes
<1>6. Grows(upload', published', h)
    BY <1>1, StillGrows
<1> QED BY <1>1, <1>5, <1>6, ReturnsKeeps

\* A process that dies
LEMMA DieKeeps ==
    ASSUME IInv, NEW h \in Handlings, Die(h)
    PROVE  IInv'
<1>1. /\ Busy(h) /\ Dies(h)
      /\ UNCHANGED <<dialect, policy, deferred, upload, published, client>>
    BY DEF Die
<1>2. Grows(upload', published', h)
    BY <1>1, StillGrows
<1> QED BY <1>1, <1>2, DiesKeeps

\* The deadline passes.
LEMMA LapseKeeps ==
    ASSUME IInv, Lapse
    PROVE  IInv'
<1>1. /\ upload # None /\ upload.status = "incomplete"
      /\ upload' = [upload EXCEPT !.expiresAt = Now]
      /\ UNCHANGED <<dialect, policy, deferred, published, server, client>>
    BY DEF Lapse
<1>2. /\ upload \in Resource /\ upload' \in Resource /\ upload' # None
      /\ upload'.offset = upload.offset /\ upload'.length = upload.length
      /\ upload'.status = upload.status /\ upload'.soiled = upload.soiled
    BY <1>1, NoneAssumption DEF IInv, Held, Resource
<1>3. upload.offset \in Nat /\ upload.offset <= upload.offset
    BY <1>2 DEF Resource
<1>4. Held(upload', published') /\ Out(upload', published')
    BY <1>1, <1>2 DEF IInv, Held, Out
<1>5. Held(upload, published)' /\ Out(upload, published)'
    BY <1>1, <1>4 DEF Held, Out
<1>6. Informed(upload, published)'
    BY <1>1, <1>2 DEF IInv, Informed
<1>7. ASSUME NEW g \in Handlings, Busy(g) PROVE Handled(g)'
  <2>1. Handled(g) /\ Stands(server[g], upload, published)
    BY <1>7 DEF IInv, Handled
  <2>2. Stands(server[g], upload', published')
    BY <1>1, <1>2, <1>3, <1>4, <2>1, StandsKept DEF IInv
  <2>3. Stands(server[g], upload, published)'
    BY <1>1, <2>2, StandsPrimed
  <2> QED BY <1>1, <1>7, <2>1, <2>3 DEF Handled, Alone, Busy
<1>8. \A g \in Handlings : Handled(g)'
    BY <1>1, <1>7 DEF Handled, Busy
<1>9. TypeOK' /\ Setting'
    BY <1>1, <1>2 DEF IInv, TypeOK, Setting, Busy
<1> QED BY <1>5, <1>6, <1>8, <1>9 DEF IInv

-------------------------------------------------------------------------------
(* The client *)

\* The upload stays, and so does what is in hand.
LEMMA ClientMoves ==
    ASSUME IInv, UNCHANGED <<dialect, policy, deferred, upload, published>>,
           DOMAIN server' = Handlings,
           client' \in [at : {"idle"} \cup Handlings \cup Ended, located : BOOLEAN,
                        offset : 0..Size \cup {Unset}, quits : BOOLEAN],
           client.quits => client'.quits,
           Informed(upload, published)',
           \A g \in Handlings : server'[g] # Free =>
              /\ Stands(server'[g], upload, published)
              /\ server'[g].req.op = "cancel" => client'.quits
              /\ server'[g].req.op = "create" <=> ~client'.located
              /\ ~client'.located =>
                    /\ client'.at \in {g, "stranded"}
                    /\ \A f \in Handlings : server'[f] # Free => f = g
    PROVE  IInv'
<1>1. ASSUME NEW g \in Handlings, server'[g] # Free PROVE Handled(g)'
  <2>1. Stands(server[g], upload, published)'
    BY <1>1, StandsPrimed
  <2> QED BY <1>1, <2>1 DEF Handled, Alone, Busy
<1>2. \A g \in Handlings : Handled(g)'
    BY <1>1 DEF Handled, Busy
<1>3. Held(upload, published)' /\ Out(upload, published)'
    BY DEF IInv, Held, Out
<1>4. Setting'
    BY DEF IInv, Setting
<1>5. TypeOK'
    BY DEF IInv, TypeOK, Stands, Asked, Busy
<1> QED BY <1>2, <1>3, <1>4, <1>5 DEF IInv

\* The client sends a request, which may be damaged on its way.
LEMMA SendsKeeps ==
    ASSUME IInv, NEW req, Asked(req), ~req.corrupt, tus \/ req.complete = "no",
           client.at = "idle", req.op = "create" <=> ~client.located, Sends(req)
    PROVE  IInv'
<1>1. PICK h \in Handlings :
        /\ ~Busy(h)
        /\ client' = [client EXCEPT !.at = h, !.quits = @ \/ req.op = "cancel"]
        /\ \E sent \in {req} \cup Damaged(req) :
              server' = [server EXCEPT ![h] = [pc |-> "received", req |-> sent]]
        /\ UNCHANGED <<dialect, policy, deferred, upload, published>>
    BY DEF Sends
<1>2. PICK sent \in {req} \cup Damaged(req) :
        server' = [server EXCEPT ![h] = [pc |-> "received", req |-> sent]]
    BY <1>1
<1>3. Asked(sent) /\ sent.op = req.op
  <2>1. CASE sent = req
    BY <2>1
  <2>2. CASE req.sum /\ sent = [req EXCEPT !.corrupt = TRUE]
    <3>1. /\ sent \in Requests /\ sent.corrupt = TRUE /\ sent.op = req.op
          /\ sent.complete = req.complete /\ sent.offset = req.offset
          /\ sent.content = req.content /\ sent.contentLength = req.contentLength
          /\ sent.body = req.body /\ sent.declaredLength = req.declaredLength
          /\ sent.header = req.header /\ sent.sum = req.sum
      BY <2>2 DEF Asked, Requests
    <3> QED BY <2>2, <3>1 DEF Asked, Fit, Last
  <2>3. CASE ~tus /\ \E x \in {"absent", "malformed"} : sent = [req EXCEPT !.header = x]
    <3>1. /\ sent \in Requests /\ sent.corrupt = req.corrupt /\ sent.op = req.op
          /\ sent.complete = req.complete /\ sent.offset = req.offset
          /\ sent.content = req.content /\ sent.contentLength = req.contentLength
          /\ sent.body = req.body /\ sent.declaredLength = req.declaredLength
          /\ sent.header \in {"absent", "malformed"} /\ sent.sum = req.sum
      BY <2>3 DEF Asked, Requests, Headers
    <3> QED BY <2>3, <3>1 DEF Asked, Fit, Last
  <2> QED BY <2>1, <2>2, <2>3 DEF Damaged
<1>4. /\ client'.at = h /\ client'.located = client.located /\ client'.offset = client.offset
      /\ client'.quits = (client.quits \/ req.op = "cancel")
      /\ client' \in [at : {"idle"} \cup Handlings \cup Ended, located : BOOLEAN,
                      offset : 0..Size \cup {Unset}, quits : BOOLEAN]
    BY <1>1 DEF IInv, TypeOK
<1>5. Informed(upload, published)'
    BY <1>1, <1>4, DialectsAssumption DEF IInv, Informed
<1>6. ~client.located => upload = None /\ \A g \in Handlings : ~Busy(g)
    BY DialectsAssumption DEF IInv, Informed, Handled, Alone
<1>7. DOMAIN server' = Handlings
      /\ \A g \in Handlings : server'[g] = IF g = h THEN [pc |-> "received", req |-> sent]
                                           ELSE server[g]
    BY <1>2 DEF IInv, Setting
<1>8. Stands([pc |-> "received", req |-> sent], upload, published)
    BY <1>3, <1>6 DEF Stands, Begun
<1>9. ASSUME NEW g \in Handlings, server'[g] # Free
      PROVE  /\ Stands(server'[g], upload, published)
             /\ server'[g].req.op = "cancel" => client'.quits
             /\ server'[g].req.op = "create" <=> ~client'.located
             /\ ~client'.located =>
                   /\ client'.at \in {g, "stranded"}
                   /\ \A f \in Handlings : server'[f] # Free => f = g
  <2>1. CASE g = h
    <3>1. server'[g] = [pc |-> "received", req |-> sent] /\ server'[g].req = sent
      BY <1>7, <2>1
    <3>2. ~client'.located => \A f \in Handlings : server'[f] # Free => f = g
      BY <1>4, <1>6, <1>7, <2>1 DEF Busy
    <3> QED BY <1>3, <1>4, <1>8, <2>1, <3>1, <3>2
  <2>2. CASE g # h
    <3>1. server'[g] = server[g] /\ Busy(g) /\ Handled(g)
      BY <1>7, <1>9, <2>2 DEF Busy, IInv
    <3>2. client.located
      BY <1>6, <3>1
    <3> QED BY <1>4, <3>1, <3>2 DEF Handled
  <2> QED BY <2>1, <2>2
<1> QED BY <1>1, <1>4, <1>5, <1>7, <1>9, ClientMoves

\* The versions of the draft state completeness in a header of two values.
LEMMA Encoding ==
    ASSUME dialect \in Dialects, ~tus, NEW last \in BOOLEAN
    PROVE  /\ Encoded(last) \in {"?1", "?0"}
           /\ DecodeCompleteness(Encoded(last)) => last
<1>1. dialect \in {"v3", "v5", "v9", "v10"}
    BY DialectsAssumption DEF tus
<1>2. Wire.headerAssertsComplete \in BOOLEAN
  <2>1. \A d \in {"v3", "v5", "v9", "v10"} : Wires[d].headerAssertsComplete \in BOOLEAN
    <3>1. /\ Wires["v3"].headerAssertsComplete = FALSE
          /\ Wires["v5"].headerAssertsComplete = TRUE
          /\ Wires["v9"].headerAssertsComplete = TRUE
          /\ Wires["v10"].headerAssertsComplete = TRUE
      BY DEF Wires, Row
    <3> QED BY <3>1
  <2> QED BY <1>1, <2>1 DEF Wire
<1> QED BY <1>2 DEF Encoded, DecodeCompleteness

\* What the client sends with content.
LEMMA ContentAsked ==
    ASSUME dialect \in Dialects, deferred \in BOOLEAN, NEW op \in {"create", "append"},
           NEW from \in 0..Size, op = "create" => from = 0, NEW n \in 0..Size, from + n <= Size,
           NEW req \in Content(op, from, n)
    PROVE  /\ Asked(req) /\ ~req.corrupt /\ req.op = op
           /\ tus \/ req.complete = "no"
<1> DEFINE last == from + n = Size
           declared == Declares(op, last)
<1>1. PICK size \in SizesOf(op, n), header \in HeadersFor(op, last), sum \in {FALSE, tus /\ n > 0} :
        req = [op |-> op, complete |-> Completeness(op, declared, n, size), offset |-> from,
               content |-> n, contentLength |-> size, declaredLength |-> declared,
               body |-> n > 0, header |-> header, sum |-> sum, corrupt |-> FALSE]
    BY DEF Content
<1>2. size \in {Unset, n}
    BY DEF SizesOf
<1>3. declared = IF op = "create" THEN (IF deferred THEN Unset ELSE Size)
                 ELSE IF tus /\ deferred /\ op = "append" /\ last THEN Size ELSE Unset
    BY DEF Declares
<1>4. last \in BOOLEAN
    OBVIOUS
<1> HIDE DEF last, declared
<1>5. /\ header \in Headers
      /\ tus => header = "absent"
      /\ ~tus /\ header \in {"?1", "?0"} /\ DecodeCompleteness(header) => last
    BY <1>4, Encoding DEF HeadersFor, Headers
<1>6. /\ ~tus => Completeness(op, declared, n, size) = "no"
      /\ Completeness(op, declared, n, size) \in {"no", "infer"}
      /\ op = "create" /\ Completeness(op, declared, n, size) = "infer" => ~deferred
    BY <1>3 DEF Completeness, TusCompletes
<1>7. sum \in BOOLEAN /\ (sum => tus)
    BY DEF tus
<1>8. /\ req.op = op /\ req.complete = Completeness(op, declared, n, size) /\ req.offset = from
      /\ req.content = n /\ req.contentLength = size /\ req.declaredLength = declared
      /\ req.header = header /\ req.sum = sum
      /\ req.body <=> n > 0
      /\ ~req.corrupt
    BY <1>1
<1>9. req \in Requests
  <2>1. declared \in {Size, Unset} /\ (n > 0) \in BOOLEAN /\ size \in 0..Size \cup {Unset}
    BY <1>2, <1>3
  <2> QED BY <1>1, <1>5, <1>6, <1>7, <2>1 DEF Requests
<1>10. Last(req) <=> last
    BY <1>8 DEF Last, last
<1>11. Fit(req)
    BY <1>2, <1>6, <1>8, <1>10 DEF Fit
<1> QED BY <1>3, <1>5, <1>6, <1>7, <1>8, <1>9, <1>10, <1>11 DEF Asked

\* What it sends without.
LEMMA BareAsked ==
    ASSUME NEW op \in {"probe", "cancel"}
    PROVE  Asked(Bare(op)) /\ ~Bare(op).corrupt /\ Bare(op).op = op /\ Bare(op).complete = "no"
<1> DEFINE req == Bare(op)
<1>1. /\ req.op = op /\ req.complete = "no" /\ req.offset = 0 /\ req.content = 0
      /\ req.contentLength = Unset /\ req.declaredLength = Unset /\ req.body = FALSE
      /\ req.header = "absent" /\ req.sum = FALSE /\ req.corrupt = FALSE
    BY DEF Bare
<1>2. req \in Requests
    BY Constants DEF Bare, Requests, Headers
<1> HIDE DEF req
<1> SUFFICES Asked(req) /\ ~req.corrupt /\ req.op = op /\ req.complete = "no"
    BY DEF req
<1>3. req.body <=> req.content > 0
    BY <1>1
<1> QED BY <1>1, <1>2, <1>3, Constants DEF Asked, Fit, Last

\* The client's requests.
LEMMA ClientSendsKeeps ==
    ASSUME IInv, ClientSends
    PROVE  IInv'
<1>1. dialect \in Dialects /\ deferred \in BOOLEAN /\ client.offset \in 0..Size \cup {Unset}
    BY DEF IInv, Setting, TypeOK
<1>2. CASE SendCreation
  <2>1. PICK n \in 0..Size : \E req \in Content("create", 0, n) : Sends(req)
    BY <1>2 DEF SendCreation
  <2>2. PICK req \in Content("create", 0, n) : Sends(req)
    BY <2>1
  <2>3. Asked(req) /\ ~req.corrupt /\ req.op = "create" /\ (tus \/ req.complete = "no")
    BY <1>1, ContentAsked, Constants
  <2> QED BY <1>2, <2>2, <2>3, SendsKeeps DEF SendCreation
<1>3. CASE SendAppend
  <2>1. PICK n \in Contents(client.offset) :
          \E req \in Content("append", client.offset, n) : Sends(req)
    BY <1>3 DEF SendAppend
  <2>2. PICK req \in Content("append", client.offset, n) : Sends(req)
    BY <2>1
  <2>3. client.offset \in 0..Size /\ n \in 0..Size /\ client.offset + n <= Size
    BY <1>1, <1>3, Constants DEF SendAppend, Contents
  <2>4. Asked(req) /\ ~req.corrupt /\ req.op = "append" /\ (tus \/ req.complete = "no")
    BY <1>1, <2>3, ContentAsked
  <2> QED BY <1>3, <2>2, <2>4, SendsKeeps DEF SendAppend
<1>4. CASE SendProbe
    BY <1>4, BareAsked, SendsKeeps DEF SendProbe
<1>5. CASE SendCancel
    BY <1>5, BareAsked, SendsKeeps DEF SendCancel
<1> QED BY <1>2, <1>3, <1>4, <1>5 DEF ClientSends

\* An answer arrives, or nobody waits for it.
LEMMA DeliverKeeps ==
    ASSUME IInv, NEW h \in Handlings, Deliver(h)
    PROVE  IInv'
<1> DEFINE req == server[h].req
           a == server[h].answer
<1>1. /\ Busy(h) /\ server[h].pc = "answering"
      /\ server' = [server EXCEPT ![h] = Free]
      /\ client' = IF client.at = h THEN Believes(req, a) ELSE client
      /\ UNCHANGED <<dialect, policy, deferred, upload, published>>
    BY DEF Deliver
<1>2. Handled(h) /\ Asked(req) /\ Answered(req, a, upload, published)
    BY <1>1 DEF IInv, Handled, Stands
<1>3. DOMAIN server' = Handlings
      /\ \A g \in Handlings : server'[g] = IF g = h THEN Free ELSE server[g]
    BY <1>1 DEF IInv, Setting
<1>4. client \in [at : {"idle"} \cup Handlings \cup Ended, located : BOOLEAN,
                  offset : 0..Size \cup {Unset}, quits : BOOLEAN]
    BY DEF IInv, TypeOK
<1>5. ASSUME client' = client PROVE IInv'
  <2>1. Informed(upload, published)'
    BY <1>1, <1>5 DEF IInv, Informed
  <2>2. ASSUME NEW g \in Handlings, server'[g] # Free
        PROVE  /\ Stands(server'[g], upload, published)
               /\ server'[g].req.op = "cancel" => client'.quits
               /\ server'[g].req.op = "create" <=> ~client'.located
               /\ ~client'.located =>
                     /\ client'.at \in {g, "stranded"}
                     /\ \A f \in Handlings : server'[f] # Free => f = g
    <3>1. server'[g] = server[g] /\ Handled(g) /\ Busy(g)
      BY <1>3, <2>2, SMTT(60) DEF Busy, IInv
    <3> QED BY <1>3, <1>5, <3>1 DEF Handled, Alone, Busy
  <2> QED BY <1>1, <1>3, <1>4, <1>5, <2>1, <2>2, ClientMoves
<1>6. CASE client.at = h
  <2>1. client' = Believes(req, a)
    BY <1>1, <1>6
  <2>2. /\ client'.located = (client.located \/ a.location) /\ client'.quits = client.quits
        /\ client'.offset = IF LeftAlone(req, a) \/ Vanished(req, a) THEN Unset
                            ELSE Resumes(req, a)
        /\ client'.at = CASE LeftAlone(req, a) -> "stranded" [] Vanished(req, a) -> "gone"
                          [] Satisfied(req, a) -> "done" [] GivesUp(a) -> "failed"
                          [] OTHER -> "idle"
        /\ DOMAIN client' = {"at", "located", "offset", "quits"}
        /\ client' = [at |-> client'.at, located |-> client'.located, offset |-> client'.offset,
                      quits |-> client'.quits]
    BY <1>4, <2>1 DEF Believes
  <2>3. a.offset \in 0..Size \cup {Unset} /\ a.location \in BOOLEAN /\ a.status \in Nat
    BY <1>2 DEF Answered
  <2>4. /\ client'.offset \in {Unset, 0, a.offset}
        /\ client'.offset = 0 => a.offset = 0 \/ a.status = 201
    BY <2>2, Constants DEF Resumes, Or
  <2>5. /\ client'.at \in {"stranded", "gone", "done", "idle"}
        /\ client'.at = "gone" => Vanished(req, a)
        /\ client'.at = "done" => Satisfied(req, a)
        /\ client'.at = "idle" => ~LeftAlone(req, a)
    BY <1>2, <2>2 DEF Answered
  <2>6. client' \in [at : {"idle"} \cup Handlings \cup Ended, located : BOOLEAN,
                     offset : 0..Size \cup {Unset}, quits : BOOLEAN]
    <3>1. client'.offset \in 0..Size \cup {Unset}
      BY <2>3, <2>4, Constants
    <3>2. client'.at \in {"idle"} \cup Handlings \cup Ended
      BY <2>5 DEF Ended
    <3>3. client'.located \in BOOLEAN /\ client'.quits \in BOOLEAN
      BY <1>4, <2>2
    <3> QED BY <2>2, <3>1, <3>2, <3>3
  <2>7. client'.located <=> client.located \/ a.location
    BY <2>2
  <2>8. ~client.located => req.op = "create"
    BY <1>1, <1>2 DEF Handled
  <2>9. client'.offset # Unset /\ upload # None => client'.offset <= upload.offset
    <3>1. upload # None => upload.offset \in Nat
      BY DEF IInv, Held, Resource
    <3> QED BY <1>2, <2>3, <2>4, <3>1 DEF Answered
  <2>10. ~client'.located => client'.offset = Unset
    BY <1>2, <2>4, <2>7, <2>8, Constants DEF Answered
  <2>11. client'.at = "idle" /\ ~client'.located => upload = None
    BY <1>2, <2>5, <2>7, <2>8 DEF Answered, LeftAlone
  <2>12. /\ client'.at = "gone" => upload = None
         /\ client'.at # "failed"
         /\ client'.at = "done" => published # None
    BY <1>2, <2>5 DEF Answered
  <2>13. Informed(upload, published)'
    BY <1>1, <2>9, <2>10, <2>11, <2>12 DEF Informed
  <2>14. ASSUME NEW g \in Handlings, server'[g] # Free
         PROVE  /\ Stands(server'[g], upload, published)
                /\ server'[g].req.op = "cancel" => client'.quits
                /\ server'[g].req.op = "create" <=> ~client'.located
                /\ ~client'.located =>
                      /\ client'.at \in {g, "stranded"}
                      /\ \A f \in Handlings : server'[f] # Free => f = g
    <3>1. server'[g] = server[g] /\ Handled(g) /\ Busy(g) /\ g # h
      BY <1>3, <2>14 DEF Busy, IInv
    <3>2. client.located
      BY <1>1, <3>1 DEF Handled, Alone
    <3> QED BY <2>2, <2>7, <3>1, <3>2 DEF Handled
  <2> QED BY <1>1, <1>3, <2>2, <2>6, <2>13, <2>14, ClientMoves
<1> QED BY <1>1, <1>5, <1>6

\* The client stops waiting.
LEMMA TimeOutKeeps ==
    ASSUME IInv, NEW h \in Handlings, TimeOut(h)
    PROVE  IInv'
<1>1. /\ client.at = h
      /\ client' = [client EXCEPT !.at = IF client.located THEN "idle" ELSE "stranded",
                                  !.offset = Unset]
      /\ UNCHANGED <<dialect, policy, deferred, upload, published, server>>
    BY DEF TimeOut
<1>2. /\ client'.located = client.located /\ client'.quits = client.quits
      /\ client'.offset = Unset
      /\ client'.at = IF client.located THEN "idle" ELSE "stranded"
      /\ client' \in [at : {"idle"} \cup Handlings \cup Ended, located : BOOLEAN,
                      offset : 0..Size \cup {Unset}, quits : BOOLEAN]
    BY <1>1 DEF IInv, TypeOK, Ended
<1>3. Informed(upload, published)'
    BY <1>1, <1>2 DEF IInv, Informed
<1>4. ASSUME NEW g \in Handlings, server'[g] # Free
      PROVE  /\ Stands(server'[g], upload, published)
             /\ server'[g].req.op = "cancel" => client'.quits
             /\ server'[g].req.op = "create" <=> ~client'.located
             /\ ~client'.located =>
                   /\ client'.at \in {g, "stranded"}
                   /\ \A f \in Handlings : server'[f] # Free => f = g
  <2>1. server' = server /\ Handled(g) /\ Busy(g)
    BY <1>1, <1>4 DEF Busy, IInv
  <2> QED BY <1>2, <2>1 DEF Handled, Alone, Busy
<1>5. DOMAIN server' = Handlings
    BY <1>1 DEF IInv, Setting
<1> QED BY <1>1, <1>2, <1>3, <1>4, <1>5, ClientMoves

-------------------------------------------------------------------------------
(* The theorems *)

\* Nothing is there, and nobody has asked.
LEMMA InitIInv == Init => IInv
<1> SUFFICES ASSUME Init PROVE IInv
    OBVIOUS
<1>1. /\ upload = None /\ published = None /\ client.offset = Unset /\ client.at = "idle"
      /\ client \in [at : {"idle"} \cup Handlings \cup Ended, located : BOOLEAN,
                     offset : 0..Size \cup {Unset}, quits : BOOLEAN]
      /\ DOMAIN server = Handlings /\ \A h \in Handlings : ~Busy(h)
    BY DEF Init, Busy
<1>2. Setting
    BY <1>1 DEF Init, Setting
<1> QED BY <1>1, <1>2 DEF IInv, TypeOK, Held, Out, Informed, Handled

\* Every step keeps the invariant.
LEMMA NextIInv == IInv /\ [Next]_vars => IInv'
<1> SUFFICES ASSUME IInv, [Next]_vars PROVE IInv'
    OBVIOUS
<1>1. CASE ClientSends
    BY <1>1, ClientSendsKeeps
<1>2. CASE Lapse
    BY <1>2, LapseKeeps
<1>3. ASSUME NEW h \in Handlings, Handles(h) PROVE IInv'
    BY <1>3, VerifyKeeps, CreateKeeps, AppendKeeps, ProbeKeeps, CancelKeeps, HealKeeps,
       DeliverKeeps DEF Handles
<1>4. ASSUME NEW h \in Handlings, Contend(h) \/ Die(h) \/ TimeOut(h) PROVE IInv'
    BY <1>4, ContendKeeps, DieKeeps, TimeOutKeeps
<1>5. CASE UNCHANGED vars
  <2>1. Informed(upload, published)'
    BY <1>5 DEF vars, IInv, Informed
  <2>2. ASSUME NEW g \in Handlings, server'[g] # Free
        PROVE  /\ Stands(server'[g], upload, published)
               /\ server'[g].req.op = "cancel" => client'.quits
               /\ server'[g].req.op = "create" <=> ~client'.located
               /\ ~client'.located =>
                     /\ client'.at \in {g, "stranded"}
                     /\ \A f \in Handlings : server'[f] # Free => f = g
    <3>1. server' = server /\ client' = client /\ Handled(g) /\ Busy(g)
      BY <1>5, <2>2 DEF vars, Busy, IInv
    <3> QED BY <3>1 DEF Handled, Alone, Busy
  <2>3. UNCHANGED <<dialect, policy, deferred, upload, published, server, client>>
    BY <1>5 DEF vars
  <2>4. DOMAIN server' = Handlings /\ client' = client
        /\ client \in [at : {"idle"} \cup Handlings \cup Ended, located : BOOLEAN,
                       offset : 0..Size \cup {Unset}, quits : BOOLEAN]
    BY <2>3 DEF IInv, Setting, TypeOK
  <2> QED BY <2>1, <2>2, <2>3, <2>4, ClientMoves
<1> QED BY <1>1, <1>2, <1>3, <1>4, <1>5 DEF Next

\* It is invariant.
LEMMA AlwaysIInv == Spec => []IInv
<1> QED BY InitIInv, NextIInv, PTL DEF Spec

\* Whatever goes wrong on the way, a client that cancelled nothing is never told
\* more than the upload holds, nor that it is gone where it has been published,
\* and can reach whatever it made; no draft client is told to give up.
THEOREM NobodyIsMisled == Spec => []Inv
<1>1. IInv => Inv
  <2>1. IInv => NothingVanishes
    BY DEF IInv, Informed, Out, NothingVanishes
  <2> QED BY <2>1 DEF IInv, Informed, Inv, NeverAhead, NothingUnreachable
<1> QED BY <1>1, AlwaysIInv, PTL

\* What a client of either dialect takes for success is one: the whole of the
\* representation has been published, undamaged, and nothing else ever is.
THEOREM SuccessIsWhole == Spec => []DoneMeansWhole
<1>1. IInv => DoneMeansWhole
    BY DEF IInv, Informed, Out, DoneMeansWhole
<1> QED BY <1>1, AlwaysIInv, PTL
===============================================================================

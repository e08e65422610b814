----------------------------- MODULE UploadEngine -----------------------------
(***************************************************************************)
(* The pure decision engine of resumable uploads (src/upload-engine.ts):   *)
(* what a creation or an append may do, given the policy and the state the *)
(* store reports.  No variable: the orchestrator's modules call these      *)
(* operators the way the orchestrator calls the functions.                 *)
(*                                                                         *)
(* A field the code leaves undefined is Unset.  A verdict is a record with *)
(* a kind and the fields the orchestrator reads; audit events are left     *)
(* out.  Numbers that are no counts (isCount) never reach the engine here. *)
(***************************************************************************)
EXTENDS Naturals

CONSTANT Unset

ASSUME UnsetAssumption == Unset \notin Nat \cup {"invalidated", "expired", "length", "size"}

Optional == Nat \cup {Unset}
Statuses == {"incomplete", "complete", "invalidated"}

\* UploadPolicy; the ages of resources are in units of the clock.
Policies ==
    [maxSize : Optional, minSize : Optional, maxAppendSize : Optional,
     minAppendSize : Optional, maxAge : Optional]

\* validatePolicy: no floor above its ceiling.
Exceeds(floor, ceiling) == floor # Unset /\ ceiling # Unset /\ floor > ceiling
ValidPolicy(p) ==
    /\ ~Exceeds(p.minSize, p.maxSize)
    /\ ~Exceeds(p.minAppendSize, p.maxAppendSize)

\* a ?? b
Or(a, b) == IF a # Unset THEN a ELSE b

\* n is known and lies above, or below, a limit that is set.
Over(n, limit)  == n # Unset /\ limit # Unset /\ n > limit
Under(n, limit) == n # Unset /\ limit # Unset /\ n < limit

\* assertSaneState: any other state makes the engine throw.
SaneState(s) == Over(s.offset, s.length) => s.status = "invalidated"

\* uploadExpiry: the deadline recorded at creation, else the policy's age.
UploadExpiry(s, p) ==
    IF s.expiresAt # Unset THEN s.expiresAt
    ELSE IF p.maxAge = Unset THEN Unset ELSE s.createdAt + p.maxAge

\* isExpired.
IsExpired(s, p, now) ==
    /\ UploadExpiry(s, p) # Unset
    /\ now >= UploadExpiry(s, p) /\ now > s.createdAt

Inconsistent    == [kind |-> "length-inconsistent"]
Limited(reason) == [kind |-> "limit-violation", reason |-> reason]
Gone(reason)    == [kind |-> "gone", reason |-> reason]
Mismatch(s)     == [kind |-> "offset-mismatch", correctOffset |-> s.offset]

-------------------------------------------------------------------------------
(* appendBound: the hard byte bound of one append *)

\* Math.max(0, limit - offset), for a limit that is set.
Room(limit, offset) ==
    IF limit = Unset THEN Unset ELSE IF limit > offset THEN limit - offset ELSE 0

\* The tighter of two bounds either of which may be unset.
Tighter(a, b) ==
    IF a = Unset THEN b ELSE IF b = Unset THEN a ELSE IF a <= b THEN a ELSE b

\* Whether the representation's bound binds, not this request's ceiling.
RepresentationBinds(total, perAppend) == perAppend = Unset \/ total <= perAppend

\* A bound of zero is never fatal; the slip forgets it.
AnyBoundFatal(total) == TRUE
Fatal(total) == total # 0

AppendBound(offset, length, p) ==
    LET toLength == Room(length, offset)
        total    == Tighter(toLength, Room(p.maxSize, offset))
        reason   == IF toLength # Unset /\ toLength = total THEN "length" ELSE "size"
    IN
    IF total # Unset /\ (total = 0 \/ RepresentationBinds(total, p.maxAppendSize))
    THEN [maxBytes |-> total, maxBytesFatal |-> Fatal(total), fatalReason |-> reason]
    ELSE [maxBytes |-> p.maxAppendSize, maxBytesFatal |-> FALSE, fatalReason |-> Unset]

-------------------------------------------------------------------------------
(* evaluateUploadCreation *)

\* Two length indicators of one request that disagree, or content larger
\* than the total it declares.
CreationInconsistent(i) ==
    /\ i.declaredLength # Unset /\ i.contentLength # Unset
    /\ \/ i.contentLength > i.declaredLength
       \/ i.complete /\ i.contentLength # i.declaredLength

CreationTotal(i) ==
    IF i.declaredLength = Unset /\ i.complete THEN i.contentLength ELSE i.declaredLength

EvaluateUploadCreation(i, p) ==
    LET total == CreationTotal(i) IN
    IF CreationInconsistent(i) THEN Inconsistent
    ELSE IF Over(Or(total, i.contentLength), p.maxSize) THEN Limited("size-exceeded")
    ELSE IF Under(total, p.minSize) THEN Limited("below-min-size")
    ELSE IF Over(i.contentLength, p.maxAppendSize) THEN Limited("append-too-large")
    ELSE IF ~i.complete /\ i.contentLength # 0 /\ Under(i.contentLength, p.minAppendSize)
    THEN Limited("append-too-small")
    ELSE [kind |-> "create-accepted", bound |-> AppendBound(0, total, p),
          declaredLength |-> total, completes |-> i.complete, completesAt |-> total]

-------------------------------------------------------------------------------
(* evaluateAppend and evaluateUploadIntent *)

\* A length once known may only be restated; one declared for the first time
\* must cover the bytes already durable, which the slip forgets.
LengthRestated(i, s) ==
    i.declaredLength # Unset /\ s.length # Unset /\ i.declaredLength # s.length
LengthMutated(i, s) ==
    /\ i.declaredLength # Unset
    /\ IF s.length # Unset THEN i.declaredLength # s.length
       ELSE i.declaredLength < s.offset

\* A completing request of known size fixes the total, which must agree with
\* a known length; a retried completion at the durable end is handled later.
TailDisagrees(i, s, length) ==
    /\ i.complete /\ i.contentLength # Unset /\ length # Unset
    /\ i.offset + i.contentLength # length
    /\ ~(s.status = "complete" /\ i.offset = s.offset)

\* The client's own statement that this append is the last one, where it can
\* be held to it before the write.  The slip takes an inference for one.
StatesFinalUnchecked(i, s, length) == i.complete
ClientStatesFinal(i, s, length) ==
    /\ i.complete /\ ~i.completeInferred
    /\ i.contentLength # Unset \/ length = Unset \/ length = s.offset

\* Content of a known size that would cross a known length.
CrossesLength(i, length) ==
    i.contentLength # Unset /\ Over(i.offset + i.contentLength, length)
CrossesMaxSize(i, p) ==
    i.contentLength # Unset /\ Over(i.offset + i.contentLength, p.maxSize)

\* The total known once this request has been accepted.
AppendTotal(i, length) ==
    IF length = Unset /\ i.complete /\ i.contentLength # Unset
    THEN i.offset + i.contentLength ELSE length

\* The total floor, met where the request first fixes a total: the slip
\* checks only a total the request declares.
DeclaredBelowFloor(i, s, total, p) == s.length = Unset /\ Under(i.declaredLength, p.minSize)
TotalBelowFloor(i, s, total, p) == s.length = Unset /\ Under(total, p.minSize)

AppendAllowed(i, s, total, p) ==
    [kind |-> "append-allowed", bound |-> AppendBound(s.offset, total, p),
     declaredLength |-> IF s.length = Unset THEN total ELSE Unset,
     completes |-> i.complete, completesAt |-> IF i.complete THEN total ELSE Unset]

EvaluateAppend(i, s, p) ==
    LET length == Or(s.length, i.declaredLength)
        total  == AppendTotal(i, length)
    IN
    IF LengthMutated(i, s) THEN Inconsistent
    ELSE IF s.length = Unset /\ Over(i.declaredLength, p.maxSize)
    THEN Limited("size-exceeded")
    ELSE IF TailDisagrees(i, s, length) THEN Inconsistent
    ELSE IF i.offset # s.offset THEN Mismatch(s)
    ELSE IF s.status = "complete"
    THEN IF i.contentLength \notin {Unset, 0} THEN Inconsistent
         ELSE [kind |-> "already-complete"]
    ELSE IF Over(i.contentLength, p.maxAppendSize) THEN Limited("append-too-large")
    ELSE IF /\ p.minAppendSize # Unset /\ ~ClientStatesFinal(i, s, length)
            /\ i.contentLength = Unset \/ Under(i.contentLength, p.minAppendSize)
    THEN Limited("append-too-small")
    ELSE IF CrossesLength(i, length) THEN Inconsistent
    ELSE IF CrossesMaxSize(i, p) THEN Limited("size-exceeded")
    ELSE IF TotalBelowFloor(i, s, total, p) THEN Limited("below-min-size")
    ELSE AppendAllowed(i, s, total, p)

\* Terminal states first: the reason an upload is gone, or Unset.  Expiry
\* governs unfinished uploads only.
ExpiryGovernsUnfinished(s) == s.status # "complete"
GoneReason(s, p, now) ==
    IF s.status = "invalidated" THEN "invalidated"
    ELSE IF ExpiryGovernsUnfinished(s) /\ IsExpired(s, p, now) THEN "expired" ELSE Unset

ProbeResult(s) ==
    [kind |-> "probe-result", offset |-> s.offset, length |-> s.length,
     complete |-> s.status = "complete"]

EvaluateUploadIntent(i, s, p, now) ==
    IF GoneReason(s, p, now) # Unset THEN Gone(GoneReason(s, p, now))
    ELSE IF i.kind = "probe" THEN ProbeResult(s) ELSE EvaluateAppend(i, s, p)
===============================================================================

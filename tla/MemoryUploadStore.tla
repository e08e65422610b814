--------------------------- MODULE MemoryUploadStore ---------------------------
(***************************************************************************)
(* memoryUploadStore (src/memory.ts): upload records in a Map, published   *)
(* into a plain object the host program also writes.                       *)
(*                                                                         *)
(* Nothing here assumes a lock.  Appends yield to the event loop while     *)
(* they read their body and completions while they hash, so any number of  *)
(* calls on one upload interleave, with aborts and sweeps that take no     *)
(* lock at all.  What a call does between two awaits is one action.        *)
(*                                                                         *)
(* A byte is modelled by the call that delivered it: the content of an     *)
(* upload is the sequence of the calls its bytes came from.  newUploadId   *)
(* never returns a token twice, so a record found under a token is the     *)
(* record an earlier lookup found.                                         *)
(***************************************************************************)
EXTENDS Naturals, Sequences

CONSTANTS Uploads,     \* upload tokens
          Keys,        \* destination keys
          KeyOf,       \* the key each upload publishes into
          Calls,       \* appendChunk and completeUpload calls, and their bytes
          Stranger,    \* whoever else writes the objects map
          Unset,       \* undefined
          MaxEditions  \* bound: strangers write no more once there are so many

Optional == Nat \cup {Unset}
Content  == Seq(Calls)

ASSUME StoreAssumption ==
    /\ KeyOf \in [Uploads -> Keys]
    /\ Stranger \notin Uploads /\ Unset \notin Uploads \cup Calls \cup Nat
    /\ MaxEditions \in Nat

\* An entry of the objects map.  Every entry written has an edition of its
\* own: the code compares entry, body and etag by identity.
Entry == [body : Content, writer : Uploads \cup {Stranger}, edition : Nat]
Absent == [body |-> <<>>, writer |-> Stranger, edition |-> 0]

\* A completion's plan: the destination as it was found, and which call made
\* the seal (two seals over one destination are different objects).
Seal == [destination : Entry, by : Calls]
NoSeal == [destination |-> Absent, by |-> Unset]

Record ==
    [bytes : Content, size : Nat, length : Optional, isComplete : BOOLEAN,
     isInvalidated : BOOLEAN, seal : Seal \cup {NoSeal}]

\* What a call is answered: what it made durable, or why it was refused and
\* the durable offset the refusal names.
Kinds == {"pending", "wrote", "conflict", "not-found", "overrun", "bound", "completed",
          "invalidated", "digest-mismatch", "destination-conflict"}
Answer == [kind : Kinds, bytes : Nat, interrupted : BOOLEAN]
Answered(kind, bytes) == [kind |-> kind, bytes |-> bytes, interrupted |-> FALSE]
Wrote(bytes, interrupted) ==
    [kind |-> "wrote", bytes |-> bytes, interrupted |-> interrupted]

\* A call's own state: where it is, the arguments it still needs, the bytes it
\* accepted or the plan it sealed, and its answer.
Call ==
    [pc : {"idle", "streaming", "hashing", "settled"}, upload : Uploads \cup {Unset}, offset : Nat,
     max : Optional, fatal : BOOLEAN, flushed : Nat, plan : Content,
     seal : Seal \cup {NoSeal}, answer : Answer]

VARIABLES minted,      \* the tokens createUpload has returned
          stored,      \* the tokens the Map has a record for
          record,      \* record[u]: u's record, also once the Map forgot it
          objects,     \* objects[k]: the entry at k, Absent when there is none
          call,        \* call[c]: the state of the call c
          yielding,    \* the calls whose signal has been aborted
          editions,    \* how many entries have been written to objects
          sealedOver   \* history: editions when u's seal in force was made

storeVars == <<minted, stored, record, objects, call, editions, sealedOver>>
vars == <<storeVars, yielding>>

TypeOK ==
    /\ minted \subseteq Uploads /\ stored \subseteq minted
    /\ record \in [Uploads -> Record]
    /\ objects \in [Keys -> Entry]
    /\ call \in [Calls -> Call]
    /\ yielding \subseteq Calls
    /\ editions \in Nat
    /\ sealedOver \in [Uploads -> Nat]

EmptyRecord(length) ==
    [bytes |-> <<>>, size |-> 0, length |-> length, isComplete |-> FALSE,
     isInvalidated |-> FALSE, seal |-> NoSeal]

CallOn(u) ==
    [pc |-> "idle", upload |-> u, offset |-> 0, max |-> Unset, fatal |-> FALSE,
     flushed |-> 0, plan |-> <<>>, seal |-> NoSeal, answer |-> Answered("pending", 0)]

\* destinationState(objects, key), and sameDestination.
Destination(u) == objects[KeyOf[u]]
SameDestination(seal, found) == seal.destination = found

-------------------------------------------------------------------------------
(* createUpload, abortUpload, sweepExpired, and the host program *)

Init ==
    /\ minted = {} /\ stored = {}
    /\ record = [u \in Uploads |-> EmptyRecord(Unset)]
    /\ objects = [k \in Keys |-> Absent]
    /\ call = [c \in Calls |-> CallOn(Unset)]
    /\ yielding = {}
    /\ editions = 0
    /\ sealedOver = [u \in Uploads |-> 0]

CreateUpload(u, length) ==
    /\ u \notin minted
    /\ minted' = minted \cup {u}
    /\ stored' = stored \cup {u}
    /\ record' = [record EXCEPT ![u] = EmptyRecord(length)]
    /\ UNCHANGED <<objects, call, editions, sealedOver>>

\* abortUpload, idempotent.
AbortUpload(u) ==
    /\ stored' = stored \ {u}
    /\ UNCHANGED <<minted, record, objects, call, editions, sealedOver>>

\* sweepExpired takes no lock.  Its cutoffs are the operator's, and a record
\* that streams for long is as idle as any: it may take any set of records.
SweepExpired(expired) ==
    /\ expired # {} /\ expired \subseteq stored
    /\ stored' = stored \ expired
    /\ UNCHANGED <<minted, record, objects, call, editions, sealedOver>>

\* The objects map is the host program's as well.
StrangerWrites(k) ==
    /\ editions < MaxEditions
    /\ editions' = editions + 1
    /\ objects' = [objects EXCEPT
                      ![k] = [body |-> <<>>, writer |-> Stranger, edition |-> editions + 1]]
    /\ UNCHANGED <<minted, stored, record, call, sealedOver>>

StrangerDeletes(k) ==
    /\ objects[k] # Absent
    /\ objects' = [objects EXCEPT ![k] = Absent]
    /\ UNCHANGED <<minted, stored, record, call, editions, sealedOver>>

-------------------------------------------------------------------------------
(* appendChunk *)

\* claimHolds: the record is live, unsealed and exactly as long as claimed.
\* The slip forgets the seal.
ClaimHoldsSealed(u, offset) ==
    /\ u \in stored
    /\ ~record[u].isComplete /\ ~record[u].isInvalidated
    /\ offset = record[u].size
ClaimHolds(u, offset) ==
    /\ u \in stored
    /\ ~record[u].isComplete /\ ~record[u].isInvalidated
    /\ record[u].seal = NoSeal
    /\ offset = record[u].size

\* The claim is made twice: before the body is read and again where the bytes
\* are committed.  The slip trusts the first one.
ClaimStandsFromPreflight(u, offset) == TRUE
ClaimStillHolds(u, offset) == ClaimHolds(u, offset)

\* UploadNotFoundError or UploadOffsetConflictError.
Refusal(u) ==
    IF u \in stored THEN Answered("conflict", record[u].size) ELSE Answered("not-found", 0)

\* A settled call keeps its target, its offset and its answer.
Settle(c, u, offset, answer) ==
    [call EXCEPT ![c] = [CallOn(u) EXCEPT !.pc = "settled", !.offset = offset,
                                          !.answer = answer]]
Settled(c, answer) == Settle(c, call[c].upload, call[c].offset, answer)

\* An append asked to yield before it began, or one whose claim is refused.
AppendRefused(c, u, offset) ==
    /\ call[c].pc = "idle" /\ u \in minted
    /\ c \in yielding \/ ~ClaimHolds(u, offset)
    /\ call' = Settle(c, u, offset, IF c \in yielding THEN Wrote(0, TRUE) ELSE Refusal(u))
    /\ UNCHANGED <<minted, stored, record, objects, editions, sealedOver>>

\* The preflight; a length declared for the first time is recorded with it.
AppendBegins(c, u, offset, max, fatal, length) ==
    /\ call[c].pc = "idle"
    /\ c \notin yielding
    /\ ClaimHolds(u, offset)
    /\ record' = [record EXCEPT ![u].length = IF @ = Unset THEN length ELSE @]
    /\ call' = [call EXCEPT ![c] = [CallOn(u) EXCEPT !.pc = "streaming",
                                       !.offset = offset, !.max = max, !.fatal = fatal]]
    /\ UNCHANGED <<minted, stored, objects, editions, sealedOver>>

\* How much of n more bytes the bound admits.
Room(c, n) ==
    IF call[c].max = Unset \/ call[c].flushed + n <= call[c].max
    THEN n ELSE call[c].max - call[c].flushed

\* What a commit answers: a crossed bound is a fault of the representation or
\* of this request.
CommitAnswer(c, flushed, crossed, interrupted) ==
    IF ~crossed THEN Wrote(flushed, interrupted)
    ELSE IF call[c].fatal THEN Answered("overrun", call[c].offset + flushed)
    ELSE Answered("bound", call[c].offset + flushed)

\* The end of the read loop and the commit, one synchronous step: the claim
\* again, then the accepted bytes.
Commit(c, flushed, crossed, interrupted) ==
    LET u == call[c].upload IN
    IF ClaimStillHolds(u, call[c].offset)
    THEN /\ record' = [record EXCEPT
                          ![u].bytes = @ \o [i \in 1..flushed |-> c],
                          ![u].size = @ + flushed,
                          ![u].isInvalidated = crossed /\ call[c].fatal]
         /\ call' = Settled(c, CommitAnswer(c, flushed, crossed, interrupted))
    ELSE /\ call' = Settled(c, Refusal(u))
         /\ UNCHANGED record

\* The body yields a chunk of n bytes; the loop ends at the bound, or at the
\* top of its next turn when the signal has been aborted.
ChunkArrives(c, n) ==
    LET room == Room(c, n) IN
    /\ call[c].pc = "streaming"
    /\ IF room < n \/ c \in yielding
       THEN Commit(c, call[c].flushed + room, room < n, room = n)
       ELSE /\ call' = [call EXCEPT ![c].flushed = @ + n]
            /\ UNCHANGED record
    /\ UNCHANGED <<minted, stored, objects, editions, sealedOver>>

\* The body ends.  One cut off by a yield never ends: it errors.
BodyEnds(c) ==
    /\ call[c].pc = "streaming"
    /\ c \notin yielding
    /\ Commit(c, call[c].flushed, FALSE, FALSE)
    /\ UNCHANGED <<minted, stored, objects, editions, sealedOver>>

\* The body errors: the connection tore, or the append was asked to yield.
BodyTorn(c) ==
    /\ call[c].pc = "streaming"
    /\ Commit(c, call[c].flushed, FALSE, TRUE)
    /\ UNCHANGED <<minted, stored, objects, editions, sealedOver>>

\* A body that is one buffer, within its bound, is committed with the preflight.
AppendBuffer(c, u, offset, n, length) ==
    /\ call[c].pc = "idle"
    /\ c \notin yielding
    /\ ClaimHolds(u, offset)
    /\ record' = [record EXCEPT
                      ![u].length = IF @ = Unset THEN length ELSE @,
                      ![u].bytes = @ \o [i \in 1..n |-> c],
                      ![u].size = @ + n]
    /\ call' = Settle(c, u, offset, Wrote(n, FALSE))
    /\ UNCHANGED <<minted, stored, objects, editions, sealedOver>>

-------------------------------------------------------------------------------
(* completeUpload *)

\* Why a completion ends without a plan: a repeat of one that published is
\* answered with what it published.
CompleteRefusal(u) ==
    IF u \notin stored THEN Answered("not-found", 0)
    ELSE IF record[u].isComplete THEN Answered("completed", record[u].size)
    ELSE IF record[u].isInvalidated THEN Answered("invalidated", 0)
    ELSE Answered("conflict", record[u].size)

Completable(u, expected) ==
    /\ u \in stored
    /\ ~record[u].isComplete /\ ~record[u].isInvalidated
    /\ record[u].size = expected

\* Answered without a plan, a repeat of an earlier publication among them.
CompleteRefused(c, u, expected) ==
    /\ call[c].pc = "idle" /\ u \in minted
    /\ ~Completable(u, expected)
    /\ call' = Settle(c, u, 0, CompleteRefusal(u))
    /\ UNCHANGED <<minted, stored, record, objects, editions, sealedOver>>

\* SEAL and SNAPSHOT: adopt the seal of a completion under way, or seal the
\* destination as it is found.  The slip seals anew.
SealAnew(c, u) == [destination |-> Destination(u), by |-> c]
SealFor(c, u) ==
    IF record[u].seal # NoSeal THEN record[u].seal
    ELSE [destination |-> Destination(u), by |-> c]

CompleteSeals(c, u, expected) ==
    /\ call[c].pc = "idle"
    /\ Completable(u, expected)
    /\ record' = [record EXCEPT ![u].seal = SealFor(c, u)]
    /\ call' = [call EXCEPT ![c] = [CallOn(u) EXCEPT !.pc = "hashing",
                                       !.plan = record[u].bytes, !.seal = SealFor(c, u)]]
    /\ sealedOver' = [sealedOver EXCEPT ![u] = IF record[u].seal = NoSeal THEN editions ELSE @]
    /\ UNCHANGED <<minted, stored, objects, editions>>

\* Whether a failed verification lifts the seal of its plan.
LiftsSeal(c, u) == record[u].seal = call[c].seal

\* Hashing done, and the bytes are not what the client asserted.
DigestMismatch(c) ==
    LET u == call[c].upload IN
    /\ call[c].pc = "hashing"
    /\ record' = [record EXCEPT ![u].seal = IF LiftsSeal(c, u) THEN NoSeal ELSE @]
    /\ call' = Settled(c, Answered("digest-mismatch", 0))
    /\ UNCHANGED <<minted, stored, objects, editions, sealedOver>>

\* Whether the record is still the one sealed, unpublished, under this plan,
\* and still in the Map; the slip is content with the reference it holds.
PlanStands(c) ==
    LET r == record[call[c].upload] IN
    /\ ~r.isComplete /\ ~r.isInvalidated
    /\ r.seal = call[c].seal
    /\ r.size = Len(call[c].plan)
RecordInHand(c) == TRUE
StillListed(c) == call[c].upload \in stored

\* Hashing done, and a check of the publishing step fails.  A destination
\* conflict leaves the upload sealed.
PublishRefused(c) ==
    LET u == call[c].upload IN
    /\ call[c].pc = "hashing"
    /\ call' = Settled(c,
          IF ~StillListed(c) THEN Answered("not-found", 0)
          ELSE IF record[u].isComplete THEN Answered("completed", record[u].size)
          ELSE IF ~PlanStands(c) THEN Answered("conflict", record[u].size)
          ELSE Answered("destination-conflict", 0))
    /\ ~(StillListed(c) /\ PlanStands(c) /\ SameDestination(call[c].seal, Destination(u)))
    /\ UNCHANGED <<minted, stored, record, objects, editions, sealedOver>>

\* PUBLISH and RECORD, one synchronous step with the checks.
Publish(c) ==
    LET u == call[c].upload IN
    /\ call[c].pc = "hashing"
    /\ StillListed(c) /\ PlanStands(c)
    /\ SameDestination(call[c].seal, Destination(u))
    /\ objects' = [objects EXCEPT
                      ![KeyOf[u]] = [body |-> call[c].plan, writer |-> u, edition |-> editions + 1]]
    /\ editions' = editions + 1
    /\ record' = [record EXCEPT ![u].isComplete = TRUE, ![u].seal = NoSeal,
                                ![u].bytes = <<>>]
    /\ call' = Settled(c, Answered("completed", record[u].size))
    /\ UNCHANGED <<minted, stored, sealedOver>>

\* The caller takes its answer.
Collect(c) ==
    /\ call[c].pc = "settled"
    /\ call' = [call EXCEPT ![c] = CallOn(Unset)]
    /\ UNCHANGED <<minted, stored, record, objects, editions, sealedOver>>
===============================================================================

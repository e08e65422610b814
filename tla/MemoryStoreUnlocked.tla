-------------------------- MODULE MemoryStoreUnlocked --------------------------
(***************************************************************************)
(* memoryUploadStore under any callers at all: the store contract of       *)
(* src/upload-store.ts asks every store to protect its uploads even from   *)
(* writers whose lock was lost, so nothing here takes one.  Appends and    *)
(* completions of any number of callers interleave at their awaits, with   *)
(* aborts, sweeps and the host program's own writes.                       *)
(***************************************************************************)
EXTENDS MemoryUploadStore

CONSTANTS MaxLength,   \* bound: the longest content
          Chunks,      \* the sizes of the chunks a body yields
          ByteBounds   \* the byte bounds an append may be given

ASSUME BoundsAssumption ==
    MaxLength \in Nat /\ Chunks \subseteq Nat /\ ByteBounds \subseteq Optional

\* A preemption or a departed client aborts a call's signal.
AskToYield(c) ==
    /\ c \notin yielding
    /\ call[c].pc # "settled"
    /\ yielding' = yielding \cup {c}
    /\ UNCHANGED storeVars

Appends(c) ==
    \/ \E u \in Uploads, offset \in 0..MaxLength : AppendRefused(c, u, offset)
    \/ \E u \in Uploads, offset \in 0..MaxLength, max \in ByteBounds, fatal \in BOOLEAN :
          /\ max = Unset => ~fatal
          /\ AppendBegins(c, u, offset, max, fatal, Unset)
    \/ \E n \in Chunks :
          call[c].offset + call[c].flushed + n <= MaxLength /\ ChunkArrives(c, n)
    \/ \E u \in Uploads, offset \in 0..MaxLength, n \in Chunks :
          offset + n <= MaxLength /\ AppendBuffer(c, u, offset, n, Unset)
    \/ BodyEnds(c)
    \/ BodyTorn(c)

Completes(c) ==
    \/ \E u \in Uploads, expected \in 0..MaxLength :
          CompleteRefused(c, u, expected) \/ CompleteSeals(c, u, expected)
    \/ DigestMismatch(c)
    \/ PublishRefused(c)
    \/ Publish(c)

Others ==
    \/ \E u \in Uploads : CreateUpload(u, Unset)
    \/ \E u \in Uploads : AbortUpload(u)
    \/ \E expired \in SUBSET Uploads : SweepExpired(expired)
    \/ \E k \in Keys : StrangerWrites(k) \/ StrangerDeletes(k)

Next ==
    \/ (\E c \in Calls : Appends(c)) /\ UNCHANGED yielding
    \/ (\E c \in Calls : Completes(c)) /\ UNCHANGED yielding
    \/ Others /\ UNCHANGED yielding
    \/ \E c \in Calls : AskToYield(c)

Spec == Init /\ [][Next]_vars

-------------------------------------------------------------------------------
(* Properties *)

\* The bytes a settled append was told are durable.
Landed(c) ==
    CASE call[c].answer.kind = "wrote" -> call[c].answer.bytes
      [] call[c].answer.kind \in {"overrun", "bound"} -> call[c].answer.bytes - call[c].offset
      [] OTHER -> 0

\* They are found where the append claimed to put them.
FoundIn(c, body) ==
    \A i \in 1..Landed(c) :
        call[c].offset + i <= Len(body) /\ body[call[c].offset + i] = c

\* Acknowledged bytes stand: what any append was told it made durable is in
\* the upload at the offset it claimed, and in the object published from it,
\* whatever other appends, completions and yields ran in between.
AcknowledgedBytesStand ==
    \A c \in Calls :
        LET u == call[c].upload IN
        Landed(c) > 0 =>
            /\ u \in stored /\ ~record[u].isComplete => FoundIn(c, record[u].bytes)
            /\ Destination(u).writer = u => FoundIn(c, Destination(u).body)

\* A plan under the seal in force holds every byte of the upload: nothing is
\* appended between a completion's snapshot and its publication.
PlanIsCurrent ==
    \A c \in Calls :
        LET u == call[c].upload IN
        call[c].pc = "hashing" /\ ~record[u].isComplete /\ record[u].seal = call[c].seal =>
            call[c].plan = record[u].bytes

\* A seal never outlives its completions: an upload stays closed to appends
\* only while one of them is under way, or after one found its destination
\* taken.
NoStuckSeal ==
    \A u \in stored :
        record[u].seal # NoSeal =>
            \E c \in Calls :
                /\ call[c].upload = u
                /\ \/ call[c].pc = "hashing" /\ call[c].seal = record[u].seal
                   \/ call[c].answer.kind = "destination-conflict"

\* What the refinement below rests on, and the seals.
Inv == TypeOK /\ PlanIsCurrent /\ NoStuckSeal

\* An object is only replaced by an upload that had not sealed yet when the
\* object was written: no upload ever destroys data that reached its key
\* behind its plan, however often its completion is retried.
NoBlindOverwrite ==
    [][\A k \in Keys :
          LET writer == objects'[k].writer IN
          objects'[k] # objects[k] /\ writer \in Uploads =>
              objects[k].edition <= sealedOver[writer]]_vars

\* The store keeps the contract: an upload gathers bytes only at its end, is
\* published whole and once, and publishes nothing after it was discarded.
uploadPhase ==
    [u \in Uploads |->
        IF u \notin minted THEN "unborn"
        ELSE IF u \notin stored THEN "discarded"
        ELSE IF record[u].isComplete THEN "published"
        ELSE IF record[u].isInvalidated THEN "dead" ELSE "open"]

uploadContent == [u \in Uploads |-> record[u].bytes]
uploadObject ==
    [k \in Keys |-> [writer |-> objects[k].writer, body |-> objects[k].body]]

Contract == INSTANCE ResumableUpload WITH
    Bytes <- Calls, phase <- uploadPhase, content <- uploadContent, object <- uploadObject

ImplementsResumableUpload == Contract!Spec
===============================================================================

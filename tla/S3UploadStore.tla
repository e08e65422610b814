----------------------------- MODULE S3UploadStore -----------------------------
(***************************************************************************)
(* One upload of s3UploadStore (src/s3.ts), with sidecarCas and publishCas *)
(* on: parts of one size in a multipart upload, and what falls short of a  *)
(* part in one slot, stamped with the offset it belongs at.  What counts   *)
(* is what is listed: no append writes the record.  The slot is replaced   *)
(* only while it has the ETag that was read, which is all that keeps two   *)
(* appends apart, and S3's ETag of an object is a digest of its content.   *)
(***************************************************************************)
EXTENDS CloudUpload

CONSTANTS PartSize,
          Uniform  \* whether all bytes of the representation are the same byte

Publication == "upload"

Init == Created([seal |-> None, invalid |-> FALSE, complete |-> FALSE],
                [live |-> TRUE, parts |-> <<>>, tail |-> None])

Records == [seal : Seals \cup {None}, invalid : BOOLEAN, complete : BOOLEAN]
Tails == [stamp : 0..MaxLength, body : Bodies] \cup {None}

TypeOK ==
    /\ CloudTypeOK
    /\ info \in Records \cup {None}
    /\ staged.live \in BOOLEAN /\ staged.tail \in Tails
    /\ DOMAIN staged.parts \subseteq 1..MaxLength + 1
    /\ \A n \in DOMAIN staged.parts : staged.parts[n] \in Bodies
    /\ \A c \in Calls : /\ call[c].record \in Records \cup {None}
                        /\ call[c].slot \in Tails
                        /\ call[c].buffer \in Bodies /\ Len(call[c].buffer) <= PartSize

-------------------------------------------------------------------------------
(* What counts *)

Next1(parts) == IF DOMAIN parts = {} THEN 1 ELSE Max(DOMAIN parts) + 1
Joined(parts) == EndToEnd(LAMBDA n : parts[n], DOMAIN parts)
Size(parts) == Len(Joined(parts))

\* tailEnd: a tail stamped below what is committed counts nowhere, one stamped
\* above it is a floor.
Reached(committed, tail) ==
    IF tail = None \/ tail.stamp < committed THEN committed ELSE tail.stamp + Len(tail.body)
Counted(committed, tail) ==
    IF tail # None /\ tail.stamp = committed THEN tail.body ELSE <<>>
Past(committed, tail) == tail # None /\ tail.stamp > committed
Content == Joined(staged.parts) \o Counted(Size(staged.parts), staged.tail)

Digest(body) == IF Uniform THEN Len(body) ELSE body
Etag(tail) == IF tail = None THEN None ELSE Digest(tail.body)

With(parts, n, body) == [m \in DOMAIN parts \cup {n} |-> IF m = n THEN body ELSE parts[m]]

\* refuseSealed, of a record that is there.
SealBar ==
    IF info = None THEN "not-found"
    ELSE IF info.seal # None THEN "conflict"
    ELSE IF info.complete THEN "not-found" ELSE "none"
ToldLength == IF SealBar = "conflict" THEN info.seal.length ELSE 0

-------------------------------------------------------------------------------
(* appendChunk *)

\* An append that is handed the reads of the probe before it began with them.
AppendBegins(c, offset) ==
    /\ MayBegin(c, "append")
    /\ IF info # None /\ info.invalid THEN Ends(c, "append", "failed", 0)
       ELSE IF SealBar # "none" THEN Ends(c, "append", SealBar, ToldLength)
       ELSE Begins(c, [Idle EXCEPT !.kind = "append", !.pc = "reading", !.offset = offset])
    /\ UNCHANGED <<upload, key, sealedAt>>

\* countedTail and the offset check.  pending: where the buffer's bytes begin.
Judged(c, parts, tail) ==
    IF Past(Size(parts), tail) \/ Reached(Size(parts), tail) # call[c].offset
    THEN Answers(c, "conflict", Reached(Size(parts), tail))
    ELSE call' = [call EXCEPT ![c].pc = "streaming", ![c].slot = tail, ![c].parts = <<>>,
                              ![c].pending = Size(parts), ![c].index = Next1(parts),
                              ![c].buffer = Counted(Size(parts), tail)]

\* The listing and the tail are read side by side.
ListParts(c) ==
    /\ call[c].pc \in {"reading", "listing"}
    /\ IF ~staged.live THEN Answers(c, "not-found", 0)
       ELSE IF call[c].pc = "reading"
            THEN call' = [call EXCEPT ![c].pc = "fetching", ![c].parts = staged.parts]
            ELSE Judged(c, staged.parts, call[c].slot)
    /\ UNCHANGED <<upload, key, sealedAt>>

ReadTail(c) ==
    /\ call[c].pc \in {"reading", "fetching"}
    /\ IF call[c].pc = "reading"
       THEN call' = [call EXCEPT ![c].pc = "listing", ![c].slot = staged.tail]
       ELSE Judged(c, call[c].parts, staged.tail)
    /\ UNCHANGED <<upload, key, sealedAt>>

\* A part is cut at the size the record fixed.  The slip lets it grow.
FitsAny(c, n) == TRUE
Fits(c, n) == Len(call[c].buffer) + n <= PartSize

BytesArrive(c, n) ==
    /\ call[c].pc = "streaming" /\ n > 0
    /\ Fits(c, n) /\ End(c) + n <= MaxLength
    /\ call' = [call EXCEPT ![c].buffer = @ \o Slice(End(c), n), ![c].size = @ + n,
                            ![c].pc = IF Len(call[c].buffer) + n = PartSize
                                      THEN "flushing" ELSE "streaming"]
    /\ UNCHANGED <<upload, key, sealedAt>>

\* A part has its number from the listing and no condition.
FlushPart(c) ==
    /\ call[c].pc = "flushing"
    /\ IF staged.live
       THEN /\ staged' = [staged EXCEPT !.parts = With(@, call[c].index, call[c].buffer)]
            /\ call' = [call EXCEPT ![c].pc = "streaming", ![c].index = @ + 1, ![c].buffer = <<>>,
                                    ![c].pending = @ + Len(call[c].buffer)]
       ELSE Answers(c, "not-found", 0) /\ UNCHANGED staged
    /\ UNCHANGED <<info, fresh, key, sealedAt>>

\* The body ends, breaks off or reaches the request's bound.  Without a byte of
\* it nothing is written or fenced: the answer tells the offset, as a probe's.
BodyEnds(c) ==
    /\ call[c].pc = "streaming"
    /\ IF call[c].size = 0 THEN Answers(c, "state", End(c)) ELSE Goes(c, "parking")
    /\ UNCHANGED <<upload, key, sealedAt>>

BodyOverruns(c) ==
    /\ call[c].pc = "streaming"
    /\ \/ /\ SealBar # "none"
          /\ Answers(c, SealBar, ToldLength) /\ UNCHANGED <<info, fresh>>
       \/ /\ SealBar = "none"
          /\ Stored(Laid(info, Invalid)) /\ Answers(c, "overrun", 0)
    /\ UNCHANGED <<staged, key, sealedAt>>

\* parkTail, be it empty, so that the slot tells who else appends.  The slip
\* parks whatever is there.
Whatever(c) == TRUE
AsRead(c) == Etag(staged.tail) = Etag(call[c].slot)

ParkTail(c) ==
    /\ call[c].pc = "parking"
    /\ IF AsRead(c)
       THEN /\ staged' = [staged EXCEPT !.tail = [stamp |-> call[c].pending, body |-> call[c].buffer]]
            /\ Goes(c, "fencing") \/ (MayRepeat(c) /\ Repeats(c))
       ELSE Goes(c, "telling") /\ UNCHANGED staged
    /\ UNCHANGED <<info, fresh, key, sealedAt>>

\* The slip acknowledges whatever the record says.
Unfenced(c) ==
    /\ call[c].pc = "fencing"
    /\ Answers(c, "wrote", End(c))
    /\ UNCHANGED <<upload, key, sealedAt>>

\* The fence: what was sealed before all of it was there is published without.
Fence(c) ==
    /\ call[c].pc = "fencing"
    /\ IF SealBar = "none" THEN Answers(c, "wrote", End(c)) ELSE Answers(c, SealBar, ToldLength)
    /\ UNCHANGED <<upload, key, sealedAt>>

-------------------------------------------------------------------------------
(* reachedOffset, for a refused park, and getUploadState *)

ProbeBegins(c) ==
    /\ MayBegin(c, "probe")
    /\ IF info = None THEN Ends(c, "probe", "not-found", 0)
       ELSE Begins(c, [Idle EXCEPT !.kind = "probe", !.record = info, !.ending = "gone",
                          !.pc = IF info.complete THEN "adopting" ELSE "telling"])
    /\ UNCHANGED <<upload, key, sealedAt>>

\* The parts first, so that one committed in between shows as a tail past them.
TellParts(c) ==
    /\ call[c].pc = "telling"
    /\ IF staged.live THEN call' = [call EXCEPT ![c].pc = "measuring", ![c].pending = Size(staged.parts)]
       ELSE IF call[c].kind = "probe" THEN Goes(c, "adopting")
       ELSE Answers(c, "not-found", 0)
    /\ UNCHANGED <<upload, key, sealedAt>>

TellReached(c) ==
    /\ call[c].pc = "measuring"
    /\ Answers(c, IF call[c].kind = "append" THEN "conflict"
                  ELSE IF call[c].record.invalid THEN "settled" ELSE "state",
               Reached(call[c].pending, staged.tail))
    /\ UNCHANGED <<upload, key, sealedAt>>

-------------------------------------------------------------------------------
(* completeUpload *)

CompleteReads(c, expected) ==
    /\ MayBegin(c, "complete")
    /\ IF info = None THEN Ends(c, "complete", "not-found", 0)
       ELSE IF info.invalid /\ ~info.complete THEN Ends(c, "complete", "failed", 0)
       ELSE Begins(c, [Idle EXCEPT !.kind = "complete", !.expected = expected, !.record = info,
                          !.ending = "gone",
                          !.pc = IF info.complete THEN "adopting"
                                 ELSE IF info.seal # None THEN "planning" ELSE "inspecting"])
    /\ UNCHANGED <<upload, key, sealedAt>>

Inspect(c) ==
    /\ call[c].pc = "inspecting"
    /\ call' = [call EXCEPT ![c].pc = "sealing", ![c].destination = EditionOf(object)]
    /\ UNCHANGED <<upload, key, sealedAt>>

\* SEAL, or go by the seal that came first.
Sealed(c) ==
    [info EXCEPT !.seal = [length |-> call[c].expected, destination |-> call[c].destination,
                           id |-> Publication]]
Proceeds(c, record) ==
    call' = [call EXCEPT ![c].record = record, ![c].pc = IF record.complete THEN "adopting" ELSE "planning"]

Seal(c) ==
    /\ call[c].pc = "sealing"
    /\ \/ info = None /\ Answers(c, "not-found", 0) /\ UNCHANGED <<info, fresh, sealedAt>>
       \/ /\ info # None /\ (info.seal # None \/ info.complete)
          /\ Proceeds(c, info) /\ UNCHANGED <<info, fresh, sealedAt>>
       \/ /\ info # None /\ info.seal = None /\ ~info.complete /\ info.invalid
          /\ Answers(c, "failed", 0) /\ UNCHANGED <<info, fresh, sealedAt>>
       \/ /\ info # None /\ info.seal = None /\ ~Unwritable
          /\ Stored(Sealed(c))
          /\ sealedAt' = editions
          /\ Proceeds(c, Sealed(c)) \/ (MayRepeat(c) /\ Repeats(c))
    /\ UNCHANGED <<staged, key>>

\* SNAPSHOT.
PlanParts(c) ==
    /\ call[c].pc = "planning"
    /\ IF staged.live THEN call' = [call EXCEPT ![c].pc = "tailing", ![c].parts = staged.parts]
       ELSE Goes(c, "adopting")
    /\ UNCHANGED <<upload, key, sealedAt>>

Assembles(c, tail) ==
    IF Counted(Size(call[c].parts), tail) # <<>> THEN "lasting"
    ELSE IF DOMAIN call[c].parts = {} THEN "emptying" ELSE "publishing"

PlanTail(c) ==
    /\ call[c].pc = "tailing"
    /\ LET committed == Size(call[c].parts)
           assembled == Reached(committed, staged.tail)
           planned == ~Past(committed, staged.tail) /\ assembled = call[c].expected
       IN  call' = [call EXCEPT ![c].slot = staged.tail, ![c].told = assembled,
                       ![c].buffer = Counted(committed, staged.tail),
                       ![c].pc = IF ~planned THEN "lifting"
                                 ELSE IF call[c].record.seal.length # assembled THEN "pointing"
                                 ELSE Assembles(c, staged.tail)]
    /\ UNCHANGED <<upload, key, sealedAt>>

\* liftSeal, unless a completion may still publish at the length it has.
Stays(c) == info.seal = None \/ info.complete \/ info.seal.length = call[c].told
LiftSeal(c) ==
    /\ call[c].pc = "lifting"
    /\ \/ info = None /\ Answers(c, "not-found", 0) /\ UNCHANGED <<info, fresh>>
       \/ /\ info # None
          /\ IF Stays(c) THEN UNCHANGED <<info, fresh>> ELSE Stored([info EXCEPT !.seal = None])
          /\ Answers(c, "conflict", call[c].told)
    /\ UNCHANGED <<staged, key, sealedAt>>

\* A seal at a length no plan can have is pointed at this one.
PointSeal(c) ==
    /\ call[c].pc = "pointing"
    /\ \/ info = None /\ Answers(c, "not-found", 0) /\ UNCHANGED <<info, fresh>>
       \/ /\ info # None /\ (info.seal = None \/ info.complete)
          /\ Answers(c, "conflict", call[c].told) /\ UNCHANGED <<info, fresh>>
       \/ /\ info # None /\ info.seal # None /\ ~info.complete
          /\ IF info.seal.length = call[c].expected THEN UNCHANGED <<info, fresh>>
             ELSE Stored([info EXCEPT !.seal.length = call[c].expected])
          /\ call' = [call EXCEPT ![c].record = info', ![c].pc = Assembles(c, call[c].slot)]
    /\ UNCHANGED <<staged, key, sealedAt>>

\* assembleParts: the tail becomes the last part, and then its slot is emptied.
LastPart(c) ==
    /\ call[c].pc \in {"lasting", "emptying"}
    /\ IF staged.live
       THEN /\ staged' = [staged EXCEPT !.parts = With(@, Next1(call[c].parts), call[c].buffer)]
            /\ call' = [call EXCEPT ![c].parts = With(@, Next1(@), call[c].buffer),
                                    ![c].pc = IF @ = "lasting" THEN "dropping" ELSE "publishing"]
       ELSE Answers(c, "failed", 0) /\ UNCHANGED staged
    /\ UNCHANGED <<info, fresh, key, sealedAt>>

DropTail(c) ==
    /\ call[c].pc = "dropping"
    /\ staged' = [staged EXCEPT !.tail = None]
    /\ Goes(c, "publishing")
    /\ UNCHANGED <<info, fresh, key, sealedAt>>

\* PUBLISH, under the ETag the seal recorded, which tells content from content.
\* A part replaced since has another ETag.
Permitted(c) == EditionOf(object) = call[c].record.seal.destination
Replaced(c) ==
    \E n \in DOMAIN call[c].parts :
        n \notin DOMAIN staged.parts \/ Digest(staged.parts[n]) # Digest(call[c].parts[n])

Publish(c) ==
    /\ call[c].pc = "publishing"
    /\ \/ /\ staged.live /\ ~Replaced(c) /\ Permitted(c)
          /\ Publishes(Publication, Joined([n \in DOMAIN call[c].parts |-> staged.parts[n]]))
          /\ staged' = [staged EXCEPT !.live = FALSE, !.parts = <<>>]
          /\ Goes(c, "recording") \/ (Unheard /\ Goes(c, "adopting"))
       \/ /\ staged.live /\ Replaced(c)
          /\ Answers(c, "failed", 0) /\ UNCHANGED <<staged, key>>
       \/ /\ ~staged.live \/ ~Permitted(c)
          /\ call' = [call EXCEPT ![c].pc = "adopting",
                                  ![c].ending = IF Permitted(c) THEN "gone" ELSE "refused"]
          /\ UNCHANGED <<staged, key>>
    /\ UNCHANGED <<info, fresh, sealedAt>>

\* RECORD.  It failing fails nothing: the key and the seal tell as much.
Notes == IF info = None THEN UNCHANGED <<info, fresh>> ELSE Stored(Laid(info, Complete))
Record(c) ==
    /\ call[c].pc = "recording"
    /\ Notes \/ UNCHANGED <<info, fresh>>
    /\ Answers(c, "complete", call[c].expected)
    /\ UNCHANGED <<staged, key, sealedAt>>

-------------------------------------------------------------------------------
(* adopt: for a multipart upload that is gone, or a publish that was refused *)

Adopted(c) == object # None /\ object.publication = Publication
\* Another's object, unless it is of the content the seal recorded.
Contested(c) ==
    \/ call[c].ending = "refused"
    \/ /\ object # None /\ ~call[c].record.complete /\ call[c].record.seal # None
       /\ EditionOf(object) # call[c].record.seal.destination

Adopt(c) ==
    /\ call[c].pc = "adopting"
    /\ IF ~Adopted(c) THEN Answers(c, IF Contested(c) THEN "destination" ELSE "not-found", 0)
       ELSE IF call[c].record.complete
       THEN Answers(c, IF call[c].kind = "probe" THEN "settled" ELSE "complete", 0)
       ELSE Goes(c, "promoting")
    /\ UNCHANGED <<upload, key, sealedAt>>

\* A probe that holds no lock asks for no repair.
Promote(c) ==
    /\ call[c].pc = "promoting"
    /\ Notes \/ UNCHANGED <<info, fresh>>
    /\ IF call[c].kind = "probe" THEN Answers(c, "settled", 0) ELSE Goes(c, "reaping")
    /\ UNCHANGED <<staged, key, sealedAt>>

Reap(c) ==
    /\ call[c].pc = "reaping"
    /\ staged' = [staged EXCEPT !.tail = None]
    /\ Answers(c, "complete", 0)
    /\ UNCHANGED <<info, fresh, key, sealedAt>>

-------------------------------------------------------------------------------
(* abortUpload and the sweep *)

DiscardReads(c) ==
    /\ MayBegin(c, "discard")
    /\ Begins(c, [Idle EXCEPT !.kind = "discard", !.pc = IF info = None THEN "clearing" ELSE "aborting"])
    /\ UNCHANGED <<upload, key, sealedAt>>

DiscardAborts(c) ==
    /\ call[c].pc = "aborting"
    /\ staged' = [staged EXCEPT !.live = FALSE, !.parts = <<>>]
    /\ Goes(c, "clearing")
    /\ UNCHANGED <<info, fresh, key, sealedAt>>

DiscardClears(c) ==
    /\ call[c].pc = "clearing"
    /\ staged' = [staged EXCEPT !.tail = None]
    /\ Goes(c, "forgetting")
    /\ UNCHANGED <<info, fresh, key, sealedAt>>

DiscardForgets(c) ==
    /\ call[c].pc = "forgetting"
    /\ info' = None /\ fresh' = {}
    /\ Answers(c, "discarded", 0)
    /\ UNCHANGED <<staged, key, sealedAt>>

\* A tail parked after its record went is swept on its own.
SweepTail ==
    /\ info = None /\ staged.tail # None
    /\ staged' = [staged EXCEPT !.tail = None]
    /\ UNCHANGED <<info, fresh, key, call, sealedAt>>

-------------------------------------------------------------------------------

\* Bound: a completion at no byte is never beside an append, whose client would
\* contradict itself.  Its one empty part would replace the append's first.
BesideNo(kind, expected) ==
    ~\E d \in Calls : Running(d) /\ call[d].kind = kind /\ call[d].expected = expected

Appending(c) ==
    \/ \E n \in 0..MaxLength : BytesArrive(c, n) \/ (BesideNo("complete", 0) /\ AppendBegins(c, n))
    \/ ListParts(c) \/ ReadTail(c) \/ FlushPart(c) \/ BodyEnds(c) \/ BodyOverruns(c)
    \/ ParkTail(c) \/ Fence(c)

Completing(c) ==
    \/ \E n \in 0..MaxLength : (n > 0 \/ BesideNo("append", 0)) /\ CompleteReads(c, n)
    \/ Inspect(c) \/ Seal(c) \/ PlanParts(c) \/ PlanTail(c) \/ LiftSeal(c) \/ PointSeal(c)
    \/ LastPart(c) \/ DropTail(c) \/ Publish(c) \/ Record(c) \/ Reap(c)

Probing(c) == ProbeBegins(c) \/ TellParts(c) \/ TellReached(c) \/ Adopt(c) \/ Promote(c)

Discarding(c) == DiscardReads(c) \/ DiscardAborts(c) \/ DiscardClears(c) \/ DiscardForgets(c)

Next ==
    \/ (StrangerWrites \/ StrangerRewrites \/ StrangerDeletes) /\ UNCHANGED staged
    \/ SweepTail
    \/ \E c \in Calls :
          Appending(c) \/ Completing(c) \/ Probing(c) \/ Discarding(c) \/ Crash(c)

Spec == Init /\ [][Next]_vars

===============================================================================

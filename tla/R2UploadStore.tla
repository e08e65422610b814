----------------------------- MODULE R2UploadStore -----------------------------
(***************************************************************************)
(* One upload of r2UploadStore (src/r2.ts): parts of one size in a         *)
(* multipart upload, what falls short of a part in a tail object, and a    *)
(* manifest that says which parts and which tail count.  Every write of    *)
(* the manifest but its deletion replaces the version its writer holds.    *)
(***************************************************************************)
EXTENDS CloudUpload

CONSTANT PartSize

Publication == "upload"

\* info.parts: how many parts count; info.tail: whose tail, and its size.
Init == Created([seal |-> None, invalid |-> FALSE, complete |-> FALSE, parts |-> 0, tail |-> None],
                [live |-> TRUE, parts |-> <<>>, tails |-> <<>>])

Records == [seal : Seals \cup {None}, invalid : BOOLEAN, complete : BOOLEAN, parts : 0..MaxLength,
            tail : [id : Calls, size : 1..PartSize - 1] \cup {None}]

TypeOK ==
    /\ CloudTypeOK
    /\ info \in Records \cup {None}
    /\ staged.live \in BOOLEAN
    /\ DOMAIN staged.parts \subseteq 1..MaxLength + 1 /\ DOMAIN staged.tails \subseteq Calls
    /\ \A c \in Calls : /\ call[c].record \in Records \cup {None}
                        /\ call[c].buffer \in Bodies /\ Len(call[c].buffer) <= PartSize

-------------------------------------------------------------------------------
(* What counts, and what is there of it *)

\* durableOffsetOf
Offset(record) == record.parts * PartSize + IF record.tail = None THEN 0 ELSE record.tail.size

With(f, x, body) == [y \in DOMAIN f \cup {x} |-> IF y = x THEN body ELSE f[y]]
At(f, x) == IF x \in DOMAIN f THEN f[x] ELSE <<>>
TailOf(record) == IF record.tail = None THEN <<>> ELSE At(staged.tails, record.tail.id)
Assembly(record) ==
    EndToEnd(LAMBDA i : At(staged.parts, i), 1..record.parts) \o TailOf(record)
Content == Assembly(info)

\* Whoever lost the version is told what counts now.
RefusedStale(c) ==
    IF info = None THEN Answers(c, "not-found", 0) ELSE Answers(c, "conflict", Offset(info))

\* A tail of the record gone is the sign of a newer writer, unless the record
\* still names it.
TailIsGone(c) == call[c].record.tail.id \notin DOMAIN staged.tails
RefusedTail(c) ==
    IF info # None /\ info.tail = call[c].record.tail THEN Answers(c, "failed", 0)
    ELSE RefusedStale(c)

\* putManifest.
Holds(c) == c \in fresh /\ info # None
Puts(c, record) == info' = record /\ fresh' = {c}

-------------------------------------------------------------------------------
(* appendChunk *)

AppendBegins(c, offset) ==
    /\ MayBegin(c, "append")
    /\ \/ info = None /\ Ends(c, "append", "not-found", 0) /\ UNCHANGED fresh
       \/ info # None /\ Unwritable /\ Ends(c, "append", "failed", 0) /\ UNCHANGED fresh
       \/ /\ info # None /\ ~Unwritable /\ (offset # Offset(info) \/ info.seal # None)
          /\ Ends(c, "append", "conflict", Offset(info))
          /\ UNCHANGED fresh
       \/ /\ Bar = "none" /\ offset = Offset(info)
          /\ Begins(c, [Idle EXCEPT !.kind = "append", !.offset = offset, !.record = info,
                           !.pc = IF info.tail = None THEN "streaming" ELSE "waiting"])
          /\ fresh' = fresh \cup {c}
    /\ UNCHANGED <<info, staged, key, sealedAt>>

\* The first byte arrives, and has the tail read that it follows.
FetchTail(c) ==
    /\ call[c].pc = "waiting" /\ End(c) < MaxLength
    /\ IF TailIsGone(c) THEN RefusedTail(c)
       ELSE call' = [call EXCEPT ![c].pc = "streaming", ![c].buffer = TailOf(call[c].record)]
    /\ UNCHANGED <<upload, key, sealedAt>>

BytesArrive(c, n) ==
    /\ call[c].pc = "streaming" /\ n > 0
    /\ Len(call[c].buffer) + n <= PartSize /\ End(c) + n <= MaxLength
    /\ call' = [call EXCEPT ![c].buffer = @ \o Slice(End(c), n), ![c].size = @ + n,
                            ![c].pc = IF Len(call[c].buffer) + n = PartSize
                                      THEN "uploading" ELSE "streaming"]
    /\ UNCHANGED <<upload, key, sealedAt>>

\* flushPart: the part first, and then the manifest that counts it and no longer
\* the tail it begins with.
UploadPart(c) ==
    /\ call[c].pc = "uploading"
    /\ IF staged.live
       THEN /\ staged' = [staged EXCEPT !.parts = With(@, call[c].record.parts + 1, call[c].buffer)]
            /\ Goes(c, "counting")
       ELSE Answers(c, "failed", 0) /\ UNCHANGED staged
    /\ UNCHANGED <<info, fresh, key, sealedAt>>

Stale(c) == call[c].plan \cup IF call[c].record.tail = None THEN {} ELSE {call[c].record.tail.id}
CountPart(c) ==
    /\ call[c].pc = "counting"
    /\ IF Holds(c)
       THEN /\ Puts(c, [call[c].record EXCEPT !.parts = @ + 1, !.tail = None])
            /\ call' = [call EXCEPT ![c].pc = "streaming", ![c].record = info',
                                    ![c].plan = Stale(c), ![c].buffer = <<>>]
       ELSE RefusedStale(c) /\ UNCHANGED <<info, fresh>>
    /\ UNCHANGED <<staged, key, sealedAt>>

\* The body ends or breaks off.  One without a byte leaves its time only.
BodyEnds(c) ==
    /\ \/ /\ call[c].pc = "streaming" /\ call[c].size > 0
          /\ Goes(c, IF call[c].buffer = <<>> THEN "dropping" ELSE "parking")
          /\ UNCHANGED <<info, fresh>>
       \/ /\ call[c].pc \in {"streaming", "waiting"} /\ call[c].size = 0
          /\ IF Holds(c) THEN Puts(c, call[c].record) /\ Answers(c, "wrote", End(c))
             ELSE RefusedStale(c) /\ UNCHANGED <<info, fresh>>
    /\ UNCHANGED <<staged, key, sealedAt>>

BodyOverruns(c) ==
    /\ call[c].pc \in {"streaming", "waiting"}
    /\ IF Holds(c) THEN Puts(c, Laid(call[c].record, Invalid)) /\ Answers(c, "overrun", End(c))
       ELSE RefusedStale(c) /\ UNCHANGED <<info, fresh>>
    /\ UNCHANGED <<staged, key, sealedAt>>

\* parkTail: the remainder under a fresh name, then the manifest that names it.
ParkTail(c) ==
    /\ call[c].pc = "parking"
    /\ staged' = [staged EXCEPT !.tails = With(@, c, call[c].buffer)]
    /\ Goes(c, "naming")
    /\ UNCHANGED <<info, fresh, key, sealedAt>>

Unparks(c, ending, told) ==
    call' = [call EXCEPT ![c].pc = "unparking", ![c].ending = ending, ![c].told = told]

\* An answer that never comes fails the write whether it landed or not.
NameTail(c) ==
    /\ call[c].pc = "naming"
    /\ \/ /\ Holds(c)
          /\ Puts(c, [call[c].record EXCEPT !.tail = [id |-> c, size |-> Len(call[c].buffer)]])
          /\ \/ call' = [call EXCEPT ![c].pc = "dropping", ![c].plan = Stale(c)]
             \/ Unheard /\ Unparks(c, "failed", 0)
       \/ /\ ~Holds(c) /\ UNCHANGED <<info, fresh>>
          /\ IF info = None THEN Unparks(c, "not-found", 0)
             ELSE Unparks(c, "conflict", Offset(info))
    /\ UNCHANGED <<staged, key, sealedAt>>

Without(names) == staged' = [staged EXCEPT !.tails = [x \in DOMAIN @ \ names |-> @[x]]]

Unpark(c) ==
    /\ call[c].pc = "unparking"
    /\ Without({c})
    /\ Answers(c, call[c].ending, call[c].told)
    /\ UNCHANGED <<info, fresh, key, sealedAt>>

\* dropTails, of those no manifest names any more.
DropTails(c) ==
    /\ call[c].pc = "dropping"
    /\ Without(call[c].plan)
    /\ Answers(c, "wrote", End(c))
    /\ UNCHANGED <<info, fresh, key, sealedAt>>

-------------------------------------------------------------------------------
(* completeUpload *)

\* The record is the plan.  One of another length lifts a seal that is there.
CompleteReads(c, expected) ==
    /\ MayBegin(c, "complete")
    /\ \/ Over # "none" /\ Ends(c, "complete", Over, 0) /\ UNCHANGED fresh
       \/ /\ Over = "none" /\ Offset(info) # expected /\ info.seal = None
          /\ Ends(c, "complete", "conflict", Offset(info)) /\ UNCHANGED fresh
       \/ /\ Over = "none" /\ (Offset(info) = expected \/ info.seal # None)
          /\ Begins(c, [Idle EXCEPT !.kind = "complete", !.expected = expected, !.record = info,
                           !.pc = IF Offset(info) # expected THEN "lifting"
                                  ELSE IF info.seal = None THEN "inspecting" ELSE "checking"])
          /\ fresh' = fresh \cup {c}
    /\ UNCHANGED <<info, staged, key, sealedAt>>

LiftSeal(c) ==
    /\ call[c].pc = "lifting"
    /\ IF Holds(c)
       THEN /\ Puts(c, [call[c].record EXCEPT !.seal = None])
            /\ Answers(c, "conflict", Offset(info))
       ELSE RefusedStale(c) /\ UNCHANGED <<info, fresh>>
    /\ UNCHANGED <<staged, key, sealedAt>>

Inspect(c) ==
    /\ call[c].pc = "inspecting"
    /\ call' = [call EXCEPT ![c].pc = "sealing", ![c].destination = EditionOf(object)]
    /\ UNCHANGED <<upload, key, sealedAt>>

Seal(c) ==
    /\ call[c].pc = "sealing"
    /\ IF Holds(c)
       THEN /\ Puts(c, [call[c].record EXCEPT !.seal =
                          [length |-> call[c].expected, destination |-> call[c].destination,
                           id |-> Publication]])
            /\ call' = [call EXCEPT ![c].pc = "checking", ![c].record = info']
            /\ sealedAt' = editions
       ELSE RefusedStale(c) /\ UNCHANGED <<info, fresh, sealedAt>>
    /\ UNCHANGED <<staged, key>>

Plan(c) == call[c].record
\* etagAt: the content at the key, or none, is what the seal recorded.
Permitted(c) == EditionOf(object) = Plan(c).seal.destination

Check(c) ==
    /\ call[c].pc = "checking"
    /\ IF Ours(Plan(c).seal) THEN Goes(c, "recording")
       ELSE IF ~Permitted(c) THEN Answers(c, "destination", 0)
       ELSE Goes(c, IF Offset(Plan(c)) = 0 THEN "emptying"
                    ELSE IF Plan(c).tail = None THEN "completing" ELSE "fetching")
    /\ UNCHANGED <<upload, key, sealedAt>>

PublishEmpty(c) ==
    /\ call[c].pc = "emptying"
    /\ IF Permitted(c)
       THEN /\ Publishes(Publication, <<>>)
            /\ staged' = [staged EXCEPT !.live = FALSE]
            /\ Goes(c, "recording")
       ELSE Answers(c, "destination", 0) /\ UNCHANGED <<staged, key>>
    /\ UNCHANGED <<info, fresh, sealedAt>>

\* The tail becomes the one short part, whenever it is tried.
FetchLast(c) ==
    /\ call[c].pc = "fetching"
    /\ IF TailIsGone(c) THEN RefusedTail(c)
       ELSE call' = [call EXCEPT ![c].pc = "lasting", ![c].buffer = TailOf(Plan(c))]
    /\ UNCHANGED <<upload, key, sealedAt>>

UploadLast(c) ==
    /\ call[c].pc = "lasting"
    /\ IF staged.live
       THEN /\ staged' = [staged EXCEPT !.parts = With(@, Plan(c).parts + 1, call[c].buffer)]
            /\ Goes(c, "completing")
       ELSE Goes(c, "ended") /\ UNCHANGED staged
    /\ UNCHANGED <<info, fresh, key, sealedAt>>

\* complete() takes no condition.  A part replaced since has another tag.
Planned(c) == 1..Plan(c).parts + (IF Plan(c).tail = None THEN 0 ELSE 1)
Replaced(c) == Plan(c).tail # None /\ staged.parts[Plan(c).parts + 1] # call[c].buffer

Publish(c) ==
    /\ call[c].pc = "completing"
    /\ \/ /\ staged.live /\ ~Replaced(c)
          /\ Publishes(Publication, EndToEnd(LAMBDA i : At(staged.parts, i), Planned(c)))
          /\ staged' = [staged EXCEPT !.live = FALSE]
          /\ Goes(c, "recording")
       \/ staged.live /\ Replaced(c) /\ Answers(c, "failed", 0) /\ UNCHANGED <<staged, key>>
       \/ ~staged.live /\ Goes(c, "ended") /\ UNCHANGED <<staged, key>>
    /\ UNCHANGED <<info, fresh, sealedAt>>

\* The multipart upload is gone: published by an earlier attempt, or reaped.
Recover(c) ==
    /\ call[c].pc = "ended"
    /\ IF Ours(Plan(c).seal) THEN Goes(c, "recording")
       ELSE Answers(c, IF Permitted(c) THEN "failed" ELSE "destination", 0)
    /\ UNCHANGED <<upload, key, sealedAt>>

Record(c) ==
    /\ call[c].pc = "recording"
    /\ IF Holds(c)
       THEN Puts(c, Laid(Plan(c), Complete)) /\ Goes(c, "cleaning")
       ELSE RefusedStale(c) /\ UNCHANGED <<info, fresh>>
    /\ UNCHANGED <<staged, key, sealedAt>>

Clean(c) ==
    /\ call[c].pc = "cleaning"
    /\ Without(IF Plan(c).tail = None THEN {} ELSE {Plan(c).tail.id})
    /\ Answers(c, "complete", Plan(c).seal.length)
    /\ UNCHANGED <<info, fresh, key, sealedAt>>

-------------------------------------------------------------------------------
(* getUploadState; abortUpload and the sweep *)

Probe(c) ==
    /\ MayBegin(c, "probe")
    /\ \/ info = None /\ Ends(c, "probe", "not-found", 0)
       \/ info # None /\ Unwritable /\ Ends(c, "probe", "settled", 0)
       \/ info # None /\ ~Unwritable /\ Ends(c, "probe", "state", Offset(info))
    /\ UNCHANGED <<upload, key, sealedAt>>

\* discard: the multipart upload unless it published, the tails, the manifest.
DiscardReads(c) ==
    /\ MayBegin(c, "discard")
    /\ Begins(c, [Idle EXCEPT !.kind = "discard",
                     !.pc = IF info = None \/ info.complete THEN "clearing" ELSE "aborting"])
    /\ UNCHANGED <<upload, key, sealedAt>>

DiscardAborts(c) ==
    /\ call[c].pc = "aborting"
    /\ staged' = [staged EXCEPT !.live = FALSE, !.parts = <<>>]
    /\ Goes(c, "clearing")
    /\ UNCHANGED <<info, fresh, key, sealedAt>>

DiscardClears(c) ==
    /\ call[c].pc = "clearing"
    /\ staged' = [staged EXCEPT !.tails = <<>>]
    /\ Goes(c, "forgetting")
    /\ UNCHANGED <<info, fresh, key, sealedAt>>

DiscardForgets(c) ==
    /\ call[c].pc = "forgetting"
    /\ info' = None /\ fresh' = {}
    /\ Answers(c, "discarded", 0)
    /\ UNCHANGED <<staged, key, sealedAt>>

\* A tail whose manifest is gone is swept on its own.
SweepTail ==
    /\ info = None
    /\ \E id \in DOMAIN staged.tails : Without({id})
    /\ UNCHANGED <<info, fresh, key, call, sealedAt>>

-------------------------------------------------------------------------------

Appending(c) ==
    \/ \E n \in 0..MaxLength : AppendBegins(c, n) \/ BytesArrive(c, n)
    \/ FetchTail(c) \/ UploadPart(c) \/ CountPart(c) \/ BodyEnds(c) \/ BodyOverruns(c)
    \/ ParkTail(c) \/ NameTail(c) \/ Unpark(c) \/ DropTails(c)

Completing(c) ==
    \/ \E n \in 0..MaxLength : CompleteReads(c, n)
    \/ LiftSeal(c) \/ Inspect(c) \/ Seal(c) \/ Check(c) \/ PublishEmpty(c)
    \/ FetchLast(c) \/ UploadLast(c) \/ Publish(c) \/ Recover(c) \/ Record(c) \/ Clean(c)

Discarding(c) == DiscardReads(c) \/ DiscardAborts(c) \/ DiscardClears(c) \/ DiscardForgets(c)

Next ==
    \/ (StrangerWrites \/ StrangerRewrites \/ StrangerDeletes) /\ UNCHANGED staged
    \/ SweepTail
    \/ \E c \in Calls :
          Appending(c) \/ Completing(c) \/ Probe(c) \/ Discarding(c) \/ Crash(c)

Spec == Init /\ [][Next]_vars

===============================================================================

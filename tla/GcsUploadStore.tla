---------------------------- MODULE GcsUploadStore ----------------------------
(***************************************************************************)
(* One upload of gcsUploadStore (src/gcs.ts): every append writes an       *)
(* object of its own, a chunk, under the next index; FoldAt of them are    *)
(* composed into one that takes their place; a completion seals the record *)
(* and then composes what is listed into the object at the key.            *)
(***************************************************************************)
EXTENDS CloudUpload

CONSTANT FoldAt  \* GCS_MAX_COMPOSE_SOURCES

\* info.folded: up to which index chunks are covered by a composite.
Indices == Nat \ {0}
Names == [fold : BOOLEAN, index : Indices]
Chunk(i) == [fold |-> FALSE, index |-> i]
Fold(i) == [fold |-> TRUE, index |-> i]

Init == Created([seal |-> None, invalid |-> FALSE, complete |-> FALSE, folded |-> 0], <<>>)

TypeOK ==
    /\ CloudTypeOK
    /\ info \in [seal : Seals \cup {None}, invalid : BOOLEAN, complete : BOOLEAN,
                 folded : Nat] \cup {None}
    /\ DOMAIN staged \subseteq Names
    /\ \A name \in DOMAIN staged : staged[name] \in Bodies
    /\ \A c \in Calls : call[c].plan \subseteq Names /\ call[c].seal \in Seals \cup {None}

-------------------------------------------------------------------------------
(* readPlan: the newest composite and the chunks after it *)

Composites == {name \in DOMAIN staged : name.fold}
Covered == IF Composites = {} THEN 0 ELSE Max({name.index : name \in Composites})
Sources ==
    {name \in DOMAIN staged : IF name.fold THEN name.index = Covered ELSE name.index > Covered}
NextIndex == IF Sources = {} THEN 1 ELSE Max({name.index : name \in Sources}) + 1

First(names) == CHOOSE name \in names : \A n \in names : name.index <= n.index
Joined(names) ==
    MapThenFoldSet(LAMBDA a, b : a \o b, <<>>, LAMBDA name : staged[name], First, names)
Content == Joined(Sources)

Put(name, body) == staged' = [n \in DOMAIN staged \cup {name} |->
                                IF n = name THEN body ELSE staged[n]]
Deleted(names) == staged' = [n \in DOMAIN staged \ names |-> staged[n]]

\* composeFold: the first sources, up to FoldAt, into the composite named for
\* the last of them.  One already at that name is kept.
FirstOf(names) == {name \in names : Cardinality({n \in names : n.index < name.index}) < FoldAt}
FoldOf(names) == Fold(Max({name.index : name \in FirstOf(names)}))
Composes(names) ==
    /\ FirstOf(names) \subseteq DOMAIN staged
    /\ IF FoldOf(names) \in DOMAIN staged THEN UNCHANGED staged
       ELSE Put(FoldOf(names), Joined(FirstOf(names)))

-------------------------------------------------------------------------------
(* appendChunk *)

\* The record and the listing, up to the offset check.  Whatever lands between
\* the two, the fence reads the record again.
AppendBegins(c, offset) ==
    /\ MayBegin(c, "append")
    /\ Bar = "none"
    /\ offset = Len(Content)
    /\ Begins(c, [Idle EXCEPT !.kind = "append", !.pc = "streaming", !.offset = offset,
                              !.index = NextIndex, !.plan = Sources])
    /\ UNCHANGED <<upload, key, sealedAt>>

AppendRefused(c, offset) ==
    /\ MayBegin(c, "append")
    /\ \/ Bar # "none" /\ Ends(c, "append", Bar, SealedLength)
       \/ Bar = "none" /\ offset # Len(Content) /\ Ends(c, "append", "conflict", Len(Content))
    /\ UNCHANGED <<upload, key, sealedAt>>

\* The body ends, breaks off or reaches the request's bound after n bytes, and
\* the chunk's write finishes.  It is pinned to absence: a chunk another append
\* put at the index meanwhile stays.
WriteLands(c) == Chunk(call[c].index) \notin DOMAIN staged

BodyLands(c, n) ==
    /\ call[c].pc = "streaming"
    /\ call[c].offset + n <= MaxLength
    /\ \/ n = 0 /\ Goes(c, "fencing") /\ UNCHANGED staged
       \/ /\ n > 0 /\ WriteLands(c)
          /\ Put(Chunk(call[c].index), Slice(call[c].offset, n))
          /\ call' = [call EXCEPT ![c].pc = "fencing", ![c].size = n]
       \/ n > 0 /\ ~WriteLands(c) /\ Answers(c, "failed", 0) /\ UNCHANGED staged
    /\ UNCHANGED <<info, fresh, key, sealedAt>>

\* The body crosses the representation's bound: the unfinished write leaves no
\* object.
BodyOverruns(c) ==
    /\ call[c].pc = "streaming"
    /\ Invalidates(c, "overrun", call[c].offset)
    /\ UNCHANGED <<staged, key, sealedAt>>

\* FENCE: the record's write, decided on the version it replaces.
FoldedPast(c) == call[c].size > 0 /\ call[c].index <= info.folded
Refusal(c) == IF Bar = "none" /\ FoldedPast(c) THEN "conflict" ELSE Bar

\* A refused append takes its chunk back; what it could know of the offset is
\* the sealed length, or what is listed afterwards.
FenceRefuses(c) ==
    /\ call[c].pc = "fencing"
    /\ Refusal(c) # "none"
    /\ IF call[c].size = 0 THEN Answers(c, Refusal(c), SealedLength)
       ELSE call' = [call EXCEPT ![c].pc = "dropping", ![c].ending = Refusal(c),
                                 ![c].told = SealedLength]
    /\ UNCHANGED <<upload, key, sealedAt>>

FencePasses(c) ==
    /\ call[c].pc = "fencing"
    /\ Refusal(c) = "none"
    /\ Stored(info)
    /\ \/ IF call[c].size > 0 /\ Cardinality(call[c].plan) + 1 >= FoldAt
          THEN Goes(c, "folding") ELSE Answers(c, "wrote", End(c))
       \/ MayRepeat(c) /\ Repeats(c)
    /\ UNCHANGED <<staged, key, sealedAt>>

DropChunk(c) ==
    /\ call[c].pc = "dropping"
    /\ Deleted({Chunk(call[c].index)})
    /\ Answers(c, call[c].ending, call[c].told)
    /\ UNCHANGED <<info, fresh, key, sealedAt>>

-------------------------------------------------------------------------------
(* foldSources, after the append that made the list long is on record; what *)
(* goes wrong in it leaves the append acknowledged                          *)

Composed(c) == call[c].plan \cup {Chunk(call[c].index)}

ComposeFold(c) ==
    /\ call[c].pc = "folding"
    /\ \/ /\ Composes(Composed(c))
          /\ call' = [call EXCEPT ![c].pc = "noting", ![c].plan = FirstOf(Composed(c)),
                                  ![c].index = FoldOf(Composed(c)).index]
       \/ /\ ~(FirstOf(Composed(c)) \subseteq DOMAIN staged)
          /\ Answers(c, "wrote", End(c))
          /\ UNCHANGED staged
    /\ UNCHANGED <<info, fresh, key, sealedAt>>

\* Sources may go only once the record refuses appends at the indices covered,
\* and no completion's plan may name them.
Notable == info # None /\ info.seal = None /\ ~Unwritable
NoteFold(c) ==
    /\ call[c].pc = "noting"
    /\ IF Notable /\ info.folded < call[c].index
       THEN Stored([info EXCEPT !.folded = call[c].index]) ELSE UNCHANGED <<info, fresh>>
    /\ IF Notable THEN Goes(c, "unfolding") ELSE Answers(c, "wrote", End(c))
    /\ UNCHANGED <<staged, key, sealedAt>>

DropFolded(c) ==
    /\ call[c].pc = "unfolding"
    /\ Deleted(call[c].plan)
    /\ Answers(c, "wrote", End(c))
    /\ UNCHANGED <<info, fresh, key, sealedAt>>

-------------------------------------------------------------------------------
(* completeUpload *)

CompleteBegins(c, expected) ==
    /\ MayBegin(c, "complete")
    /\ \/ Over # "none" /\ Ends(c, "complete", Over, 0)
       \/ /\ Over = "none"
          /\ Begins(c, [Idle EXCEPT !.kind = "complete", !.expected = expected, !.seal = info.seal,
                           !.pc = IF info.seal = None THEN "inspecting" ELSE "adopting"])
    /\ UNCHANGED <<upload, key, sealedAt>>

\* An earlier completion published and did not come to record it.
Adopt(c) ==
    /\ call[c].pc = "adopting"
    /\ IF Ours(call[c].seal)
       THEN call' = [call EXCEPT ![c].pc = "recording", ![c].told = call[c].seal.length,
                        ![c].ending = IF call[c].seal.length = call[c].expected
                                      THEN "complete" ELSE "conflict"]
       ELSE Goes(c, "inspecting")
    /\ UNCHANGED <<upload, key, sealedAt>>

Inspect(c) ==
    /\ call[c].pc = "inspecting"
    /\ call' = [call EXCEPT ![c].pc = "sealing", ![c].destination = EditionOf(object)]
    /\ UNCHANGED <<upload, key, sealedAt>>

\* SEAL.  A seal at this length is resumed; one at another is replaced, but
\* for the destination it recorded.
Resumes(c) == info.seal # None /\ info.seal.length = call[c].expected
FirstDestination(c) == IF info.seal = None THEN call[c].destination ELSE info.seal.destination
SealOf(c) == [length |-> call[c].expected, destination |-> FirstDestination(c), id |-> c]

Seal(c) ==
    /\ call[c].pc = "sealing"
    /\ \/ Over # "none" /\ Answers(c, Over, 0) /\ UNCHANGED <<info, fresh, sealedAt>>
       \/ /\ Over = "none" /\ Resumes(c)
          /\ call' = [call EXCEPT ![c].pc = "listing", ![c].seal = info.seal]
          /\ UNCHANGED <<info, fresh, sealedAt>>
       \/ /\ Over = "none" /\ ~Resumes(c)
          /\ Stored([info EXCEPT !.seal = SealOf(c)])
          /\ sealedAt' = IF info.seal = None THEN editions ELSE sealedAt
          /\ \/ call' = [call EXCEPT ![c].pc = "listing", ![c].seal = SealOf(c)]
             \/ MayRepeat(c) /\ Repeats(c)
    /\ UNCHANGED <<staged, key>>

\* SNAPSHOT, after the seal.
Snapshot(c) ==
    /\ call[c].pc = "listing"
    /\ call' = [call EXCEPT ![c].plan = Sources, ![c].told = Len(Content),
                            ![c].pc = IF Len(Content) = call[c].expected
                                      THEN "assembling" ELSE "lifting"]
    /\ UNCHANGED <<upload, key, sealedAt>>

\* liftSeal, of exactly this seal.
LiftSeal(c) ==
    /\ call[c].pc = "lifting"
    /\ \/ info = None /\ Answers(c, "not-found", 0) /\ UNCHANGED <<info, fresh>>
       \/ /\ info # None
          /\ IF info.seal # None /\ info.seal.id = call[c].seal.id
             THEN Stored([info EXCEPT !.seal = None]) ELSE UNCHANGED <<info, fresh>>
          /\ Answers(c, "conflict", call[c].told)
    /\ UNCHANGED <<staged, key, sealedAt>>

\* PUBLISH: composites until one object holds the plan, then one copy to the
\* key in the state the seal recorded.
Assemble(c) ==
    /\ call[c].pc = "assembling" /\ Cardinality(call[c].plan) > 1
    /\ \/ /\ Composes(call[c].plan)
          /\ call' = [call EXCEPT ![c].plan = (@ \ FirstOf(@)) \cup {FoldOf(@)}]
       \/ /\ ~(FirstOf(call[c].plan) \subseteq DOMAIN staged)
          /\ call' = [call EXCEPT ![c].pc = "rescuing", ![c].ending = "failed"]
          /\ UNCHANGED staged
    /\ UNCHANGED <<info, fresh, key, sealedAt>>

Assembled(c) == call[c].pc = "assembling" /\ Cardinality(call[c].plan) <= 1
Records(c) == call' = [call EXCEPT ![c].pc = "recording", ![c].ending = "complete"]
\* The slip copies over whatever is there.
Unconditional(c) == TRUE
Permitted(c) == EditionOf(object) = call[c].seal.destination

\* A copy that landed unheard is repeated by the client library, and refused.
Publish(c) ==
    /\ Assembled(c)
    /\ call[c].plan \subseteq DOMAIN staged
    /\ \/ /\ Permitted(c)
          /\ Publishes(call[c].seal.id, Joined(call[c].plan))
          /\ Records(c) \/ (Unheard /\ Goes(c, "refused"))
       \/ ~Permitted(c) /\ Goes(c, "refused") /\ UNCHANGED key
    /\ UNCHANGED <<upload, sealedAt>>

PlanIsGone(c) ==
    /\ Assembled(c)
    /\ ~(call[c].plan \subseteq DOMAIN staged)
    /\ call' = [call EXCEPT ![c].pc = "rescuing", ![c].ending = "failed"]
    /\ UNCHANGED <<upload, key, sealedAt>>

Refused(c) ==
    /\ call[c].pc = "refused"
    /\ IF Ours(call[c].seal) THEN Records(c)
       ELSE call' = [call EXCEPT ![c].pc = "rescuing", ![c].ending = "destination"]
    /\ UNCHANGED <<upload, key, sealedAt>>

\* A completion under the same seal may have recorded itself meanwhile.
Rescue(c) ==
    /\ call[c].pc = "rescuing"
    /\ Answers(c, IF info # None /\ info.complete THEN "complete" ELSE call[c].ending, 0)
    /\ UNCHANGED <<upload, key, sealedAt>>

\* RECORD, and then the staging objects go.
Record(c) ==
    /\ call[c].pc = "recording"
    /\ \/ info = None /\ Answers(c, "not-found", 0) /\ UNCHANGED <<info, fresh>>
       \/ /\ info # None
          /\ Stored(Laid(info, Complete))
          /\ Goes(c, "cleaning") \/ (MayRepeat(c) /\ Repeats(c))
    /\ UNCHANGED <<staged, key, sealedAt>>

Clean(c) ==
    /\ call[c].pc = "cleaning"
    /\ staged' = <<>>
    /\ Answers(c, call[c].ending, call[c].seal.length)
    /\ UNCHANGED <<info, fresh, key, sealedAt>>

-------------------------------------------------------------------------------
(* getUploadState; abortUpload and the sweep *)

Probe(c) ==
    /\ MayBegin(c, "probe")
    /\ \/ info = None /\ Ends(c, "probe", "not-found", 0)
       \/ info # None /\ Unwritable /\ Ends(c, "probe", "settled", 0)
       \/ info # None /\ ~Unwritable /\ Ends(c, "probe", "state", Len(Content))
    /\ UNCHANGED <<upload, key, sealedAt>>

\* deleteUploadArtifacts: the record is read, every staged object deleted, and
\* the record last, in the version read; refused, it all starts over.
DiscardReads(c) ==
    /\ \/ MayBegin(c, "discard")
       \/ call[c].pc = "discarding"
    /\ IF info = None
       THEN Ends(c, "discard", "discarded", 0) /\ UNCHANGED fresh
       ELSE Begins(c, [Idle EXCEPT !.kind = "discard", !.pc = "clearing"]) /\ fresh' = fresh \cup {c}
    /\ UNCHANGED <<info, staged, key, sealedAt>>

DiscardClears(c) ==
    /\ call[c].pc = "clearing"
    /\ staged' = <<>>
    /\ Goes(c, "forgetting")
    /\ UNCHANGED <<info, fresh, key, sealedAt>>

\* The slip deletes the record in whatever version it is.
AnyVersion(c) == TRUE
SameVersion(c) == c \in fresh

DiscardForgets(c) ==
    /\ call[c].pc = "forgetting"
    /\ IF info # None /\ SameVersion(c)
       THEN info' = None /\ fresh' = {} /\ Answers(c, "discarded", 0)
       ELSE Goes(c, "discarding") /\ UNCHANGED <<info, fresh>>
    /\ UNCHANGED <<staged, key, sealedAt>>

-------------------------------------------------------------------------------

Appending(c) ==
    \/ \E n \in 0..MaxLength : AppendBegins(c, n) \/ AppendRefused(c, n) \/ BodyLands(c, n)
    \/ BodyOverruns(c) \/ FenceRefuses(c) \/ FencePasses(c) \/ DropChunk(c)
    \/ ComposeFold(c) \/ NoteFold(c) \/ DropFolded(c)

Completing(c) ==
    \/ \E n \in 0..MaxLength : CompleteBegins(c, n)
    \/ Adopt(c) \/ Inspect(c) \/ Seal(c) \/ Snapshot(c) \/ LiftSeal(c)
    \/ Assemble(c) \/ Publish(c) \/ PlanIsGone(c) \/ Refused(c) \/ Rescue(c)
    \/ Record(c) \/ Clean(c)

Discarding(c) == DiscardReads(c) \/ DiscardClears(c) \/ DiscardForgets(c)

Next ==
    \/ (StrangerWrites \/ StrangerDeletes) /\ UNCHANGED staged
    \/ \E c \in Calls :
          Appending(c) \/ Completing(c) \/ Probe(c) \/ Discarding(c) \/ Crash(c)

Spec == Init /\ [][Next]_vars

===============================================================================

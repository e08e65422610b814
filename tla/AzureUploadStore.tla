--------------------------- MODULE AzureUploadStore ---------------------------
(***************************************************************************)
(* One upload of azureUploadStore (src/azure.ts), whose bytes are blocks   *)
(* staged on the blob at the key itself: any commit there drops them, a    *)
(* sentinel block tells an empty upload from a lost one, and the record's  *)
(* ledger says which blocks have been acknowledged.  Every piece of a body *)
(* is a block of its own here (blockSize 1).                               *)
(***************************************************************************)
EXTENDS CloudUpload, SequencesExt

CONSTANT CommitEmpty  \* discardStaged: staged blocks are dropped by an empty commit

Indices == 1..MaxLength
Nothing == [sentinel |-> FALSE, blocks |-> <<>>]

Init == Created([seal |-> None, invalid |-> FALSE, complete |-> FALSE, blocks |-> 0, bytes |-> 0],
                [sentinel |-> TRUE, blocks |-> <<>>])

Records == [seal : Seals \cup {None}, invalid : BOOLEAN, complete : BOOLEAN,
            blocks : 0..MaxLength, bytes : 0..MaxLength]

TypeOK ==
    /\ CloudTypeOK
    /\ info \in Records \cup {None}
    /\ staged.sentinel \in BOOLEAN /\ DOMAIN staged.blocks \subseteq Indices
    /\ \A i \in DOMAIN staged.blocks : staged.blocks[i] \in Bodies
    /\ \A c \in Calls : call[c].plan \subseteq Indices /\ call[c].seal \in Seals \cup {None}

-------------------------------------------------------------------------------
(* deriveAzureBlocks *)

Joined(indices) ==
    FlattenSeq([i \in Indices |-> IF i \in indices THEN staged.blocks[i] ELSE <<>>])
Content == Joined(DOMAIN staged.blocks)
NextIndex == Max(DOMAIN staged.blocks \cup {0}) + 1

\* Neither a blob nor anything staged: the list itself is not found.
Gone == object = None /\ staged = Nothing

\* azureLedgerDisagreement: a block was replaced under an acknowledged write.
Disagrees(record) ==
    /\ staged.sentinel
    /\ \/ ~(1..record.blocks \subseteq DOMAIN staged.blocks)
       \/ Len(Joined(1..record.blocks)) # record.bytes

\* The service lets go of what was staged longest.
AgesOut ==
    /\ intruded < MaxEditions /\ staged # Nothing
    /\ intruded' = intruded + 1
    /\ staged' = IF staged.sentinel THEN [staged EXCEPT !.sentinel = FALSE]
                 ELSE [staged EXCEPT !.blocks =
                         [i \in DOMAIN @ \ {Min(DOMAIN @)} |-> @[i]]]
    /\ UNCHANGED <<info, fresh, object, editions, published, call, sealedAt>>

-------------------------------------------------------------------------------
(* What was staged is gone: the record says so, which is terminal *)

Condemns(c) == call' = [call EXCEPT ![c].pc = "condemning", ![c].record = None]

\* A probe answers what it saw whether or not that could be recorded.
Condemn(c) ==
    /\ call[c].pc = "condemning"
    /\ \/ info = None /\ call[c].kind = "probe" /\ Answers(c, "settled", 0) /\ UNCHANGED <<info, fresh>>
       \/ info # None /\ call[c].kind = "probe" /\ Invalidates(c, "settled", 0)
       \/ call[c].kind # "probe" /\ Invalidates(c, "failed", 0)
    /\ UNCHANGED <<staged, key, sealedAt>>

-------------------------------------------------------------------------------
(* appendChunk *)

AppendReads(c, offset) ==
    /\ MayBegin(c, "append")
    /\ IF Bar # "none" THEN Ends(c, "append", Bar, SealedLength)
       ELSE Begins(c, [Idle EXCEPT !.kind = "append", !.pc = "listing", !.offset = offset,
                                   !.record = info])
    /\ UNCHANGED <<upload, key, sealedAt>>

AppendLists(c) ==
    /\ call[c].pc = "listing" /\ call[c].kind = "append"
    /\ IF Gone \/ Disagrees(call[c].record) \/ ~staged.sentinel THEN Condemns(c)
       ELSE IF call[c].offset # Len(Content) THEN Answers(c, "conflict", Len(Content))
       ELSE call' = [call EXCEPT ![c].pc = "streaming", ![c].index = NextIndex,
                                 ![c].record = None]
    /\ UNCHANGED <<upload, key, sealedAt>>

BlockFills(c, n) ==
    /\ call[c].pc = "streaming" /\ n > 0 /\ End(c) + n <= MaxLength
    /\ call' = [call EXCEPT ![c].pc = "checking", ![c].pending = n]
    /\ UNCHANGED <<upload, key, sealedAt>>

\* stagePending, whose check and whose fence read the record each for itself.
AcceptedIndex(c) == call[c].index <= info.blocks
Refuses(c) ==
    \/ Barred(c)
    \/ Bar = "none" /\ AcceptedIndex(c) /\ Answers(c, "conflict", info.bytes)

CheckIndex(c) ==
    /\ call[c].pc = "checking"
    /\ Refuses(c) \/ (Bar = "none" /\ ~AcceptedIndex(c) /\ Goes(c, "staging"))
    /\ UNCHANGED <<upload, key, sealedAt>>

\* The service replaces a block staged under the same id.
StageBlock(c) ==
    /\ call[c].pc = "staging"
    /\ staged' = [staged EXCEPT !.blocks =
                    [i \in DOMAIN @ \cup {call[c].index} |->
                       IF i = call[c].index THEN Slice(End(c), call[c].pending) ELSE @[i]]]
    /\ Goes(c, "accepting")
    /\ UNCHANGED <<info, fresh, key, sealedAt>>

\* The fence.
Reaped(c) == info = None /\ CommitEmpty
Fenced(c) == Bar = "none" /\ ~AcceptedIndex(c)

Accept(c) ==
    /\ call[c].pc = "accepting"
    /\ Fenced(c)
    /\ Stored([info EXCEPT !.blocks = call[c].index, !.bytes = End(c) + call[c].pending])
    /\ \/ call' = [call EXCEPT ![c].pc = "streaming", ![c].size = @ + call[c].pending,
                               ![c].index = @ + 1, ![c].pending = 0]
       \/ MayRepeat(c) /\ Repeats(c)
    /\ UNCHANGED <<staged, key, sealedAt>>

AcceptRefused(c) ==
    /\ call[c].pc = "accepting"
    /\ ~Fenced(c)
    /\ IF Reaped(c) THEN call' = [call EXCEPT ![c].pc = "emptying", ![c].ending = "not-found"]
       ELSE Refuses(c)
    /\ UNCHANGED <<upload, key, sealedAt>>

BodyEnds(c) ==
    /\ call[c].pc = "streaming"
    /\ \/ call[c].size > 0 /\ Answers(c, "wrote", End(c)) /\ UNCHANGED <<info, fresh>>
       \/ call[c].size = 0 /\ Barred(c) /\ UNCHANGED <<info, fresh>>
       \/ call[c].size = 0 /\ Bar = "none" /\ Stored(info) /\ Answers(c, "wrote", End(c))
    /\ UNCHANGED <<staged, key, sealedAt>>

BodyOverruns(c) ==
    /\ call[c].pc = "streaming"
    /\ Invalidates(c, "overrun", End(c))
    /\ UNCHANGED <<staged, key, sealedAt>>

-------------------------------------------------------------------------------
(* completeUpload *)

CompleteReads(c, expected) ==
    /\ MayBegin(c, "complete")
    /\ IF Over # "none" THEN Ends(c, "complete", Over, 0)
       ELSE Begins(c, [Idle EXCEPT !.kind = "complete", !.pc = "inspecting",
                                   !.expected = expected, !.seal = info.seal])
    /\ UNCHANGED <<upload, key, sealedAt>>

\* readDestination, and adoptPublication of what an earlier completion left.
Adopts(c) == call' = [call EXCEPT ![c].pc = "recording", ![c].told = Len(object.body),
                        ![c].ending = IF Len(object.body) = call[c].expected
                                      THEN "complete" ELSE "conflict"]

Inspect(c) ==
    /\ call[c].pc = "inspecting"
    /\ IF call[c].seal # None /\ Ours(call[c].seal) THEN Adopts(c)
       ELSE call' = [call EXCEPT ![c].pc = "sealing", ![c].destination = EditionOf(object)]
    /\ UNCHANGED <<upload, key, sealedAt>>

\* sealPlan: a seal that is there is re-pointed at this length, and keeps the
\* destination it was made with.
SealOf(c) == IF info.seal = None
             THEN [length |-> call[c].expected, destination |-> call[c].destination, id |-> c]
             ELSE [info.seal EXCEPT !.length = call[c].expected]

Seal(c) ==
    /\ call[c].pc = "sealing"
    /\ \/ Over # "none" /\ Answers(c, Over, 0) /\ UNCHANGED <<info, fresh, sealedAt>>
       \/ /\ Over = "none"
          /\ Stored([info EXCEPT !.seal = SealOf(c)])
          /\ sealedAt' = IF info.seal = None THEN editions ELSE sealedAt
          /\ \/ call' = [call EXCEPT ![c].pc = "listing", ![c].seal = SealOf(c),
                                     ![c].record = info']
             \/ MayRepeat(c) /\ Repeats(c)
    /\ UNCHANGED <<staged, key>>

Snapshot(c) ==
    /\ call[c].pc = "listing" /\ call[c].kind = "complete"
    /\ IF Gone \/ Disagrees(call[c].record) THEN Condemns(c)
       ELSE IF ~staged.sentinel THEN Goes(c, "inquiring")
       ELSE call' = [call EXCEPT ![c].plan = DOMAIN staged.blocks, ![c].record = None,
                        ![c].told = Len(Content),
                        ![c].pc = IF Len(Content) = call[c].expected
                                  THEN "publishing" ELSE "lifting"]
    /\ UNCHANGED <<upload, key, sealedAt>>

\* refuseLostPlan: someone's write at the key, or what was staged is lost.
Foreign(seal) == object # None /\ object.edition # seal.destination

Inquire(c) ==
    /\ call[c].pc = "inquiring" /\ call[c].kind = "complete"
    /\ IF Foreign(call[c].seal) THEN Answers(c, "destination", 0) ELSE Condemns(c)
    /\ UNCHANGED <<upload, key, sealedAt>>

\* Only the seal as this completion wrote it.
LiftSeal(c) ==
    /\ call[c].pc = "lifting"
    /\ \/ info = None /\ Answers(c, "not-found", 0) /\ UNCHANGED <<info, fresh>>
       \/ /\ info # None
          /\ Stored(IF ~info.complete /\ info.seal = call[c].seal
                    THEN [info EXCEPT !.seal = None] ELSE info)
          /\ Answers(c, "conflict", call[c].told)
    /\ UNCHANGED <<staged, key, sealedAt>>

\* publishPlan: the commit, which drops all that was staged at the key.
Permitted(c) == EditionOf(object) = call[c].seal.destination
Publishing(c) == call' = [call EXCEPT ![c].pc = "recording", ![c].told = call[c].seal.length,
                                      ![c].ending = "complete"]

Publish(c) ==
    /\ call[c].pc = "publishing"
    /\ \/ /\ Permitted(c) /\ call[c].plan \subseteq DOMAIN staged.blocks
          /\ Publishes(call[c].seal.id, Joined(call[c].plan))
          /\ staged' = Nothing
          /\ Publishing(c) \/ (Unheard /\ Goes(c, "refused"))
       \/ /\ Permitted(c) /\ ~(call[c].plan \subseteq DOMAIN staged.blocks)
          /\ Answers(c, "failed", 0) /\ UNCHANGED <<staged, key>>
       \/ ~Permitted(c) /\ Goes(c, "refused") /\ UNCHANGED <<staged, key>>
    /\ UNCHANGED <<info, fresh, sealedAt>>

Refused(c) ==
    /\ call[c].pc = "refused"
    /\ IF Ours(call[c].seal) THEN Publishing(c) ELSE Answers(c, "destination", 0)
    /\ UNCHANGED <<upload, key, sealedAt>>

Record(c) ==
    /\ call[c].pc = "recording"
    /\ \/ info = None /\ Answers(c, "not-found", 0) /\ UNCHANGED <<info, fresh>>
       \/ /\ info # None
          /\ Stored(Laid(info, Complete))
          /\ Answers(c, call[c].ending, call[c].told) \/ (MayRepeat(c) /\ Repeats(c))
    /\ UNCHANGED <<staged, key, sealedAt>>

-------------------------------------------------------------------------------
(* getUploadState *)

ProbeReads(c) ==
    /\ MayBegin(c, "probe")
    /\ IF info = None THEN Ends(c, "probe", "not-found", 0)
       ELSE IF Unwritable THEN Ends(c, "probe", "settled", 0)
       ELSE Begins(c, [Idle EXCEPT !.kind = "probe", !.pc = "listing", !.record = info,
                                   !.seal = info.seal])
    /\ UNCHANGED <<upload, key, sealedAt>>

ProbeLists(c) ==
    /\ call[c].pc = "listing" /\ call[c].kind = "probe"
    /\ IF Gone \/ Disagrees(call[c].record) \/ (~staged.sentinel /\ call[c].seal = None)
       THEN Condemns(c)
       ELSE IF staged.sentinel THEN Answers(c, "state", Len(Content)) ELSE Goes(c, "inquiring")
    /\ UNCHANGED <<upload, key, sealedAt>>

\* stateWithoutSentinel, under a seal.
ProbeInquires(c) ==
    /\ call[c].pc = "inquiring" /\ call[c].kind = "probe"
    /\ IF Ours(call[c].seal) \/ Foreign(call[c].seal) THEN Answers(c, "settled", 0)
       ELSE Condemns(c)
    /\ UNCHANGED <<upload, key, sealedAt>>

-------------------------------------------------------------------------------
(* abortUpload and the sweep; discardUncommittedTarget *)

DiscardReads(c) ==
    /\ MayBegin(c, "discard")
    /\ IF info = None THEN Ends(c, "discard", "discarded", 0)
       ELSE Begins(c, [Idle EXCEPT !.kind = "discard",
                          !.pc = IF CommitEmpty /\ ~info.complete THEN "emptying" ELSE "forgetting"])
    /\ UNCHANGED <<upload, key, sealedAt>>

Emptied(c) == IF call[c].kind = "discard" THEN Goes(c, "forgetting")
              ELSE Answers(c, call[c].ending, 0)

\* Committed only where no blob is, and where something is staged.
DiscardEmpties(c) ==
    /\ call[c].pc = "emptying"
    /\ IF object = None /\ staged # Nothing
       THEN /\ editions' = editions + 1
            /\ object' = [edition |-> editions', publication |-> None, body |-> <<>>]
            /\ staged' = Nothing
            /\ call' = [call EXCEPT ![c].pc = "removing", ![c].destination = editions']
       ELSE Emptied(c) /\ UNCHANGED <<object, editions, staged>>
    /\ UNCHANGED <<info, fresh, intruded, published, sealedAt>>

DiscardRemoves(c) ==
    /\ call[c].pc = "removing"
    /\ object' = IF EditionOf(object) = call[c].destination THEN None ELSE object
    /\ Emptied(c)
    /\ UNCHANGED <<upload, editions, intruded, published, sealedAt>>

\* The record goes last, in whatever version it is.
DiscardForgets(c) ==
    /\ call[c].pc = "forgetting"
    /\ info' = None /\ fresh' = {}
    /\ Answers(c, "discarded", 0)
    /\ UNCHANGED <<staged, key, sealedAt>>

-------------------------------------------------------------------------------

Appending(c) ==
    \/ \E n \in 0..MaxLength : AppendReads(c, n) \/ BlockFills(c, n)
    \/ AppendLists(c) \/ CheckIndex(c) \/ StageBlock(c) \/ Accept(c) \/ AcceptRefused(c)
    \/ BodyEnds(c) \/ BodyOverruns(c)

Completing(c) ==
    \/ \E n \in 0..MaxLength : CompleteReads(c, n)
    \/ Inspect(c) \/ Seal(c) \/ Snapshot(c) \/ Inquire(c) \/ LiftSeal(c)
    \/ Publish(c) \/ Refused(c) \/ Record(c)

Probing(c) == ProbeReads(c) \/ ProbeLists(c) \/ ProbeInquires(c)
Discarding(c) == DiscardReads(c) \/ DiscardEmpties(c) \/ DiscardRemoves(c) \/ DiscardForgets(c)

Next ==
    \/ AgesOut
    \/ StrangerWrites /\ staged' = Nothing
    \/ StrangerDeletes /\ staged' \in {staged, Nothing}
    \/ \E c \in Calls :
          \/ Appending(c) \/ Completing(c) \/ Condemn(c)
          \/ Probing(c) \/ Discarding(c) \/ Crash(c)

Spec == Init /\ [][Next]_vars

===============================================================================

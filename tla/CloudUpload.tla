------------------------------ MODULE CloudUpload ------------------------------
(***************************************************************************)
(* What the stores over a cloud service have in common: one upload, whose  *)
(* record and bytes are objects of the service, and the object at the key  *)
(* it publishes to.  A step is one request to the service; between two of  *)
(* them other calls on the upload, other writers of the key, or a crash    *)
(* may come.  The orchestrator's lock keeps calls apart, except that a     *)
(* holder that lost it may run on beside its successor: Overlaps says      *)
(* which kinds of calls may.                                               *)
(*                                                                         *)
(* A record is replaced only in the version its writer last read, so all   *)
(* that matters of versions is whose read is still the version stored.     *)
(* Whoever appends, sends at each offset the bytes of the one              *)
(* representation that belong there: a byte is its position.               *)
(***************************************************************************)
EXTENDS Naturals, Sequences, FiniteSetsExt

CONSTANTS Calls,       \* calls of the store's methods
          Overlaps,    \* sets of kinds of which two calls may overlap
          Unheard,     \* whether a write's answer may get lost and the write be repeated
          None,        \* no record, no object, no seal
          MaxLength,   \* bound: bytes of the representation
          MaxEditions  \* bound: how often another writer changes the key

Kinds == {"append", "complete", "probe", "discard"}

ASSUME CloudAssumption ==
    /\ Overlaps \subseteq SUBSET Kinds
    /\ Unheard \in BOOLEAN
    /\ MaxLength \in Nat /\ MaxEditions \in Nat
    /\ None \notin Calls

VARIABLES info,      \* the upload's record, or None
          fresh,     \* the calls whose read of the record is the version stored
          staged,    \* what the service keeps of the upload's bytes
          object,    \* what the key names
          call,      \* call[c]: where a call stands, and its locals
          editions,  \* how many objects that can be told apart have been at the key
          intruded,  \* bound: changes of the key by others
          sealedAt,  \* history: the editions there were when the upload was sealed
          published  \* history: the bodies this upload has published

upload == <<info, fresh, staged>>
key == <<object, editions, intruded, published>>
vars == <<upload, key, call, sealedAt>>

Bodies == UNION {[1..n -> 1..MaxLength] : n \in 0..MaxLength}
\* The first n bytes, and those an append sends from an offset.
Prefix(n) == [i \in 1..n |-> i]
Slice(offset, n) == [i \in 1..n |-> offset + i]
\* What a store keeps by index, end to end in the order of the indices.
EndToEnd(kept(_), indices) == MapThenFoldSet(LAMBDA a, b : a \o b, <<>>, kept, Min, indices)

\* A seal keeps the length to publish, what was at the key, and an id.
\* Where the id is minted with the upload, it is the upload's.
Ids == Calls \cup {"upload"}
Seals == [length : 0..MaxLength, destination : Nat, id : Ids]
ASSUME SealsAssumption == None \notin Seals

\* What a store's condition on the key tells objects apart by: of gcs and azure
\* a generation or an ETag that is new with every write, of s3 and r2 an ETag
\* that is a digest of the content, and comes back with it.  The upload's own
\* object carries the publication id of the completion that made it.
Objects == [edition : Nat, publication : Ids \cup {None}, body : Bodies]
EditionOf(thing) == IF thing = None THEN 0 ELSE thing.edition
\* The object at the key is the seal's publication by its id, never by its size.
Ours(seal) == object # None /\ object.publication = seal.id

\* record, slot, parts: as the call read them, while it goes by that; buffer:
\* bytes that no request has carried yet.
Idle == [kind |-> "none", pc |-> "idle", offset |-> 0, size |-> 0, index |-> 0,
         pending |-> 0, expected |-> 0, told |-> 0, destination |-> 0, seal |-> None,
         plan |-> {}, ending |-> "wrote", repeated |-> FALSE, record |-> None,
         slot |-> None, parts |-> <<>>, buffer |-> <<>>]

Settled == {"idle", "crashed", "wrote", "overrun", "conflict", "not-found", "failed",
            "complete", "destination", "state", "settled", "discarded"}
Running(c) == call[c].pc \notin Settled

MayBegin(c, kind) ==
    /\ call[c] = Idle
    /\ \A d \in Calls : Running(d) => {kind, call[d].kind} \in Overlaps

Goes(c, pc) == call' = [call EXCEPT ![c].pc = pc]
Begins(c, local) == call' = [call EXCEPT ![c] = local]
\* A settled call keeps what it claimed and was told.
Ends(c, kind, pc, told) ==
    call' = [call EXCEPT ![c] = [Idle EXCEPT !.kind = kind, !.pc = pc, !.told = told]]
Answers(c, pc, told) == Ends(c, call[c].kind, pc, told)
\* The answer to an append names the offset it reached.
End(c) == call[c].offset + call[c].size

-------------------------------------------------------------------------------
(* The record under compare-and-swap (src/cas-merge.ts).  A merge re-reads  *)
(* until its write lands on the version it read: in effect it is one step   *)
(* on the record as it is.  A write that landed and whose answer got lost   *)
(* is refused when it is repeated, which makes the merge start over on its  *)
(* own result.                                                              *)

Stored(record) == info' = record /\ fresh' = {}
MayRepeat(c) == Unheard /\ ~call[c].repeated
Repeats(c) == call' = [call EXCEPT ![c].repeated = TRUE]

\* mergePersistedState: a terminal flag stays.
Laid(record, patch) ==
    [record EXCEPT !.invalid = @ \/ patch.invalid, !.complete = @ \/ patch.complete]
Untouched == [invalid |-> FALSE, complete |-> FALSE]
Invalid == [Untouched EXCEPT !.invalid = TRUE]
Complete == [Untouched EXCEPT !.complete = TRUE]

\* assertUploadWritable, for an append; and why the record bars one.
Unwritable == info.invalid \/ info.complete
Bar == CASE info = None -> "not-found"
         [] info # None /\ Unwritable -> "failed"
         [] info # None /\ ~Unwritable /\ info.seal # None -> "conflict"
         [] OTHER -> "none"
SealedLength == IF Bar = "conflict" THEN info.seal.length ELSE 0
Barred(c) == Bar # "none" /\ Answers(c, Bar, SealedLength)

\* The same for a completion: the upload is gone, dead, or complete already.
Over == CASE info = None -> "not-found"
          [] info # None /\ info.invalid -> "failed"
          [] info # None /\ ~info.invalid /\ info.complete -> "complete"
          [] OTHER -> "none"

\* The record says so before the answer does.
Invalidates(c, answer, told) ==
    IF info = None THEN Answers(c, "not-found", 0) /\ UNCHANGED <<info, fresh>>
    ELSE Stored(Laid(info, Invalid)) /\ Answers(c, answer, told)

-------------------------------------------------------------------------------
(* The key, and ends that may come at any step *)

Publishes(publication, body) ==
    /\ editions' = editions + 1
    /\ object' = [edition |-> editions', publication |-> publication, body |-> body]
    /\ published' = published \cup {body}
    /\ UNCHANGED intruded

StrangerWrites ==
    /\ intruded < MaxEditions
    /\ intruded' = intruded + 1
    /\ editions' = editions + 1
    /\ object' = [edition |-> editions', publication |-> None, body |-> <<>>]
    /\ UNCHANGED <<info, fresh, call, sealedAt, published>>

StrangerDeletes ==
    /\ intruded < MaxEditions /\ object # None
    /\ intruded' = intruded + 1
    /\ object' = None
    /\ UNCHANGED <<info, fresh, call, sealedAt, editions, published>>

\* Where an ETag is a digest, content that has been at the key may be written
\* again and be the same edition.
StrangerRewrites ==
    /\ intruded < MaxEditions
    /\ intruded' = intruded + 1
    /\ \E edition \in 1..editions :
          object' = [edition |-> edition, publication |-> None, body |-> <<>>]
    /\ object' # object
    /\ UNCHANGED <<info, fresh, call, sealedAt, editions, published>>

\* The process dies, or the call throws at a request (an aborted signal, an
\* error of the service) with nothing to undo what it did.
Crash(c) ==
    /\ Running(c)
    /\ Answers(c, "crashed", 0)
    /\ UNCHANGED <<upload, key, sealedAt>>

Created(record, bytes) ==
    /\ info = record
    /\ fresh = {}
    /\ staged = bytes
    /\ object \in {None, [edition |-> 1, publication |-> None, body |-> <<>>]}
    /\ editions = 1
    /\ intruded = 0
    /\ call = [c \in Calls |-> Idle]
    /\ sealedAt = 0
    /\ published = {}

\* What every store keeps of the types, its record and its bytes apart.
CloudTypeOK ==
    /\ fresh \subseteq Calls
    /\ object \in Objects \cup {None}
    /\ \A c \in Calls :
          /\ call[c].kind \in Kinds \cup {"none"}
          /\ End(c) \in 0..MaxLength /\ call[c].expected \in 0..MaxLength
          /\ call[c].told \in 0..MaxLength
    /\ published \subseteq Bodies
-------------------------------------------------------------------------------

\* R2's complete() takes no condition: what it replaces is what came to the key
\* since the store looked.
Windowed == \E c \in Calls : call[c].pc = "completing"

(***************************************************************************)
(* A publication never replaces what another writer put at the key after   *)
(* the upload was sealed: a copy, a commit or a completion goes through    *)
(* only over the object, or the absence of one, that the seal recorded, or *)
(* (s3 and r2) over one of the very content that the seal recorded.        *)
(***************************************************************************)
NoBlindOverwrite ==
    [][(object' # object /\ object' # None /\ object'.publication # None /\ ~Windowed)
          => object = None \/ object.edition <= sealedAt]_vars

===============================================================================

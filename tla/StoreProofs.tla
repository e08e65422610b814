----------------------------- MODULE StoreProofs ------------------------------
(***************************************************************************)
(* The four stores over a cloud service, for any number of calls, any      *)
(* length, and with answers lost or not.  None of them publishes over what *)
(* came to the key after the upload was sealed, whatever overlaps.  First  *)
(* what the four proofs of that share: the invariant that no seal recorded *)
(* anything that came to the key after the upload was sealed, up to where  *)
(* in each store a call goes by a seal, and the ways in which a step that  *)
(* moves one call, or none, preserves it.  Then each store has its lemmas  *)
(* under its own name: where it goes by a seal, what its steps do to the   *)
(* seals, that the invariant is inductive, and which of its steps puts an  *)
(* object at the key.  Last come the bytes of the azure store: that blocks *)
(* which lie end to end join to a prefix, that its calls keep them so, and *)
(* that what was acknowledged therefore stays and is published.            *)
(***************************************************************************)
EXTENDS CloudStores, SequencesExt, WellFoundedInduction, TLAPS

-------------------------------------------------------------------------------
(* Seals, and where a call goes by one *)

\* A seal recorded something that was at the key by the time s counts.
SealOK(seal, s) ==
    /\ "destination" \in DOMAIN seal
    /\ seal.destination \in Nat /\ seal.destination <= s
Readable(i, s) == "seal" \in DOMAIN i /\ (i.seal # None => SealOK(i.seal, s))
InfoOK(i, s) == i # None => Readable(i, s)
KeyOK(o, e) == o # None => o.edition \in Nat /\ o.edition <= e

Fields == {"kind", "pc", "destination", "seal", "ending", "record"}
CallOK(r, e, s) ==
    /\ Fields \subseteq DOMAIN r
    /\ r.destination \in Nat /\ r.destination <= e
    /\ r.seal # None => SealOK(r.seal, s)
    /\ InfoOK(r.record, s)

\* Where a call goes by its seal, where it does if it is a completion, where it
\* goes by the seal of the record it read, and where by that record, sealed or
\* not: w.seal, w.completing, w.record, w.read.  There it has one, and no call
\* gets there by an ending it was keeping.
Places(w) == w.seal \cup w.completing \cup w.record \cup w.read
Borne(r, s, w) ==
    /\ r.pc \in w.seal => SealOK(r.seal, s)
    /\ r.pc \in w.completing /\ r.kind = "complete" => SealOK(r.seal, s)
    /\ r.pc \in w.record => "seal" \in DOMAIN r.record /\ SealOK(r.record.seal, s)
    /\ r.pc \in w.read => Readable(r.record, s)
    /\ r.ending \notin Places(w)

Core ==
    /\ editions \in Nat /\ sealedAt \in Nat /\ sealedAt <= editions
    /\ KeyOK(object, editions)
    /\ InfoOK(info, sealedAt)
    /\ DOMAIN call = Calls
    /\ \A c \in Calls : CallOK(call[c], editions, sealedAt)
Sound(w) == Core /\ \A c \in Calls : Borne(call[c], sealedAt, w)

-------------------------------------------------------------------------------
(* Calls, and the passing of time *)

\* A call that has not begun knows of no seal.
LEMMA IdleOK ==
    ASSUME NEW e \in Nat, NEW s \in Nat
    PROVE  /\ CallOK(Idle, e, s)
           /\ Idle.pc = "idle" /\ Idle.seal = None /\ Idle.ending = "wrote" /\ Idle.record = None
           /\ DOMAIN Idle = {"kind", "pc", "offset", "size", "index", "pending", "expected", "told",
                             "destination", "seal", "plan", "ending", "repeated", "record",
                             "slot", "parts", "buffer"}
    BY DEF Idle, CallOK, Fields, InfoOK

\* What was true of a seal, a record or a call stays true as time passes.
LEMMA SealKept ==
    ASSUME NEW seal, NEW s \in Nat, NEW t \in Nat, s <= t, SealOK(seal, s)
    PROVE  SealOK(seal, t)
    BY DEF SealOK

\* The same of a record,
LEMMA InfoKept ==
    ASSUME NEW i, NEW s \in Nat, NEW t \in Nat, s <= t, InfoOK(i, s)
    PROVE  InfoOK(i, t)
    BY SealKept DEF InfoOK, Readable

\* of what a call knows,
LEMMA CallKept ==
    ASSUME NEW r, NEW e \in Nat, NEW s \in Nat, NEW f \in Nat, NEW t \in Nat,
           e <= f, s <= t, CallOK(r, e, s)
    PROVE  CallOK(r, f, t)
    BY SealKept, InfoKept DEF CallOK

\* and of where it stands.
LEMMA BorneKept ==
    ASSUME NEW r, NEW w, NEW s \in Nat, NEW t \in Nat, s <= t, Borne(r, s, w)
    PROVE  Borne(r, t, w)
    BY SealKept DEF Borne, Readable

\* mergePersistedState keeps the seal.
LEMMA LaidReads ==
    ASSUME NEW i, NEW patch, NEW s, Readable(i, s)
    PROVE  Readable(Laid(i, patch), s) /\ Laid(i, patch).seal = i.seal
    BY DEF Laid, Readable

\* The same of a record there is.
LEMMA LaidOK ==
    ASSUME NEW i, NEW patch, NEW s, i # None, InfoOK(i, s)
    PROVE  InfoOK(Laid(i, patch), s)
    BY LaidReads DEF InfoOK

\* What Sound says of one call.
LEMMA Parts ==
    ASSUME NEW w, Sound(w), NEW c \in Calls
    PROVE  /\ DOMAIN call = Calls /\ Fields \subseteq DOMAIN call[c]
           /\ CallOK(call[c], editions, sealedAt) /\ Borne(call[c], sealedAt, w)
           /\ InfoOK(info, sealedAt) /\ InfoOK(call[c].record, sealedAt) /\ KeyOK(object, editions)
           /\ editions \in Nat /\ sealedAt \in Nat /\ sealedAt <= editions
           /\ call[c].ending \notin Places(w)
    BY DEF Sound, Core, CallOK, Borne

-------------------------------------------------------------------------------
(* Steps *)

\* The initial states of every store.
LEMMA CreatedSound ==
    ASSUME NEW w, NEW record, NEW bytes, Created(record, bytes), InfoOK(record, 0),
           {"idle", "wrote"} \cap Places(w) = {}
    PROVE  Sound(w)
<1>1. /\ editions = 1 /\ sealedAt = 0 /\ info = record /\ call = [c \in Calls |-> Idle]
      /\ KeyOK(object, editions)
    BY DEF Created, KeyOK
<1>2. CallOK(Idle, 1, 0) /\ Idle.pc = "idle" /\ Idle.ending = "wrote"
    BY IdleOK
<1>3. Borne(Idle, 0, w)
    BY <1>2 DEF Borne, Places
<1> QED
    BY <1>1, <1>2, <1>3 DEF Sound, Core

\* One call moves, the rest only grows older.
LEMMA Grows ==
    ASSUME NEW w, Sound(w), NEW c \in Calls,
           DOMAIN call' = Calls, \A d \in Calls \ {c} : call'[d] = call[d],
           CallOK(call'[c], editions', sealedAt'), Borne(call'[c], sealedAt', w),
           editions' \in Nat, editions <= editions',
           sealedAt' \in Nat, sealedAt <= sealedAt', sealedAt' <= editions',
           KeyOK(object', editions'), InfoOK(info', sealedAt')
    PROVE  Sound(w)'
<1>1. ASSUME NEW d \in Calls
      PROVE  CallOK(call'[d], editions', sealedAt') /\ Borne(call'[d], sealedAt', w)
  <2>1. CASE d = c
    BY <2>1
  <2>2. CASE d # c
    <3>1. call'[d] = call[d] /\ CallOK(call[d], editions, sealedAt) /\ Borne(call[d], sealedAt, w)
      BY <2>2 DEF Sound, Core
    <3> QED BY <3>1, CallKept, BorneKept DEF Sound, Core
  <2> QED BY <2>1, <2>2
<1> QED BY <1>1 DEF Sound, Core

\* The key and the time of sealing stay.
LEMMA Moves ==
    ASSUME NEW w, Sound(w), NEW c \in Calls,
           DOMAIN call' = Calls, \A d \in Calls \ {c} : call'[d] = call[d],
           CallOK(call'[c], editions, sealedAt), Borne(call'[c], sealedAt, w),
           InfoOK(info', sealedAt), UNCHANGED <<key, sealedAt>>
    PROVE  Sound(w)'
    BY Grows DEF Sound, Core, key

\* A call begins, with the fields of an idle one but for a few.
LEMMA Starts ==
    ASSUME NEW w, Sound(w), NEW c \in Calls, NEW local, Begins(c, local),
           CallOK(local, editions, sealedAt), Borne(local, sealedAt, w),
           InfoOK(info', sealedAt), UNCHANGED <<key, sealedAt>>
    PROVE  Sound(w)'
<1>1. /\ DOMAIN call' = Calls /\ \A d \in Calls \ {c} : call'[d] = call[d]
      /\ call'[c] = local
    BY DEF Begins, Sound, Core
<1> QED BY <1>1, Moves

\* A call that settles forgets all but its claim and its answer.
LEMMA EndsIn ==
    ASSUME NEW w, Sound(w), NEW c \in Calls, NEW kind, NEW pc, NEW told,
           pc \notin Places(w), "wrote" \notin Places(w), Ends(c, kind, pc, told)
    PROVE  /\ DOMAIN call' = Calls /\ \A d \in Calls \ {c} : call'[d] = call[d]
           /\ CallOK(call'[c], editions, sealedAt) /\ Borne(call'[c], sealedAt, w)
<1>1. /\ DOMAIN call' = Calls /\ \A d \in Calls \ {c} : call'[d] = call[d]
      /\ CallOK(call'[c], editions, sealedAt)
      /\ call'[c].pc = pc /\ call'[c].ending = "wrote"
    BY IdleOK DEF Ends, CallOK, Fields, Sound, Core
<1> QED
    BY <1>1 DEF Borne, Places

\* A call that settles disturbs nothing, whatever it does to the record.
LEMMA EndsAs ==
    ASSUME NEW w, Sound(w), NEW c \in Calls, NEW kind, NEW pc, NEW told,
           pc \notin Places(w), "wrote" \notin Places(w),
           Ends(c, kind, pc, told), InfoOK(info', sealedAt), UNCHANGED <<key, sealedAt>>
    PROVE  Sound(w)'
    BY EndsIn, Moves

\* Locals change, but nothing of what the call knows of seals and editions.
LEMMA Changes ==
    ASSUME NEW w, Sound(w), NEW c \in Calls,
           DOMAIN call' = Calls, \A d \in Calls \ {c} : call'[d] = call[d],
           Fields \subseteq DOMAIN call'[c],
           call'[c].kind = call[c].kind, call'[c].destination = call[c].destination,
           call'[c].seal = call[c].seal, call'[c].record \in {call[c].record, None},
           call'[c].pc \notin Places(w), call'[c].ending \notin Places(w),
           InfoOK(info', sealedAt), UNCHANGED <<key, sealedAt>>
    PROVE  Sound(w)'
<1>1. CallOK(call'[c], editions, sealedAt) /\ Borne(call'[c], sealedAt, w)
    BY DEF Sound, Core, CallOK, Borne, Places, InfoOK
<1> QED
    BY <1>1, Moves

\* A call goes on to where it needs no seal.
LEMMA GoesTo ==
    ASSUME NEW w, Sound(w), NEW c \in Calls, NEW pc, pc \notin Places(w),
           Goes(c, pc), InfoOK(info', sealedAt), UNCHANGED <<key, sealedAt>>
    PROVE  Sound(w)'
<1>1. /\ DOMAIN call' = Calls /\ \A d \in Calls \ {c} : call'[d] = call[d]
      /\ Fields \subseteq DOMAIN call'[c] /\ call'[c].pc = pc
      /\ call'[c].kind = call[c].kind /\ call'[c].destination = call[c].destination
      /\ call'[c].seal = call[c].seal /\ call'[c].record = call[c].record
      /\ call'[c].ending = call[c].ending
    BY Parts DEF Goes, Fields
<1>2. call'[c].ending \notin Places(w)
    BY <1>1, Parts DEF Borne
<1> QED
    BY <1>1, <1>2, Changes

\* A write that landed unheard is about to be repeated.
LEMMA RepeatsAt ==
    ASSUME NEW w, Sound(w), NEW c \in Calls, Repeats(c),
           InfoOK(info', sealedAt), UNCHANGED <<key, sealedAt>>
    PROVE  Sound(w)'
<1>1. /\ DOMAIN call' = Calls /\ \A d \in Calls \ {c} : call'[d] = call[d]
      /\ Fields \subseteq DOMAIN call'[c] /\ call'[c].pc = call[c].pc
      /\ call'[c].kind = call[c].kind /\ call'[c].destination = call[c].destination
      /\ call'[c].seal = call[c].seal /\ call'[c].record = call[c].record
      /\ call'[c].ending = call[c].ending
    BY Parts DEF Repeats, Fields
<1>2. CallOK(call'[c], editions, sealedAt) /\ Borne(call'[c], sealedAt, w)
    BY <1>1, Parts DEF CallOK, Borne
<1> QED
    BY <1>1, <1>2, Moves

\* A call answers after the record says that the upload is dead.
LEMMA InvalidatesAs ==
    ASSUME NEW w, Sound(w), NEW c \in Calls, NEW answer, NEW told,
           {answer, "not-found", "wrote"} \cap Places(w) = {},
           Invalidates(c, answer, told), UNCHANGED <<key, sealedAt>>
    PROVE  Sound(w)'
<1>1. CASE info = None
    BY <1>1, EndsAs, Parts DEF Invalidates, Answers
<1>2. CASE info # None
    BY <1>2, EndsAs, Parts, LaidOK DEF Invalidates, Answers, Stored
<1> QED BY <1>1, <1>2

\* Other writers of the key, and calls that crash.
LEMMA StrangersAt ==
    ASSUME NEW w, Sound(w), StrangerWrites \/ StrangerRewrites \/ StrangerDeletes
    PROVE  Sound(w)'
<1>1. /\ UNCHANGED <<info, call, sealedAt>>
      /\ editions' \in Nat /\ editions <= editions' /\ KeyOK(object', editions')
    BY DEF StrangerWrites, StrangerRewrites, StrangerDeletes, KeyOK, Sound, Core
<1>2. \A c \in Calls : CallOK(call[c], editions', sealedAt)
    BY <1>1, CallKept DEF Sound, Core
<1> QED BY <1>1, <1>2 DEF Sound, Core

\* A call that dies leaves the rest as it is.
LEMMA CrashAt ==
    ASSUME NEW w, Sound(w), NEW c \in Calls, {"crashed", "wrote"} \cap Places(w) = {}, Crash(c)
    PROVE  Sound(w)'
<1>1. Ends(c, call[c].kind, "crashed", 0) /\ info' = info /\ UNCHANGED <<key, sealedAt>>
    BY DEF Crash, Answers, upload
<1> QED BY <1>1, EndsAs, Parts

-------------------------------------------------------------------------------
(* The gcs store *)

\* What is assumed of the constants, in its words.
LEMMA GcsAssumed ==
    /\ OverlapsIn["gcs"] \subseteq SUBSET Gcs!Kinds
    /\ UnheardIn["gcs"] \in BOOLEAN
    /\ LengthIn["gcs"] \in Nat /\ MaxEditions \in Nat
    /\ None \notin Calls
    BY StoresAssumption, CloudAssumption DEF Kinds, Gcs!Kinds

USE GcsAssumed

\* Where a completion goes by its seal.
GcsBearing == [seal |-> {"listing", "assembling"}, completing |-> {}, record |-> {}, read |-> {}]
GcsIInv == Sound(GcsBearing)

\* The steps of a call of the gcs store are those that all stores share.
LEMMA GcsCloud ==
    /\ Gcs!Idle = Idle /\ Gcs!key = key /\ Gcs!key' = key'
    /\ \A c, pc : Gcs!Goes(c, pc) <=> Goes(c, pc)
    /\ \A c, local : Gcs!Begins(c, local) <=> Begins(c, local)
    /\ \A c, kind, pc, told : Gcs!Ends(c, kind, pc, told) <=> Ends(c, kind, pc, told)
    /\ \A c, pc, told : Gcs!Answers(c, pc, told) <=> Answers(c, pc, told)
    /\ \A c : Gcs!Repeats(c) <=> Repeats(c)
    /\ \A c, answer, told : Gcs!Invalidates(c, answer, told) <=> Invalidates(c, answer, told)
    /\ \A c : Gcs!Crash(c) <=> Crash(c)
    /\ \A record, bytes : Gcs!Created(record, bytes) <=> Created(record, bytes)
    /\ \A record, patch : Gcs!Laid(record, patch) = Laid(record, patch)
    /\ Gcs!StrangerWrites <=> StrangerWrites
    /\ Gcs!StrangerDeletes <=> StrangerDeletes
    BY DEF Idle, key, Goes, Begins, Ends, Answers, Repeats, Invalidates, Crash, Created,
           Laid, StrangerWrites, StrangerDeletes, Running, upload, Stored, Settled,
           Invalid, Untouched, Gcs!Idle, Gcs!key, Gcs!Goes, Gcs!Begins, Gcs!Ends,
           Gcs!Answers, Gcs!Repeats, Gcs!Invalidates, Gcs!Crash, Gcs!Created, Gcs!Laid,
           Gcs!StrangerWrites, Gcs!StrangerDeletes, Gcs!Running, Gcs!upload, Gcs!Stored,
           Gcs!Settled, Gcs!Invalid, Gcs!Untouched

\* The places at which a completion needs its seal.
LEMMA GcsLocated == Places(GcsBearing) = {"listing", "assembling"}
    BY DEF GcsBearing, Places

\* Creation seals nothing.
LEMMA GcsInitIInv == Gcs!Init => GcsIInv
<1> SUFFICES ASSUME Gcs!Init PROVE GcsIInv
    OBVIOUS
<1> DEFINE record == [seal |-> None, invalid |-> FALSE, complete |-> FALSE, folded |-> 0]
<1>1. Gcs!Created(record, <<>>) /\ InfoOK(record, 0)
    BY DEF Gcs!Init, InfoOK, Readable
<1> QED
    BY <1>1, CreatedSound, GcsLocated, GcsCloud DEF GcsIInv

-------------------------------------------------------------------------------
(* appendChunk, foldSources *)

\* No step of an append, nor of the fold after it, touches a seal.
LEMMA GcsAppendingKeeps ==
    ASSUME GcsIInv, NEW c \in Calls, Gcs!Appending(c)
    PROVE  GcsIInv'
<1> USE Parts, GcsLocated, GcsCloud DEF GcsIInv
<1> DEFINE Same == UNCHANGED <<Gcs!key, sealedAt>>
<1>1. ASSUME NEW n \in 0..LengthIn["gcs"], Gcs!AppendBegins(c, n) PROVE GcsIInv'
  <2>1. /\ call' = [call EXCEPT ![c] = [Gcs!Idle EXCEPT !.kind = "append", !.pc = "streaming",
                       !.offset = n, !.index = Gcs!NextIndex, !.plan = Gcs!Sources]]
        /\ info' = info /\ Same
    BY <1>1 DEF Gcs!AppendBegins, Gcs!Begins, Gcs!upload
  <2>2. CallOK(call'[c], editions, sealedAt) /\ Borne(call'[c], sealedAt, GcsBearing)
    BY <2>1, IdleOK DEF CallOK, Fields, Borne, GcsBearing
  <2> QED BY <2>1, <2>2, Moves
<1>2. ASSUME NEW n \in 0..LengthIn["gcs"], Gcs!AppendRefused(c, n) PROVE GcsIInv'
  <2>1. \E pc, told : Gcs!Ends(c, "append", pc, told) /\ pc \notin Places(GcsBearing)
    BY <1>2 DEF Gcs!AppendRefused, Gcs!Bar
  <2>2. info' = info /\ Same
    BY <1>2 DEF Gcs!AppendRefused, Gcs!upload
  <2> QED BY <2>1, <2>2, EndsAs
<1>3. ASSUME NEW n \in 0..LengthIn["gcs"], Gcs!BodyLands(c, n) PROVE GcsIInv'
  <2>1. info' = info /\ Same
    BY <1>3 DEF Gcs!BodyLands
  <2>2. CASE Gcs!Goes(c, "fencing")
    BY <2>1, <2>2, GoesTo
  <2>3. CASE call' = [call EXCEPT ![c].pc = "fencing", ![c].size = n]
    BY <2>1, <2>3, Changes DEF Fields
  <2>4. CASE Gcs!Answers(c, "failed", 0)
    BY <2>1, <2>4, EndsAs DEF Gcs!Answers
  <2> QED BY <1>3, <2>2, <2>3, <2>4 DEF Gcs!BodyLands
<1>4. CASE Gcs!BodyOverruns(c)
  <2>1. Same /\ Gcs!Invalidates(c, "overrun", call[c].offset)
    BY <1>4 DEF Gcs!BodyOverruns
  <2> QED BY <2>1, InvalidatesAs
<1>5. CASE Gcs!FenceRefuses(c)
  <2>1. info' = info /\ Same
    BY <1>5 DEF Gcs!FenceRefuses, Gcs!upload
  <2>2. CASE Gcs!Answers(c, Gcs!Refusal(c), Gcs!SealedLength)
    BY <2>1, <2>2, EndsAs DEF Gcs!Answers, Gcs!Refusal, Gcs!Bar
  <2>3. CASE call' = [call EXCEPT ![c].pc = "dropping", ![c].ending = Gcs!Refusal(c),
                                 ![c].told = Gcs!SealedLength]
    <3>1. Gcs!Refusal(c) \notin Places(GcsBearing)
      BY DEF Gcs!Refusal, Gcs!Bar
    <3> QED BY <2>1, <2>3, <3>1, Changes DEF Fields
  <2> QED BY <1>5, <2>2, <2>3 DEF Gcs!FenceRefuses
<1>6. CASE Gcs!FencePasses(c)
  <2>1. info' = info /\ Same
    BY <1>6 DEF Gcs!FencePasses, Gcs!Stored
  <2>2. CASE Gcs!Goes(c, "folding")
    BY <2>1, <2>2, GoesTo
  <2>3. CASE Gcs!Answers(c, "wrote", Gcs!End(c))
    BY <2>1, <2>3, EndsAs DEF Gcs!Answers
  <2>4. CASE Gcs!Repeats(c)
    BY <2>1, <2>4, RepeatsAt
  <2> QED BY <1>6, <2>2, <2>3, <2>4 DEF Gcs!FencePasses
<1>7. CASE Gcs!DropChunk(c)
  <2>1. Gcs!Answers(c, call[c].ending, call[c].told) /\ info' = info /\ Same
    BY <1>7 DEF Gcs!DropChunk
  <2> QED BY <2>1, EndsAs DEF Gcs!Answers
<1>8. CASE Gcs!ComposeFold(c)
  <2>1. info' = info /\ Same
    BY <1>8 DEF Gcs!ComposeFold
  <2>2. CASE call' = [call EXCEPT ![c].pc = "noting", ![c].plan = Gcs!FirstOf(Gcs!Composed(c)),
                                  ![c].index = Gcs!FoldOf(Gcs!Composed(c)).index]
    BY <2>1, <2>2, Changes DEF Fields
  <2>3. CASE Gcs!Answers(c, "wrote", Gcs!End(c))
    BY <2>1, <2>3, EndsAs DEF Gcs!Answers
  <2> QED BY <1>8, <2>2, <2>3 DEF Gcs!ComposeFold
<1>9. CASE Gcs!NoteFold(c)
  <2>1. Same /\ InfoOK(info', sealedAt)
    BY <1>9 DEF Gcs!NoteFold, Gcs!Stored, Gcs!Notable, InfoOK, Readable
  <2>2. CASE Gcs!Goes(c, "unfolding")
    BY <2>1, <2>2, GoesTo
  <2>3. CASE Gcs!Answers(c, "wrote", Gcs!End(c))
    BY <2>1, <2>3, EndsAs DEF Gcs!Answers
  <2> QED BY <1>9, <2>2, <2>3 DEF Gcs!NoteFold
<1>10. CASE Gcs!DropFolded(c)
  <2>1. Gcs!Answers(c, "wrote", Gcs!End(c)) /\ info' = info /\ Same
    BY <1>10 DEF Gcs!DropFolded
  <2> QED BY <2>1, EndsAs DEF Gcs!Answers
<1> QED
    BY <1>1, <1>2, <1>3, <1>4, <1>5, <1>6, <1>7, <1>8, <1>9, <1>10 DEF Gcs!Appending

-------------------------------------------------------------------------------
(* completeUpload *)

\* A seal is resumed, or made anew with what its completion, or the first, saw.
LEMMA GcsSealKeeps ==
    ASSUME GcsIInv, NEW c \in Calls, Gcs!Seal(c)
    PROVE  GcsIInv'
<1> USE Parts, GcsLocated, GcsCloud DEF GcsIInv
<1>0. UNCHANGED Gcs!key
    BY DEF Gcs!Seal
<1>1. CASE Gcs!Over # "none" /\ Gcs!Answers(c, Gcs!Over, 0) /\ UNCHANGED <<info, fresh, sealedAt>>
  <2>1. Gcs!Over \notin Places(GcsBearing)
    BY DEF Gcs!Over
  <2> QED BY <1>0, <1>1, <2>1, EndsAs DEF Gcs!Answers
<1>2. CASE /\ Gcs!Over = "none" /\ Gcs!Resumes(c)
           /\ call' = [call EXCEPT ![c].pc = "listing", ![c].seal = info.seal]
           /\ UNCHANGED <<info, fresh, sealedAt>>
  <2>1. SealOK(info.seal, sealedAt)
    BY <1>2 DEF Gcs!Over, Gcs!Resumes, InfoOK, Readable
  <2>2. CallOK(call'[c], editions, sealedAt) /\ Borne(call'[c], sealedAt, GcsBearing)
    BY <1>2, <2>1 DEF CallOK, Fields, Borne, GcsBearing
  <2> QED BY <1>0, <1>2, <2>2, Moves
\* What this completion saw at the key has been there by now.
<1>3. CASE /\ Gcs!Over = "none" /\ ~Gcs!Resumes(c)
           /\ Gcs!Stored([info EXCEPT !.seal = Gcs!SealOf(c)])
           /\ sealedAt' = IF info.seal = None THEN editions ELSE sealedAt
           /\ \/ call' = [call EXCEPT ![c].pc = "listing", ![c].seal = Gcs!SealOf(c)]
              \/ Gcs!MayRepeat(c) /\ Gcs!Repeats(c)
  <2>1. sealedAt' \in Nat /\ sealedAt <= sealedAt' /\ sealedAt' <= editions
    BY <1>3
  <2>2. SealOK(Gcs!SealOf(c), sealedAt')
    <3>1. CASE info.seal = None
      BY <1>3, <3>1 DEF Gcs!SealOf, Gcs!FirstDestination, SealOK, CallOK
    <3>2. CASE info.seal # None
      BY <1>3, <3>2
      DEF Gcs!SealOf, Gcs!FirstDestination, SealOK, InfoOK, Readable, Gcs!Over
    <3> QED BY <3>1, <3>2
  <2>3. InfoOK(info', sealedAt')
    BY <1>3, <2>2 DEF InfoOK, Readable, Gcs!Stored, Gcs!Over
  <2>4. CallOK(call[c], editions, sealedAt')
    BY <2>1, CallKept
  <2>5. /\ DOMAIN call' = Calls /\ \A d \in Calls \ {c} : call'[d] = call[d]
        /\ CallOK(call'[c], editions, sealedAt')
        /\ Borne(call'[c], sealedAt', GcsBearing)
    <3>1. CASE call' = [call EXCEPT ![c].pc = "listing", ![c].seal = Gcs!SealOf(c)]
      BY <2>2, <2>4, <3>1 DEF CallOK, Fields, Borne, GcsBearing
    <3>2. CASE Gcs!Repeats(c)
      BY <2>1, <2>4, <3>2, SealKept
      DEF CallOK, Fields, Gcs!Repeats, Borne, GcsBearing
    <3> QED BY <1>3, <3>1, <3>2
  <2> QED BY <1>0, <2>1, <2>3, <2>5, Grows DEF Gcs!key
<1> QED BY <1>1, <1>2, <1>3 DEF Gcs!Seal

\* The copy, the one step of a completion that changes the key.
LEMMA GcsPublishKeeps ==
    ASSUME GcsIInv, NEW c \in Calls, Gcs!Publish(c)
    PROVE  GcsIInv'
<1> USE Parts, GcsLocated, GcsCloud DEF GcsIInv
<1>1. info' = info /\ sealedAt' = sealedAt
    BY DEF Gcs!Publish, Gcs!upload
<1>2. /\ DOMAIN call' = Calls /\ \A d \in Calls \ {c} : call'[d] = call[d]
      /\ CallOK(call'[c], editions, sealedAt) /\ Borne(call'[c], sealedAt, GcsBearing)
  <2>1. CASE Gcs!Records(c)
    BY <2>1 DEF Gcs!Records, CallOK, Fields, Borne, GcsBearing
  <2>2. CASE Gcs!Goes(c, "refused")
    BY <2>2, Parts DEF Gcs!Goes, CallOK, Fields, Borne, GcsBearing
  <2> QED BY <2>1, <2>2 DEF Gcs!Publish
<1>3. CASE UNCHANGED Gcs!key
    BY <1>1, <1>2, <1>3, Moves
<1>4. CASE Gcs!Publishes(call[c].seal.id, Gcs!Joined(call[c].plan))
  <2>1. editions' = editions + 1 /\ KeyOK(object', editions')
    BY <1>4 DEF Gcs!Publishes, KeyOK
  <2>2. CallOK(call'[c], editions', sealedAt)
    BY <1>2, <2>1, CallKept
  <2> QED BY <1>1, <1>2, <2>1, <2>2, Grows
<1> QED BY <1>3, <1>4 DEF Gcs!Publish

\* Every step of a completion preserves the invariant.
LEMMA GcsCompletingKeeps ==
    ASSUME GcsIInv, NEW c \in Calls, Gcs!Completing(c)
    PROVE  GcsIInv'
<1> USE Parts, GcsLocated, GcsCloud DEF GcsIInv
<1> DEFINE Same == UNCHANGED <<Gcs!key, sealedAt>>
<1>1. ASSUME NEW n \in 0..LengthIn["gcs"], Gcs!CompleteBegins(c, n) PROVE GcsIInv'
  <2>1. info' = info /\ Same
    BY <1>1 DEF Gcs!CompleteBegins, Gcs!upload
  <2>2. CASE Gcs!Over # "none" /\ Gcs!Ends(c, "complete", Gcs!Over, 0)
    <3>1. Gcs!Over \notin Places(GcsBearing)
      BY DEF Gcs!Over
    <3> QED BY <2>1, <2>2, <3>1, EndsAs
  <2>3. CASE Gcs!Over = "none" /\ Gcs!Begins(c, [Gcs!Idle EXCEPT !.kind = "complete", !.expected = n,
                           !.seal = info.seal,
                           !.pc = IF info.seal = None THEN "inspecting" ELSE "adopting"])
    <3>1. CallOK(call'[c], editions, sealedAt) /\ Borne(call'[c], sealedAt, GcsBearing)
      BY <2>3, IdleOK
      DEF Gcs!Begins, CallOK, Fields, Gcs!Over, InfoOK, Readable, Borne,
          GcsBearing
    <3> QED BY <2>1, <2>3, <3>1, Moves DEF Gcs!Begins
  <2> QED BY <1>1, <2>2, <2>3 DEF Gcs!CompleteBegins
<1>2. CASE Gcs!Adopt(c)
  <2>1. info' = info /\ Same
    BY <1>2 DEF Gcs!Adopt, Gcs!upload
  <2>2. CASE Gcs!Goes(c, "inspecting")
    BY <2>1, <2>2, GoesTo
  <2>3. CASE call' = [call EXCEPT ![c].pc = "recording", ![c].told = call[c].seal.length,
                        ![c].ending = IF call[c].seal.length = call[c].expected
                                      THEN "complete" ELSE "conflict"]
    BY <2>1, <2>3, Changes DEF Fields
  <2> QED BY <1>2, <2>2, <2>3 DEF Gcs!Adopt
<1>3. CASE Gcs!Inspect(c)
  <2>1. Gcs!EditionOf(object) \in Nat /\ Gcs!EditionOf(object) <= editions
    BY DEF Gcs!EditionOf, KeyOK
  <2>2. CallOK(call'[c], editions, sealedAt) /\ Borne(call'[c], sealedAt, GcsBearing)
    BY <1>3, <2>1 DEF Gcs!Inspect, CallOK, Fields, Borne, GcsBearing
  <2> QED BY <1>3, <2>2, Moves DEF Gcs!Inspect, Gcs!upload
<1>4. CASE Gcs!Seal(c)
  BY <1>4, GcsSealKeeps
<1>5. CASE Gcs!Snapshot(c)
  <2>1. call' = [call EXCEPT ![c].plan = Gcs!Sources, ![c].told = Len(Gcs!Content),
                            ![c].pc = IF Len(Gcs!Content) = call[c].expected
                                      THEN "assembling" ELSE "lifting"]
    BY <1>5 DEF Gcs!Snapshot
  <2> QED BY <1>5, <2>1, Changes DEF Gcs!Snapshot, Gcs!upload, Fields
<1>6. CASE Gcs!LiftSeal(c)
  <2>1. InfoOK(info', sealedAt) /\ Same
    BY <1>6 DEF Gcs!LiftSeal, Gcs!Stored, InfoOK, Readable
  <2> QED BY <1>6, <2>1, EndsAs DEF Gcs!LiftSeal, Gcs!Answers
<1>7. CASE Gcs!Assemble(c)
  <2>1. info' = info /\ Same
    BY <1>7 DEF Gcs!Assemble
  <2>2. /\ DOMAIN call' = Calls /\ \A d \in Calls \ {c} : call'[d] = call[d]
        /\ Fields \subseteq DOMAIN call'[c] /\ call'[c].record = call[c].record
        /\ call'[c].destination = call[c].destination /\ call'[c].seal = call[c].seal
        /\ call'[c].pc \in {call[c].pc, "rescuing"}
        /\ call'[c].ending \in {call[c].ending, "failed"}
    BY <1>7 DEF Gcs!Assemble, Fields
  <2>3. CallOK(call'[c], editions, sealedAt) /\ Borne(call'[c], sealedAt, GcsBearing)
    BY <2>2 DEF CallOK, Borne, GcsBearing
  <2> QED BY <2>1, <2>2, <2>3, Moves
<1>8. CASE Gcs!Publish(c)
  BY <1>8, GcsPublishKeeps
<1>9. CASE Gcs!PlanIsGone(c)
  <2>1. info' = info /\ Same
    BY <1>9 DEF Gcs!PlanIsGone, Gcs!upload
  <2> QED BY <1>9, <2>1, Changes DEF Gcs!PlanIsGone, Fields
<1>10. CASE Gcs!Refused(c)
  <2>1. info' = info /\ Same
    BY <1>10 DEF Gcs!Refused, Gcs!upload
  <2> QED BY <1>10, <2>1, Changes DEF Gcs!Refused, Gcs!Records, Fields
<1>11. CASE Gcs!Rescue(c)
  <2>1. info' = info /\ Same
    BY <1>11 DEF Gcs!Rescue, Gcs!upload
  <2> QED BY <1>11, <2>1, EndsAs DEF Gcs!Rescue, Gcs!Answers
<1>12. CASE Gcs!Record(c)
  <2>1. Same
    BY <1>12 DEF Gcs!Record
  <2>2. InfoOK(info', sealedAt)
    BY <1>12, LaidOK DEF Gcs!Record, Gcs!Stored
  <2>3. CASE Gcs!Answers(c, "not-found", 0)
    BY <2>1, <2>2, <2>3, EndsAs DEF Gcs!Answers
  <2>4. CASE Gcs!Goes(c, "cleaning")
    BY <2>1, <2>2, <2>4, GoesTo
  <2>5. CASE Gcs!Repeats(c)
    BY <2>1, <2>2, <2>5, RepeatsAt
  <2> QED BY <1>12, <2>3, <2>4, <2>5 DEF Gcs!Record
<1>13. CASE Gcs!Clean(c)
  <2>1. info' = info /\ Same
    BY <1>13 DEF Gcs!Clean
  <2> QED BY <1>13, <2>1, EndsAs DEF Gcs!Clean, Gcs!Answers
<1> QED
    BY <1>1, <1>2, <1>3, <1>4, <1>5, <1>6, <1>7, <1>8, <1>9, <1>10, <1>11, <1>12, <1>13
    DEF Gcs!Completing

-------------------------------------------------------------------------------
(* The other calls, other writers, crashes *)

\* So do probes, cancels and crashes.
LEMMA GcsOthersKeep ==
    ASSUME GcsIInv, NEW c \in Calls, Gcs!Probe(c) \/ Gcs!Discarding(c) \/ Gcs!Crash(c)
    PROVE  GcsIInv'
<1> USE Parts, GcsLocated, GcsCloud DEF GcsIInv
<1>1. CASE Gcs!Probe(c)
  BY <1>1, EndsAs DEF Gcs!Probe, Gcs!upload
<1>2. CASE Gcs!DiscardReads(c)
  <2>1. info' = info /\ UNCHANGED <<Gcs!key, sealedAt>>
    BY <1>2 DEF Gcs!DiscardReads
  <2>2. CASE Gcs!Ends(c, "discard", "discarded", 0)
    BY <2>1, <2>2, EndsAs
  <2>3. CASE Gcs!Begins(c, [Gcs!Idle EXCEPT !.kind = "discard", !.pc = "clearing"])
    <3>1. CallOK(call'[c], editions, sealedAt) /\ Borne(call'[c], sealedAt, GcsBearing)
      BY <2>3, IdleOK DEF Gcs!Begins, CallOK, Fields, Borne, GcsBearing
    <3> QED BY <2>1, <2>3, <3>1, Moves DEF Gcs!Begins
  <2> QED BY <1>2, <2>2, <2>3 DEF Gcs!DiscardReads
<1>3. CASE Gcs!DiscardClears(c)
  BY <1>3, GoesTo DEF Gcs!DiscardClears
<1>4. CASE Gcs!DiscardForgets(c)
  <2>1. InfoOK(info', sealedAt) /\ UNCHANGED <<Gcs!key, sealedAt>>
    BY <1>4 DEF Gcs!DiscardForgets, InfoOK, Readable
  <2> QED BY <1>4, <2>1, GoesTo, EndsAs DEF Gcs!DiscardForgets, Gcs!Answers
<1>5. CASE Gcs!Crash(c)
  BY <1>5, CrashAt
<1> QED BY <1>1, <1>2, <1>3, <1>4, <1>5 DEF Gcs!Discarding

\* The invariant is inductive.
LEMMA GcsNextIInv == GcsIInv /\ [Gcs!Next]_Gcs!vars => GcsIInv'
<1> SUFFICES ASSUME GcsIInv, [Gcs!Next]_Gcs!vars PROVE GcsIInv'
    OBVIOUS
<1>1. CASE UNCHANGED Gcs!vars
  BY <1>1 DEF GcsIInv, Sound, Core, Gcs!vars, Gcs!upload, Gcs!key
<1>2. CASE Gcs!Next
  BY <1>2, GcsAppendingKeeps, GcsCompletingKeeps, GcsOthersKeep, StrangersAt, GcsCloud
  DEF Gcs!Next, GcsIInv
<1> QED BY <1>1, <1>2

(***************************************************************************)
(* Only a copy puts an object of the upload at the key, and it is held to  *)
(* the state its seal recorded.                                            *)
(***************************************************************************)
LEMMA GcsOnlyOverTheSealed ==
    ASSUME GcsIInv, [Gcs!Next]_Gcs!vars,
           object' # object, object' # None, object'.publication # None
    PROVE  object = None \/ object.edition <= sealedAt
<1>1. \/ Gcs!StrangerWrites \/ Gcs!StrangerDeletes
      \/ \E c \in Calls : \/ Gcs!Appending(c) \/ Gcs!Completing(c)
                          \/ Gcs!Probe(c) \/ Gcs!Discarding(c) \/ Gcs!Crash(c)
    BY DEF Gcs!Next, Gcs!vars, Gcs!key
<1>2. ~Gcs!StrangerWrites /\ ~Gcs!StrangerDeletes
    BY DEF Gcs!StrangerWrites, Gcs!StrangerDeletes
<1>3. PICK c \in Calls : \/ Gcs!Appending(c) \/ Gcs!Completing(c)
                         \/ Gcs!Probe(c) \/ Gcs!Discarding(c) \/ Gcs!Crash(c)
    BY <1>1, <1>2
<1>4. ~Gcs!Appending(c)
    BY Zenon DEF Gcs!Appending, Gcs!AppendBegins, Gcs!AppendRefused, Gcs!BodyLands, Gcs!BodyOverruns,
           Gcs!FenceRefuses, Gcs!FencePasses, Gcs!DropChunk, Gcs!ComposeFold, Gcs!NoteFold,
           Gcs!DropFolded, Gcs!key
<1>5. ~Gcs!Probe(c) /\ ~Gcs!Discarding(c) /\ ~Gcs!Crash(c)
    BY SMTT(30) DEF Gcs!Probe, Gcs!Discarding, Gcs!DiscardReads, Gcs!DiscardClears, Gcs!DiscardForgets,
           Gcs!Crash, Gcs!key
<1>6. Gcs!Publish(c)
    BY Zenon, <1>3, <1>4, <1>5
    DEF Gcs!Completing, Gcs!CompleteBegins, Gcs!Adopt, Gcs!Inspect, Gcs!Seal, Gcs!Snapshot,
        Gcs!LiftSeal, Gcs!Assemble, Gcs!PlanIsGone, Gcs!Refused, Gcs!Rescue, Gcs!Record,
        Gcs!Clean, Gcs!key
<1>7. call[c].pc = "assembling" /\ Gcs!EditionOf(object) = call[c].seal.destination
    BY <1>6 DEF Gcs!Publish, Gcs!Permitted, Gcs!Assembled, Gcs!key
<1>8. SealOK(call[c].seal, sealedAt)
    BY <1>7, Parts DEF GcsIInv, Borne, GcsBearing
<1> QED BY <1>7, <1>8 DEF Gcs!EditionOf, SealOK

(***************************************************************************)
(* A publication of the gcs store never replaces what another writer put   *)
(* at the key after the upload was sealed, whoever crashes, loses its lock *)
(* or does not hear an answer.                                             *)
(***************************************************************************)
THEOREM GcsNeverBlind == Gcs!Spec => NoBlindOverwrite
<1>1. GcsIInv /\ [Gcs!Next]_Gcs!vars =>
        [(object' # object /\ object' # None /\ object'.publication # None /\ ~Windowed)
          => object = None \/ object.edition <= sealedAt]_vars
    BY GcsOnlyOverTheSealed
<1> QED BY <1>1, GcsInitIInv, GcsNextIInv, PTL DEF Gcs!Spec, NoBlindOverwrite

HIDE GcsAssumed

-------------------------------------------------------------------------------
(* The azure store *)

\* What is assumed of the constants, in its words.
LEMMA AzureAssumed ==
    /\ OverlapsIn["azure"] \subseteq SUBSET Azure!Kinds
    /\ UnheardIn["azure"] \in BOOLEAN
    /\ LengthIn["azure"] \in Nat /\ MaxEditions \in Nat
    /\ None \notin Calls
    BY StoresAssumption, CloudAssumption DEF Kinds, Azure!Kinds

USE AzureAssumed

\* A completion lists under its seal, and commits under it.
AzureBearing == [seal |-> {"publishing"}, completing |-> {"listing"}, record |-> {}, read |-> {}]
AzureIInv == Sound(AzureBearing)

\* The steps of a call of the azure store are those that all stores share.
LEMMA AzureCloud ==
    /\ Azure!Idle = Idle /\ Azure!key = key /\ Azure!key' = key'
    /\ \A c, pc : Azure!Goes(c, pc) <=> Goes(c, pc)
    /\ \A c, local : Azure!Begins(c, local) <=> Begins(c, local)
    /\ \A c, kind, pc, told : Azure!Ends(c, kind, pc, told) <=> Ends(c, kind, pc, told)
    /\ \A c, pc, told : Azure!Answers(c, pc, told) <=> Answers(c, pc, told)
    /\ \A c : Azure!Repeats(c) <=> Repeats(c)
    /\ \A c, answer, told : Azure!Invalidates(c, answer, told) <=> Invalidates(c, answer, told)
    /\ \A c : Azure!Crash(c) <=> Crash(c)
    /\ \A record, bytes : Azure!Created(record, bytes) <=> Created(record, bytes)
    /\ \A record, patch : Azure!Laid(record, patch) = Laid(record, patch)
    /\ Azure!StrangerWrites <=> StrangerWrites
    /\ Azure!StrangerDeletes <=> StrangerDeletes
    BY DEF Idle, key, Goes, Begins, Ends, Answers, Repeats, Invalidates, Crash, Created,
           Laid, StrangerWrites, StrangerDeletes, Running, upload, Stored, Settled,
           Invalid, Untouched, Azure!Idle, Azure!key, Azure!Goes, Azure!Begins, Azure!Ends,
           Azure!Answers, Azure!Repeats, Azure!Invalidates, Azure!Crash, Azure!Created,
           Azure!Laid, Azure!StrangerWrites, Azure!StrangerDeletes, Azure!Running,
           Azure!upload, Azure!Stored, Azure!Settled, Azure!Invalid, Azure!Untouched

\* The places at which a completion needs its seal.
LEMMA AzureLocated == Places(AzureBearing) = {"publishing", "listing"}
    BY DEF AzureBearing, Places

\* Creation seals nothing.
LEMMA AzureInitIInv == Azure!Init => AzureIInv
<1> SUFFICES ASSUME Azure!Init PROVE AzureIInv
    OBVIOUS
<1> DEFINE record == [seal |-> None, invalid |-> FALSE, complete |-> FALSE,
                      blocks |-> 0, bytes |-> 0]
<1>1. Azure!Created(record, [sentinel |-> TRUE, blocks |-> <<>>]) /\ InfoOK(record, 0)
    BY DEF Azure!Init, InfoOK, Readable
<1> QED
    BY <1>1, CreatedSound, AzureLocated, AzureCloud DEF AzureIInv

-------------------------------------------------------------------------------
(* What a call of several kinds may do *)

\* A record that bars a call answers it.
LEMMA AzureBarredKeeps ==
    ASSUME AzureIInv, NEW c \in Calls, Azure!Barred(c), UNCHANGED <<info, Azure!key, sealedAt>>
    PROVE  AzureIInv'
<1>1. Azure!Bar \notin Places(AzureBearing)
    BY AzureLocated DEF Azure!Bar
<1> QED BY <1>1, Parts, AzureLocated, EndsAs, AzureCloud
        DEF AzureIInv, Azure!Barred, Azure!Answers

\* The same of an index that was accepted already.
LEMMA AzureRefusesKeeps ==
    ASSUME AzureIInv, NEW c \in Calls, Azure!Refuses(c), UNCHANGED <<info, Azure!key, sealedAt>>
    PROVE  AzureIInv'
    BY AzureBarredKeeps, Parts, AzureLocated, EndsAs, AzureCloud
    DEF AzureIInv, Azure!Refuses, Azure!Answers

\* The verdict that what was staged is lost.
LEMMA AzureCondemnsKeeps ==
    ASSUME AzureIInv, NEW c \in Calls, Azure!Condemns(c), UNCHANGED <<info, Azure!key, sealedAt>>
    PROVE  AzureIInv'
    BY Parts, AzureLocated, Changes, AzureCloud DEF AzureIInv, Azure!Condemns, Fields

\* The record says so before the answer.
LEMMA AzureCondemnKeeps ==
    ASSUME AzureIInv, NEW c \in Calls, Azure!Condemn(c)
    PROVE  AzureIInv'
<1> USE Parts, AzureLocated, AzureCloud DEF AzureIInv
<1>1. UNCHANGED <<Azure!key, sealedAt>>
    BY DEF Azure!Condemn
<1>2. CASE Azure!Answers(c, "settled", 0) /\ UNCHANGED <<info, fresh>>
    BY <1>1, <1>2, EndsAs DEF Azure!Answers
<1>3. CASE Azure!Invalidates(c, "settled", 0) \/ Azure!Invalidates(c, "failed", 0)
    BY <1>1, <1>3, InvalidatesAs
<1> QED BY <1>2, <1>3 DEF Azure!Condemn

-------------------------------------------------------------------------------
(* appendChunk, stagePending *)

\* No step of an append touches a seal.
LEMMA AzureAppendingKeeps ==
    ASSUME AzureIInv, NEW c \in Calls, Azure!Appending(c)
    PROVE  AzureIInv'
<1> USE Parts, AzureLocated, AzureCloud DEF AzureIInv
<1> DEFINE Same == UNCHANGED <<Azure!key, sealedAt>>
<1>1. ASSUME NEW n \in 0..LengthIn["azure"], Azure!AppendReads(c, n) PROVE AzureIInv'
  <2>1. info' = info /\ Same
    BY <1>1 DEF Azure!AppendReads, Azure!upload
  <2>2. CASE Azure!Ends(c, "append", Azure!Bar, Azure!SealedLength)
    <3>1. Azure!Bar \notin Places(AzureBearing)
      BY DEF Azure!Bar
    <3> QED BY <2>1, <2>2, <3>1, EndsAs
  <2>3. CASE Azure!Begins(c, [Azure!Idle EXCEPT !.kind = "append", !.pc = "listing", !.offset = n,
                                    !.record = info])
    <3>1. /\ CallOK(call'[c], editions, sealedAt)
          /\ Borne(call'[c], sealedAt, AzureBearing)
      BY <2>3, IdleOK
      DEF Azure!Begins, CallOK, Fields, Borne, AzureBearing
    <3> QED BY <2>1, <2>3, <3>1, Moves DEF Azure!Begins
  <2> QED BY <1>1, <2>2, <2>3 DEF Azure!AppendReads
<1>2. CASE Azure!AppendLists(c)
  <2>1. info' = info /\ Same
    BY <1>2 DEF Azure!AppendLists, Azure!upload
  <2>2. CASE Azure!Condemns(c)
    BY <2>1, <2>2, AzureCondemnsKeeps
  <2>3. CASE Azure!Answers(c, "conflict", Len(Azure!Content))
    BY <2>1, <2>3, EndsAs DEF Azure!Answers
  <2>4. CASE call' = [call EXCEPT ![c].pc = "streaming", ![c].index = Azure!NextIndex,
                                 ![c].record = None]
    BY <2>1, <2>4, Changes DEF Fields
  <2> QED BY <1>2, <2>2, <2>3, <2>4 DEF Azure!AppendLists
<1>3. ASSUME NEW n \in 0..LengthIn["azure"], Azure!BlockFills(c, n) PROVE AzureIInv'
  BY <1>3, Changes DEF Azure!BlockFills, Azure!upload, Fields
<1>4. CASE Azure!CheckIndex(c)
  <2>1. info' = info /\ Same
    BY <1>4 DEF Azure!CheckIndex, Azure!upload
  <2> QED BY <1>4, <2>1, AzureRefusesKeeps, GoesTo DEF Azure!CheckIndex
<1>5. CASE Azure!StageBlock(c)
  <2>1. info' = info /\ Same /\ Azure!Goes(c, "accepting")
    BY <1>5 DEF Azure!StageBlock
  <2> QED BY <2>1, GoesTo
<1>6. CASE Azure!Accept(c)
  <2>1. Same /\ InfoOK(info', sealedAt)
    BY <1>6 DEF Azure!Accept, Azure!Fenced, Azure!Bar, Azure!Stored, InfoOK, Readable
  <2>2. CASE call' = [call EXCEPT ![c].pc = "streaming", ![c].size = @ + call[c].pending,
                               ![c].index = @ + 1, ![c].pending = 0]
    BY <2>1, <2>2, Changes, ZenonT(60) DEF Fields
  <2>3. CASE Azure!Repeats(c)
    BY <2>1, <2>3, RepeatsAt
  <2> QED BY <1>6, <2>2, <2>3 DEF Azure!Accept
<1>7. CASE Azure!AcceptRefused(c)
  <2>1. info' = info /\ Same
    BY <1>7 DEF Azure!AcceptRefused, Azure!upload
  <2>2. CASE call' = [call EXCEPT ![c].pc = "emptying", ![c].ending = "not-found"]
    BY <2>1, <2>2, Changes DEF Fields
  <2>3. CASE Azure!Refuses(c)
    BY <2>1, <2>3, AzureRefusesKeeps
  <2> QED BY <1>7, <2>2, <2>3 DEF Azure!AcceptRefused
<1>8. CASE Azure!BodyEnds(c)
  <2>1. Same
    BY <1>8 DEF Azure!BodyEnds
  <2>2. CASE Azure!Answers(c, "wrote", Azure!End(c)) /\ (info' = info \/ Azure!Stored(info))
    BY <2>1, <2>2, EndsAs DEF Azure!Answers, Azure!Stored
  <2>3. CASE Azure!Barred(c) /\ info' = info
    BY <2>1, <2>3, AzureBarredKeeps
  <2> QED BY <1>8, <2>2, <2>3 DEF Azure!BodyEnds
<1>9. CASE Azure!BodyOverruns(c)
  <2>1. Same /\ Azure!Invalidates(c, "overrun", Azure!End(c))
    BY <1>9 DEF Azure!BodyOverruns
  <2> QED BY <2>1, InvalidatesAs
<1> QED
    BY <1>1, <1>2, <1>3, <1>4, <1>5, <1>6, <1>7, <1>8, <1>9 DEF Azure!Appending

-------------------------------------------------------------------------------
(* completeUpload *)

\* The seal a completion makes or re-points keeps what it first saw at the key.
LEMMA AzureSealKeeps ==
    ASSUME AzureIInv, NEW c \in Calls, Azure!Seal(c)
    PROVE  AzureIInv'
<1> USE Parts, AzureLocated, AzureCloud DEF AzureIInv
<1>0. UNCHANGED Azure!key
    BY DEF Azure!Seal
<1>1. CASE Azure!Over # "none" /\ Azure!Answers(c, Azure!Over, 0) /\ UNCHANGED <<info, fresh, sealedAt>>
  <2>1. Azure!Over \notin Places(AzureBearing)
    BY DEF Azure!Over
  <2> QED BY <1>0, <1>1, <2>1, EndsAs DEF Azure!Answers
<1>2. CASE /\ Azure!Over = "none"
           /\ Azure!Stored([info EXCEPT !.seal = Azure!SealOf(c)])
           /\ sealedAt' = IF info.seal = None THEN editions ELSE sealedAt
           /\ \/ call' = [call EXCEPT ![c].pc = "listing", ![c].seal = Azure!SealOf(c),
                                     ![c].record = info']
              \/ Azure!MayRepeat(c) /\ Azure!Repeats(c)
  <2>1. sealedAt' \in Nat /\ sealedAt <= sealedAt' /\ sealedAt' <= editions
    BY <1>2
  <2>2. SealOK(Azure!SealOf(c), sealedAt')
    <3>1. CASE info.seal = None
      BY <1>2, <3>1 DEF Azure!SealOf, SealOK, CallOK
    <3>2. CASE info.seal # None
      BY <1>2, <3>2 DEF Azure!SealOf, SealOK, InfoOK, Readable, Azure!Over
    <3> QED BY <3>1, <3>2
  <2>3. InfoOK(info', sealedAt')
    BY <1>2, <2>2 DEF InfoOK, Readable, Azure!Stored, Azure!Over
  <2>4. CallOK(call[c], editions, sealedAt')
    BY <2>1, CallKept
  <2>5. /\ DOMAIN call' = Calls /\ \A d \in Calls \ {c} : call'[d] = call[d]
        /\ CallOK(call'[c], editions, sealedAt')
        /\ Borne(call'[c], sealedAt', AzureBearing)
    <3>1. CASE call' = [call EXCEPT ![c].pc = "listing", ![c].seal = Azure!SealOf(c), ![c].record = info']
      BY <2>2, <2>3, <2>4, <3>1 DEF CallOK, Fields, Borne, AzureBearing
    <3>2. CASE Azure!Repeats(c)
      BY <2>1, <2>4, <3>2, SealKept
      DEF CallOK, Fields, Azure!Repeats, Borne, AzureBearing
    <3> QED BY <1>2, <3>1, <3>2
  <2> QED BY <1>0, <2>1, <2>3, <2>5, Grows DEF Azure!key
<1> QED BY <1>1, <1>2 DEF Azure!Seal

\* The commit, the one step of a completion that changes the key.
LEMMA AzurePublishKeeps ==
    ASSUME AzureIInv, NEW c \in Calls, Azure!Publish(c)
    PROVE  AzureIInv'
<1> USE Parts, AzureLocated, AzureCloud DEF AzureIInv
<1>1. info' = info /\ sealedAt' = sealedAt
    BY DEF Azure!Publish
<1>2. /\ DOMAIN call' = Calls /\ \A d \in Calls \ {c} : call'[d] = call[d]
      /\ CallOK(call'[c], editions, sealedAt)
      /\ Borne(call'[c], sealedAt, AzureBearing)
  <2>1. CASE Azure!Publishing(c)
    BY <2>1 DEF Azure!Publishing, CallOK, Fields, Borne, AzureBearing
  <2>2. CASE Azure!Goes(c, "refused")
    BY <2>2 DEF Azure!Goes, CallOK, Fields, Borne, AzureBearing
  <2>3. CASE Azure!Answers(c, "failed", 0)
    BY <2>3, IdleOK, ZenonT(60)
    DEF Azure!Answers, Azure!Ends, CallOK, Fields, Borne, AzureBearing
  <2> QED BY <2>1, <2>2, <2>3 DEF Azure!Publish
<1>3. CASE UNCHANGED Azure!key
    BY <1>1, <1>2, <1>3, Moves
<1>4. CASE Azure!Publishes(call[c].seal.id, Azure!Joined(call[c].plan))
  <2>1. editions' = editions + 1 /\ KeyOK(object', editions')
    BY <1>4 DEF Azure!Publishes, KeyOK
  <2>2. CallOK(call'[c], editions', sealedAt)
    BY <1>2, <2>1, CallKept
  <2> QED BY <1>1, <1>2, <2>1, <2>2, Grows
<1> QED BY <1>3, <1>4 DEF Azure!Publish

\* Every step of a completion preserves the invariant.
LEMMA AzureCompletingKeeps ==
    ASSUME AzureIInv, NEW c \in Calls, Azure!Completing(c)
    PROVE  AzureIInv'
<1> USE Parts, AzureLocated, AzureCloud DEF AzureIInv
<1> DEFINE Same == UNCHANGED <<Azure!key, sealedAt>>
<1>1. ASSUME NEW n \in 0..LengthIn["azure"], Azure!CompleteReads(c, n) PROVE AzureIInv'
  <2>1. info' = info /\ Same
    BY <1>1 DEF Azure!CompleteReads, Azure!upload
  <2>2. CASE Azure!Over # "none" /\ Azure!Ends(c, "complete", Azure!Over, 0)
    <3>1. Azure!Over \notin Places(AzureBearing)
      BY DEF Azure!Over
    <3> QED BY <2>1, <2>2, <3>1, EndsAs
  <2>3. CASE Azure!Over = "none" /\ Azure!Begins(c, [Azure!Idle EXCEPT !.kind = "complete", !.pc = "inspecting",
                                   !.expected = n, !.seal = info.seal])
    <3>1. /\ CallOK(call'[c], editions, sealedAt)
          /\ Borne(call'[c], sealedAt, AzureBearing)
      BY <2>3, IdleOK
      DEF Azure!Begins, CallOK, Fields, Azure!Over, InfoOK, Readable,
          Borne, AzureBearing
    <3> QED BY <2>1, <2>3, <3>1, Moves DEF Azure!Begins
  <2> QED BY <1>1, <2>2, <2>3 DEF Azure!CompleteReads
<1>2. CASE Azure!Inspect(c)
  <2>1. info' = info /\ Same
    BY <1>2 DEF Azure!Inspect, Azure!upload
  <2>2. CASE Azure!Adopts(c)
    BY <2>1, <2>2, Changes DEF Azure!Adopts, Fields
  <2>3. CASE call' = [call EXCEPT ![c].pc = "sealing", ![c].destination = Azure!EditionOf(object)]
    <3>1. Azure!EditionOf(object) \in Nat /\ Azure!EditionOf(object) <= editions
      BY DEF Azure!EditionOf, KeyOK
    <3>2. /\ CallOK(call'[c], editions, sealedAt)
          /\ Borne(call'[c], sealedAt, AzureBearing)
      BY <2>3, <3>1 DEF CallOK, Fields, Borne, AzureBearing
    <3> QED BY <2>1, <2>3, <3>2, Moves
  <2> QED BY <1>2, <2>2, <2>3 DEF Azure!Inspect
<1>3. CASE Azure!Seal(c)
  BY <1>3, AzureSealKeeps
<1>4. CASE Azure!Snapshot(c)
  <2>1. info' = info /\ Same
    BY <1>4 DEF Azure!Snapshot, Azure!upload
  <2>2. CASE Azure!Condemns(c)
    BY <2>1, <2>2, AzureCondemnsKeeps
  <2>3. CASE Azure!Goes(c, "inquiring")
    BY <2>1, <2>3, GoesTo
  <2>4. CASE call' = [call EXCEPT ![c].plan = DOMAIN staged.blocks, ![c].record = None,
                        ![c].told = Len(Azure!Content),
                        ![c].pc = IF Len(Azure!Content) = call[c].expected
                                  THEN "publishing" ELSE "lifting"]
    <3>1. /\ CallOK(call'[c], editions, sealedAt)
          /\ Borne(call'[c], sealedAt, AzureBearing)
      BY <1>4, <2>4
      DEF Azure!Snapshot, CallOK, Fields, Borne, AzureBearing, InfoOK,
          Readable
    <3> QED BY <2>1, <2>4, <3>1, Moves
  <2> QED BY <1>4, <2>2, <2>3, <2>4 DEF Azure!Snapshot
<1>5. CASE Azure!Inquire(c)
  <2>1. info' = info /\ Same
    BY <1>5 DEF Azure!Inquire, Azure!upload
  <2> QED BY <1>5, <2>1, AzureCondemnsKeeps, EndsAs DEF Azure!Inquire, Azure!Answers
<1>6. CASE Azure!LiftSeal(c)
  <2>1. InfoOK(info', sealedAt) /\ Same
    BY <1>6 DEF Azure!LiftSeal, Azure!Stored, InfoOK, Readable
  <2> QED BY <1>6, <2>1, EndsAs DEF Azure!LiftSeal, Azure!Answers
<1>7. CASE Azure!Publish(c)
  BY <1>7, AzurePublishKeeps
<1>8. CASE Azure!Refused(c)
  <2>1. info' = info /\ Same
    BY <1>8 DEF Azure!Refused, Azure!upload
  <2> QED BY <1>8, <2>1, Changes, EndsAs
          DEF Azure!Refused, Azure!Publishing, Azure!Answers, Fields
<1>9. CASE Azure!Record(c)
  <2>1. Same
    BY <1>9 DEF Azure!Record
  <2>2. InfoOK(info', sealedAt)
    BY <1>9, LaidOK DEF Azure!Record, Azure!Stored
  <2>3. CASE Azure!Answers(c, "not-found", 0)
    BY <2>1, <2>2, <2>3, EndsAs DEF Azure!Answers
  <2>4. CASE Azure!Answers(c, call[c].ending, call[c].told)
    BY <2>1, <2>2, <2>4, EndsAs DEF Azure!Answers
  <2>5. CASE Azure!Repeats(c)
    BY <2>1, <2>2, <2>5, RepeatsAt
  <2> QED BY <1>9, <2>3, <2>4, <2>5 DEF Azure!Record
<1> QED
    BY <1>1, <1>2, <1>3, <1>4, <1>5, <1>6, <1>7, <1>8, <1>9 DEF Azure!Completing

-------------------------------------------------------------------------------
(* getUploadState, discardUncommittedTarget, other writers, crashes *)

\* A probe may condemn the upload, and that is all it writes.
LEMMA AzureProbingKeeps ==
    ASSUME AzureIInv, NEW c \in Calls, Azure!Probing(c)
    PROVE  AzureIInv'
<1> USE Parts, AzureLocated, AzureCloud DEF AzureIInv
<1>1. info' = info /\ UNCHANGED <<Azure!key, sealedAt>>
    BY DEF Azure!Probing, Azure!ProbeReads, Azure!ProbeLists, Azure!ProbeInquires, Azure!upload
<1>2. CASE Azure!ProbeReads(c)
  <2>1. CASE info # None /\ Azure!Begins(c, [Azure!Idle EXCEPT !.kind = "probe", !.pc = "listing",
                                               !.record = info, !.seal = info.seal])
    <3>1. /\ CallOK(call'[c], editions, sealedAt)
          /\ Borne(call'[c], sealedAt, AzureBearing)
      BY <2>1, IdleOK
      DEF Azure!Begins, CallOK, Fields, Borne, AzureBearing, InfoOK,
          Readable
    <3> QED BY <1>1, <2>1, <3>1, Moves DEF Azure!Begins
  <2>2. CASE Azure!Ends(c, "probe", "not-found", 0) \/ Azure!Ends(c, "probe", "settled", 0)
    BY <1>1, <2>2, EndsAs
  <2> QED BY <1>2, <2>1, <2>2 DEF Azure!ProbeReads
<1>3. CASE Azure!ProbeLists(c) \/ Azure!ProbeInquires(c)
  <2>1. \/ Azure!Condemns(c) \/ Azure!Goes(c, "inquiring")
        \/ Azure!Answers(c, "settled", 0) \/ Azure!Answers(c, "state", Len(Azure!Content))
    BY <1>3 DEF Azure!ProbeLists, Azure!ProbeInquires
  <2> QED BY <1>1, <2>1, AzureCondemnsKeeps, GoesTo, EndsAs DEF Azure!Answers
<1> QED BY <1>2, <1>3 DEF Azure!Probing

\* After the empty commit, and after what it left was removed.
LEMMA AzureEmptiedMoves ==
    ASSUME AzureIInv, NEW c \in Calls, Azure!Emptied(c)
    PROVE  /\ DOMAIN call' = Calls /\ \A d \in Calls \ {c} : call'[d] = call[d]
           /\ CallOK(call'[c], editions, sealedAt)
           /\ Borne(call'[c], sealedAt, AzureBearing)
<1> USE Parts, AzureLocated, AzureCloud DEF AzureIInv
<1>1. CASE Azure!Goes(c, "forgetting")
    BY <1>1 DEF Azure!Goes, CallOK, Fields, Borne, AzureBearing
<1>2. CASE Azure!Answers(c, call[c].ending, 0)
    BY <1>2, IdleOK, ZenonT(60)
    DEF Azure!Answers, Azure!Ends, CallOK, Fields, Borne, AzureBearing
<1> QED BY <1>1, <1>2 DEF Azure!Emptied

\* A cancel puts an empty object at the key, which is not the upload's.
LEMMA AzureDiscardingKeeps ==
    ASSUME AzureIInv, NEW c \in Calls, Azure!Discarding(c)
    PROVE  AzureIInv'
<1> USE Parts, AzureLocated, AzureCloud DEF AzureIInv
<1>1. CASE Azure!DiscardReads(c)
  <2>1. info' = info /\ UNCHANGED <<Azure!key, sealedAt>>
    BY <1>1 DEF Azure!DiscardReads, Azure!upload
  <2>2. CASE Azure!Ends(c, "discard", "discarded", 0)
    BY <2>1, <2>2, EndsAs
  <2>3. CASE Azure!Begins(c, [Azure!Idle EXCEPT !.kind = "discard",
                          !.pc = IF CommitEmpty /\ ~info.complete THEN "emptying" ELSE "forgetting"])
    <3>1. /\ CallOK(call'[c], editions, sealedAt)
          /\ Borne(call'[c], sealedAt, AzureBearing)
      BY <2>3, IdleOK
      DEF Azure!Begins, CallOK, Fields, Borne, AzureBearing
    <3> QED BY <2>1, <2>3, <3>1, Moves DEF Azure!Begins
  <2> QED BY <1>1, <2>2, <2>3 DEF Azure!DiscardReads
<1>2. CASE Azure!DiscardEmpties(c)
  <2>1. info' = info /\ sealedAt' = sealedAt
    BY <1>2 DEF Azure!DiscardEmpties
  <2>2. CASE Azure!Emptied(c) /\ UNCHANGED <<object, editions, staged>>
    BY <2>1, <2>2, AzureEmptiedMoves, Grows
  <2>3. CASE /\ editions' = editions + 1
             /\ object' = [edition |-> editions', publication |-> None, body |-> <<>>]
             /\ call' = [call EXCEPT ![c].pc = "removing", ![c].destination = editions']
    <3>1. KeyOK(object', editions')
      BY <2>3 DEF KeyOK
    <3>2. /\ CallOK(call'[c], editions', sealedAt)
          /\ Borne(call'[c], sealedAt, AzureBearing)
      BY <2>3 DEF CallOK, Fields, Borne, AzureBearing
    <3>3. /\ DOMAIN call' = Calls /\ \A d \in Calls \ {c} : call'[d] = call[d]
          /\ editions' \in Nat /\ editions <= editions' /\ sealedAt <= editions'
      BY <2>3
    <3> QED BY <2>1, <3>1, <3>2, <3>3, Grows
  <2> QED BY <1>2, <2>2, <2>3 DEF Azure!DiscardEmpties
<1>3. CASE Azure!DiscardRemoves(c)
  <2>1. info' = info /\ sealedAt' = sealedAt /\ editions' = editions
        /\ Azure!Emptied(c) /\ KeyOK(object', editions')
    BY <1>3 DEF Azure!DiscardRemoves, Azure!upload, KeyOK
  <2> QED BY <2>1, AzureEmptiedMoves, Grows
<1>4. CASE Azure!DiscardForgets(c)
  <2>1. InfoOK(info', sealedAt) /\ UNCHANGED <<Azure!key, sealedAt>>
    BY <1>4 DEF Azure!DiscardForgets, InfoOK, Readable
  <2> QED BY <1>4, <2>1, EndsAs DEF Azure!DiscardForgets, Azure!Answers
<1> QED BY <1>1, <1>2, <1>3, <1>4 DEF Azure!Discarding

\* The invariant is inductive.
LEMMA AzureNextIInv == AzureIInv /\ [Azure!Next]_Azure!vars => AzureIInv'
<1> SUFFICES ASSUME AzureIInv, [Azure!Next]_Azure!vars PROVE AzureIInv'
    OBVIOUS
<1>1. CASE UNCHANGED Azure!vars
  BY <1>1 DEF AzureIInv, Sound, Core, Azure!vars, Azure!upload, Azure!key
<1>2. CASE Azure!AgesOut
  BY <1>2 DEF Azure!AgesOut, AzureIInv, Sound, Core
<1>3. CASE Azure!StrangerWrites \/ Azure!StrangerDeletes
  BY <1>3, AzureLocated, StrangersAt, AzureCloud DEF AzureIInv
<1>4. ASSUME NEW c \in Calls, Azure!Crash(c) PROVE AzureIInv'
  BY <1>4, AzureLocated, CrashAt, AzureCloud DEF AzureIInv
<1> QED
    BY <1>1, <1>2, <1>3, <1>4, AzureAppendingKeeps, AzureCompletingKeeps, AzureCondemnKeeps,
       AzureProbingKeeps, AzureDiscardingKeeps DEF Azure!Next

(***************************************************************************)
(* Only a commit puts an object of the upload at the key, and it is held   *)
(* to the state its seal recorded.                                         *)
(***************************************************************************)
LEMMA AzureOnlyOverTheSealed ==
    ASSUME AzureIInv, [Azure!Next]_Azure!vars,
           object' # object, object' # None, object'.publication # None
    PROVE  object = None \/ object.edition <= sealedAt
<1>1. ~Azure!StrangerWrites /\ ~Azure!StrangerDeletes /\ ~Azure!AgesOut
    BY DEF Azure!StrangerWrites, Azure!StrangerDeletes, Azure!AgesOut
<1>2. PICK c \in Calls : \/ Azure!Appending(c) \/ Azure!Completing(c) \/ Azure!Condemn(c)
                         \/ Azure!Probing(c) \/ Azure!Discarding(c) \/ Azure!Crash(c)
    BY <1>1 DEF Azure!Next, Azure!vars, Azure!key
<1>3. ~Azure!Appending(c)
    BY Zenon DEF Azure!Appending, Azure!AppendReads, Azure!BlockFills, Azure!AppendLists,
           Azure!CheckIndex, Azure!StageBlock, Azure!Accept, Azure!AcceptRefused, Azure!BodyEnds,
           Azure!BodyOverruns, Azure!key
<1>4. ~Azure!Condemn(c) /\ ~Azure!Probing(c) /\ ~Azure!Crash(c)
    BY SMTT(30) DEF Azure!Condemn, Azure!Probing, Azure!ProbeReads, Azure!ProbeLists, Azure!ProbeInquires,
           Azure!Crash, Azure!key
<1>5. ~Azure!Discarding(c)
    BY SMTT(30) DEF Azure!Discarding, Azure!DiscardReads, Azure!DiscardEmpties, Azure!DiscardRemoves,
           Azure!DiscardForgets, Azure!key
<1>6. Azure!Publish(c)
    BY Zenon, <1>2, <1>3, <1>4, <1>5
    DEF Azure!Completing, Azure!CompleteReads, Azure!Inspect, Azure!Seal, Azure!Snapshot,
        Azure!Inquire, Azure!LiftSeal, Azure!Refused, Azure!Record, Azure!key
<1>7. call[c].pc = "publishing" /\ Azure!EditionOf(object) = call[c].seal.destination
    BY <1>6 DEF Azure!Publish, Azure!Permitted, Azure!key
<1>8. SealOK(call[c].seal, sealedAt)
    BY <1>7, Parts DEF AzureIInv, Borne, AzureBearing
<1> QED BY <1>7, <1>8 DEF Azure!EditionOf, SealOK

(***************************************************************************)
(* A publication of the azure store never replaces what another writer put *)
(* at the key after the upload was sealed, whoever crashes, loses its lock *)
(* or does not hear an answer, and whatever the service lets go of.        *)
(***************************************************************************)
THEOREM AzureNeverBlind == Azure!Spec => NoBlindOverwrite
<1>1. AzureIInv /\ [Azure!Next]_Azure!vars =>
        [(object' # object /\ object' # None /\ object'.publication # None /\ ~Windowed)
          => object = None \/ object.edition <= sealedAt]_vars
    BY AzureOnlyOverTheSealed
<1> QED BY <1>1, AzureInitIInv, AzureNextIInv, PTL DEF Azure!Spec, NoBlindOverwrite

HIDE AzureAssumed

-------------------------------------------------------------------------------
(* The R2 store *)

\* What is assumed of the constants, in its words.
LEMMA R2Assumed ==
    /\ OverlapsIn["r2"] \subseteq SUBSET R2!Kinds
    /\ UnheardIn["r2"] \in BOOLEAN
    /\ LengthIn["r2"] \in Nat /\ MaxEditions \in Nat
    /\ None \notin Calls
    BY StoresAssumption, CloudAssumption DEF Kinds, R2!Kinds

USE R2Assumed

\* A completion goes by the seal of the manifest it read where it looks at the
\* key, and where it publishes no byte; every writer of the manifest goes by
\* the one it read.
R2Reading == {"waiting", "streaming", "uploading", "counting", "parking", "naming",
            "lifting", "inspecting", "sealing", "fetching", "lasting", "completing",
            "ended", "recording"}
R2Bearing == [seal |-> {}, completing |-> {}, record |-> {"checking", "emptying"},
            read |-> R2Reading]
R2IInv == Sound(R2Bearing)

\* The steps of a call of the R2 store are those that all stores share.
LEMMA R2Cloud ==
    /\ R2!Idle = Idle /\ R2!key = key /\ R2!key' = key'
    /\ \A c, pc : R2!Goes(c, pc) <=> Goes(c, pc)
    /\ \A c, local : R2!Begins(c, local) <=> Begins(c, local)
    /\ \A c, kind, pc, told : R2!Ends(c, kind, pc, told) <=> Ends(c, kind, pc, told)
    /\ \A c, pc, told : R2!Answers(c, pc, told) <=> Answers(c, pc, told)
    /\ \A c : R2!Repeats(c) <=> Repeats(c)
    /\ \A c, answer, told : R2!Invalidates(c, answer, told) <=> Invalidates(c, answer, told)
    /\ \A c : R2!Crash(c) <=> Crash(c)
    /\ \A record, bytes : R2!Created(record, bytes) <=> Created(record, bytes)
    /\ \A record, patch : R2!Laid(record, patch) = Laid(record, patch)
    /\ R2!StrangerWrites <=> StrangerWrites
    /\ R2!StrangerDeletes <=> StrangerDeletes
    /\ R2!StrangerRewrites <=> StrangerRewrites
    BY DEF Idle, key, Goes, Begins, Ends, Answers, Repeats, Invalidates, Crash, Created,
           Laid, StrangerWrites, StrangerDeletes, Running, upload, Stored, Settled,
           Invalid, Untouched, R2!Idle, R2!key, R2!Goes, R2!Begins, R2!Ends, R2!Answers,
           R2!Repeats, R2!Invalidates, R2!Crash, R2!Created, R2!Laid, R2!StrangerWrites,
           R2!StrangerDeletes, R2!Running, R2!upload, R2!Stored, R2!Settled, R2!Invalid,
           R2!Untouched, StrangerRewrites, R2!StrangerRewrites

\* The places at which a call needs what it read.
LEMMA R2Located == Places(R2Bearing) = {"checking", "emptying"} \cup R2Reading
    BY DEF R2Bearing, Places

\* Creation seals nothing.
LEMMA R2InitIInv == R2!Init => R2IInv
<1> SUFFICES ASSUME R2!Init PROVE R2IInv
    OBVIOUS
<1> DEFINE record == [seal |-> None, invalid |-> FALSE, complete |-> FALSE,
                      parts |-> 0, tail |-> None]
<1>1. R2!Created(record, [live |-> TRUE, parts |-> <<>>, tails |-> <<>>]) /\ InfoOK(record, 0)
    BY DEF R2!Init, InfoOK, Readable
<1> QED
    BY <1>1, CreatedSound, R2Located, R2Cloud DEF R2IInv, R2Reading

-------------------------------------------------------------------------------
(* What a call of several kinds may do *)

\* A call whose write of the manifest was refused answers.
LEMMA R2RefusedKeeps ==
    ASSUME R2IInv, NEW c \in Calls, R2!RefusedStale(c) \/ R2!RefusedTail(c), UNCHANGED <<info, R2!key, sealedAt>>
    PROVE  R2IInv'
    BY Parts, R2Located, EndsAs, R2Cloud
    DEF R2IInv, R2!RefusedStale, R2!RefusedTail, R2!Answers, R2Reading

\* The manifest a writer holds.
LEMMA R2Held ==
    ASSUME R2IInv, NEW c \in Calls, call[c].pc \in R2Reading
    PROVE  Readable(call[c].record, sealedAt)
    BY Parts DEF R2IInv, Borne, R2Bearing

\* A writer goes on by the manifest it holds, or by one it has just put.
LEMMA R2ReadsOn ==
    ASSUME R2IInv, NEW c \in Calls,
           DOMAIN call' = Calls, \A d \in Calls \ {c} : call'[d] = call[d],
           Fields \subseteq DOMAIN call'[c],
           call'[c].kind = call[c].kind, call'[c].destination = call[c].destination,
           call'[c].seal = call[c].seal, Readable(call'[c].record, sealedAt),
           call'[c].pc \notin {"checking", "emptying"}, call'[c].ending \notin Places(R2Bearing),
           InfoOK(info', sealedAt), UNCHANGED <<R2!key, sealedAt>>
    PROVE  R2IInv'
<1>1. CallOK(call'[c], editions, sealedAt) /\ Borne(call'[c], sealedAt, R2Bearing)
    BY Parts DEF R2IInv, CallOK, Borne, R2Bearing, InfoOK
<1> QED
    BY <1>1, Moves, R2Cloud DEF R2IInv

\* A writer goes on and nothing else changes.
LEMMA R2GoesOn ==
    ASSUME R2IInv, NEW c \in Calls, call[c].pc \in R2Reading,
           NEW pc, pc \notin {"checking", "emptying"},
           R2!Goes(c, pc), InfoOK(info', sealedAt), UNCHANGED <<R2!key, sealedAt>>
    PROVE  R2IInv'
<1>1. /\ DOMAIN call' = Calls /\ \A d \in Calls \ {c} : call'[d] = call[d]
      /\ Fields \subseteq DOMAIN call'[c] /\ call'[c].pc = pc
      /\ call'[c].kind = call[c].kind /\ call'[c].destination = call[c].destination
      /\ call'[c].seal = call[c].seal /\ call'[c].record = call[c].record
      /\ call'[c].ending = call[c].ending
    BY Parts DEF R2IInv, R2!Goes, Fields
<1> QED
    BY <1>1, R2Held, Parts, R2ReadsOn DEF R2IInv

-------------------------------------------------------------------------------
(* appendChunk *)

\* An append reads the manifest.
LEMMA R2BeginsKeeps ==
    ASSUME R2IInv, NEW c \in Calls, NEW n \in 0..LengthIn["r2"], R2!AppendBegins(c, n)
    PROVE  R2IInv'
<1> USE Parts, R2Located, R2Cloud DEF R2IInv
<1>1. info' = info /\ UNCHANGED <<R2!key, sealedAt>>
    BY DEF R2!AppendBegins
<1>2. CASE \E pc \in {"not-found", "failed", "conflict"} : \E told : R2!Ends(c, "append", pc, told)
    BY <1>1, <1>2, EndsAs DEF R2Reading
<1>3. CASE info # None /\ R2!Begins(c, [R2!Idle EXCEPT !.kind = "append", !.offset = n, !.record = info,
                           !.pc = IF info.tail = None THEN "streaming" ELSE "waiting"])
  <2>1. CallOK(call'[c], editions, sealedAt) /\ Borne(call'[c], sealedAt, R2Bearing)
    BY <1>3, IdleOK
    DEF R2!Begins, CallOK, Fields, Borne, R2Bearing, InfoOK, R2Reading
  <2> QED BY <1>1, <1>3, <2>1, Moves DEF R2!Begins
<1> QED BY <1>2, <1>3 DEF R2!AppendBegins, R2!Bar

\* Before the body ends.
LEMMA R2StreamingKeeps ==
    ASSUME R2IInv, NEW c \in Calls,
           \/ \E n \in 0..LengthIn["r2"] : R2!BytesArrive(c, n)
           \/ R2!FetchTail(c) \/ R2!UploadPart(c) \/ R2!CountPart(c)
    PROVE  R2IInv'
<1> USE Parts, R2Located, R2Cloud DEF R2IInv
<1> DEFINE Same == UNCHANGED <<R2!key, sealedAt>>
<1>1. ASSUME NEW n \in 0..LengthIn["r2"], R2!BytesArrive(c, n) PROVE R2IInv'
  <2>1. call[c].pc \in R2Reading /\ info' = info /\ Same
    BY <1>1, ZenonT(60) DEF R2!BytesArrive, R2!upload, R2Reading
  <2> QED BY <1>1, <2>1, R2Held, R2ReadsOn, ZenonT(60) DEF R2!BytesArrive, Fields
<1>2. CASE R2!FetchTail(c)
  <2>1. call[c].pc \in R2Reading /\ info' = info /\ Same
    BY <1>2 DEF R2!FetchTail, R2!upload, R2Reading
  <2>2. CASE call' = [call EXCEPT ![c].pc = "streaming", ![c].buffer = R2!TailOf(call[c].record)]
    BY <2>1, <2>2, R2Held, R2ReadsOn DEF Fields
  <2> QED BY <1>2, <2>1, <2>2, R2RefusedKeeps DEF R2!FetchTail
<1>3. CASE R2!UploadPart(c)
  <2>1. call[c].pc \in R2Reading /\ info' = info /\ Same
    BY <1>3 DEF R2!UploadPart, R2Reading
  <2>2. CASE R2!Goes(c, "counting")
    BY <2>1, <2>2, R2GoesOn
  <2>3. CASE R2!Answers(c, "failed", 0)
    BY <2>1, <2>3, EndsAs DEF R2!Answers, R2Reading
  <2> QED BY <1>3, <2>2, <2>3 DEF R2!UploadPart
<1>4. CASE R2!CountPart(c)
  <2>1. call[c].pc \in R2Reading /\ Same
    BY <1>4 DEF R2!CountPart, R2Reading
  <2>2. CASE /\ R2!Puts(c, [call[c].record EXCEPT !.parts = @ + 1, !.tail = None])
             /\ call' = [call EXCEPT ![c].pc = "streaming", ![c].record = info',
                                    ![c].plan = R2!Stale(c), ![c].buffer = <<>>]
    <3>1. Readable(info', sealedAt)
      BY <2>1, <2>2, R2Held DEF R2!Puts, Readable
    <3> QED BY <2>1, <2>2, <3>1, R2ReadsOn DEF InfoOK, Fields
  <2>3. CASE R2!RefusedStale(c) /\ UNCHANGED <<info, fresh>>
    BY <2>1, <2>3, R2RefusedKeeps
  <2> QED BY <1>4, <2>2, <2>3 DEF R2!CountPart
<1> QED
    BY <1>1, <1>2, <1>3, <1>4

\* From the end of the body.
LEMMA R2EndingKeeps ==
    ASSUME R2IInv, NEW c \in Calls,
           \/ R2!BodyEnds(c) \/ R2!BodyOverruns(c) \/ R2!ParkTail(c) \/ R2!NameTail(c)
           \/ R2!Unpark(c) \/ R2!DropTails(c)
    PROVE  R2IInv'
<1> USE Parts, R2Located, R2Cloud DEF R2IInv
<1> DEFINE Same == UNCHANGED <<R2!key, sealedAt>>
<1>1. CASE R2!BodyEnds(c)
  <2>1. call[c].pc \in R2Reading /\ Same
    BY <1>1 DEF R2!BodyEnds, R2Reading
  <2>2. CASE R2!Goes(c, "dropping") /\ UNCHANGED <<info, fresh>>
    BY <2>1, <2>2, GoesTo DEF R2Reading
  <2>3. CASE R2!Goes(c, "parking") /\ UNCHANGED <<info, fresh>>
    BY <2>1, <2>3, R2GoesOn
  <2>4. CASE R2!Puts(c, call[c].record) /\ R2!Answers(c, "wrote", R2!End(c))
    BY <2>1, <2>4, EndsAs DEF R2!Puts, R2!Answers, R2Reading
  <2>5. CASE R2!RefusedStale(c) /\ UNCHANGED <<info, fresh>>
    BY <2>1, <2>5, R2RefusedKeeps
  <2> QED BY <1>1, <2>2, <2>3, <2>4, <2>5 DEF R2!BodyEnds
<1>2. CASE R2!BodyOverruns(c)
  <2>1. call[c].pc \in R2Reading /\ Same
    BY <1>2 DEF R2!BodyOverruns, R2Reading
  <2>2. CASE R2!Puts(c, R2!Laid(call[c].record, R2!Invalid)) /\ R2!Answers(c, "overrun", R2!End(c))
    <3>1. InfoOK(info', sealedAt)
      BY <2>1, <2>2, R2Held, LaidReads DEF R2!Puts, InfoOK
    <3> QED BY <2>1, <2>2, <3>1, EndsAs DEF R2!Answers, R2Reading
  <2>3. CASE R2!RefusedStale(c) /\ UNCHANGED <<info, fresh>>
    BY <2>1, <2>3, R2RefusedKeeps
  <2> QED BY <1>2, <2>2, <2>3 DEF R2!BodyOverruns
<1>3. CASE R2!ParkTail(c)
  <2>1. call[c].pc \in R2Reading /\ info' = info /\ Same /\ R2!Goes(c, "naming")
    BY <1>3 DEF R2!ParkTail, R2Reading
  <2> QED BY <2>1, R2GoesOn
<1>4. CASE R2!NameTail(c)
  <2>1. call[c].pc \in R2Reading /\ Same
    BY <1>4 DEF R2!NameTail, R2Reading
  <2>2. InfoOK(info', sealedAt)
    <3>1. CASE R2!Puts(c, [call[c].record EXCEPT !.tail = [id |-> c, size |-> Len(call[c].buffer)]])
      BY <2>1, <3>1, R2Held DEF R2!Puts, InfoOK, Readable
    <3> QED BY <1>4, <3>1 DEF R2!NameTail
  <2>3. ASSUME NEW ending \in {"failed", "not-found", "conflict"}, NEW told, R2!Unparks(c, ending, told)
        PROVE  R2IInv'
    BY <2>1, <2>2, <2>3, Changes DEF R2!Unparks, Fields, R2Reading
  <2>4. CASE call' = [call EXCEPT ![c].pc = "dropping", ![c].plan = R2!Stale(c)]
    BY <2>1, <2>2, <2>4, Changes DEF Fields, R2Reading
  <2> QED BY <1>4, <2>3, <2>4 DEF R2!NameTail
<1>5. CASE R2!Unpark(c) \/ R2!DropTails(c)
  <2>1. info' = info /\ Same
    BY <1>5 DEF R2!Unpark, R2!DropTails
  <2>2. R2!Answers(c, call[c].ending, call[c].told) \/ R2!Answers(c, "wrote", R2!End(c))
    BY <1>5 DEF R2!Unpark, R2!DropTails
  <2> QED BY <2>1, <2>2, EndsAs DEF R2!Answers, R2Reading
<1> QED
    BY <1>1, <1>2, <1>3, <1>4, <1>5

-------------------------------------------------------------------------------
(* completeUpload *)

\* Up to the seal.
LEMMA R2SealingKeeps ==
    ASSUME R2IInv, NEW c \in Calls,
           \/ \E n \in 0..LengthIn["r2"] : R2!CompleteReads(c, n)
           \/ R2!LiftSeal(c) \/ R2!Inspect(c) \/ R2!Seal(c)
    PROVE  R2IInv'
<1> USE Parts, R2Located, R2Cloud DEF R2IInv
<1> DEFINE Same == UNCHANGED <<R2!key, sealedAt>>
<1>1. ASSUME NEW n \in 0..LengthIn["r2"], R2!CompleteReads(c, n) PROVE R2IInv'
  <2>1. info' = info /\ Same
    BY <1>1 DEF R2!CompleteReads
  <2>2. CASE \E pc \in {"not-found", "failed", "complete", "conflict"} : \E told :
               R2!Ends(c, "complete", pc, told)
    BY <2>1, <2>2, EndsAs DEF R2Reading
  <2>3. CASE info # None /\ R2!Begins(c, [R2!Idle EXCEPT !.kind = "complete", !.expected = n, !.record = info,
                           !.pc = IF R2!Offset(info) # n THEN "lifting"
                                  ELSE IF info.seal = None THEN "inspecting" ELSE "checking"])
    <3>1. CallOK(call'[c], editions, sealedAt) /\ Borne(call'[c], sealedAt, R2Bearing)
      BY <2>3, IdleOK
      DEF R2!Begins, CallOK, Fields, Borne, R2Bearing, InfoOK, Readable,
          R2Reading
    <3> QED BY <2>1, <2>3, <3>1, Moves DEF R2!Begins
  <2> QED BY <1>1, <2>2, <2>3, ZenonT(60) DEF R2!CompleteReads, R2!Over
<1>2. CASE R2!LiftSeal(c)
  <2>1. call[c].pc \in R2Reading /\ Same
    BY <1>2 DEF R2!LiftSeal, R2Reading
  <2>2. CASE R2!Puts(c, [call[c].record EXCEPT !.seal = None]) /\ R2!Answers(c, "conflict", R2!Offset(info))
    <3>1. InfoOK(info', sealedAt)
      BY <2>1, <2>2, R2Held DEF R2!Puts, InfoOK, Readable
    <3> QED BY <2>1, <2>2, <3>1, EndsAs DEF R2!Answers, R2Reading
  <2>3. CASE R2!RefusedStale(c) /\ UNCHANGED <<info, fresh>>
    BY <2>1, <2>3, R2RefusedKeeps
  <2> QED BY <1>2, <2>2, <2>3 DEF R2!LiftSeal
<1>3. CASE R2!Inspect(c)
  <2>1. /\ call[c].pc \in R2Reading /\ info' = info /\ Same
        /\ call' = [call EXCEPT ![c].pc = "sealing", ![c].destination = R2!EditionOf(object)]
    BY <1>3 DEF R2!Inspect, R2!upload, R2Reading
  <2>2. R2!EditionOf(object) \in Nat /\ R2!EditionOf(object) <= editions
    BY DEF R2!EditionOf, KeyOK
  <2>3. CallOK(call'[c], editions, sealedAt) /\ Borne(call'[c], sealedAt, R2Bearing)
    BY <2>1, <2>2, R2Held DEF CallOK, Fields, Borne, R2Bearing
  <2> QED BY <2>1, <2>3, Moves
\* What this completion saw at the key has been there by now.
<1>4. CASE R2!Seal(c)
  <2>1. call[c].pc \in R2Reading /\ UNCHANGED R2!key
    BY <1>4 DEF R2!Seal, R2Reading
  <2>2. CASE /\ R2!Puts(c, [call[c].record EXCEPT !.seal =
                          [length |-> call[c].expected, destination |-> call[c].destination,
                           id |-> R2!Publication]])
             /\ call' = [call EXCEPT ![c].pc = "checking", ![c].record = info']
             /\ sealedAt' = editions
    <3>1. "seal" \in DOMAIN info' /\ SealOK(info'.seal, sealedAt')
      BY <2>1, <2>2, R2Held DEF R2!Puts, SealOK, CallOK, Readable
    <3>2. CallOK(call[c], editions, sealedAt')
      BY <2>2, CallKept
    <3>3. CallOK(call'[c], editions, sealedAt') /\ Borne(call'[c], sealedAt', R2Bearing)
      BY <2>2, <3>1, <3>2
      DEF CallOK, Fields, Borne, R2Bearing, InfoOK, Readable, R2Reading
    <3>4. /\ DOMAIN call' = Calls /\ \A d \in Calls \ {c} : call'[d] = call[d]
          /\ sealedAt' \in Nat /\ sealedAt <= sealedAt' /\ sealedAt' <= editions
      BY <2>2
    <3>5. InfoOK(info', sealedAt')
      BY <3>1 DEF InfoOK, Readable
    <3> QED BY <2>1, <3>3, <3>4, <3>5, Grows DEF R2!key
  <2>3. CASE R2!RefusedStale(c) /\ UNCHANGED <<info, fresh, sealedAt>>
    BY <2>1, <2>3, R2RefusedKeeps
  <2> QED BY <1>4, <2>2, <2>3 DEF R2!Seal
<1> QED
    BY <1>1, <1>2, <1>3, <1>4

\* What the completion publishes, by which request.
LEMMA R2PublishingKeeps ==
    ASSUME R2IInv, NEW c \in Calls, R2!PublishEmpty(c) \/ R2!Publish(c)
    PROVE  R2IInv'
<1> USE Parts, R2Located, R2Cloud DEF R2IInv
<1>1. info' = info /\ sealedAt' = sealedAt
    BY DEF R2!Publish, R2!PublishEmpty
<1>2. /\ DOMAIN call' = Calls /\ \A d \in Calls \ {c} : call'[d] = call[d]
      /\ CallOK(call'[c], editions, sealedAt) /\ Borne(call'[c], sealedAt, R2Bearing)
  <2>1. Readable(call[c].record, sealedAt)
    BY R2Held DEF R2!Publish, R2!PublishEmpty, R2Reading, Borne, R2Bearing, Readable
  <2>2. ASSUME NEW pc \in {"recording", "ended"}, R2!Goes(c, pc)
        PROVE  /\ DOMAIN call' = Calls /\ \A d \in Calls \ {c} : call'[d] = call[d]
               /\ CallOK(call'[c], editions, sealedAt)
               /\ Borne(call'[c], sealedAt, R2Bearing)
    BY <2>1, <2>2 DEF R2!Goes, CallOK, Fields, Borne, R2Bearing
  <2>3. CASE R2!Answers(c, "failed", 0) \/ R2!Answers(c, "destination", 0)
    BY <2>3, EndsIn DEF R2!Answers, R2Reading
  <2> QED BY <2>2, <2>3 DEF R2!Publish, R2!PublishEmpty
<1>3. CASE UNCHANGED R2!key
    BY <1>1, <1>2, <1>3, Moves
<1>4. ASSUME NEW body, R2!Publishes(R2!Publication, body) PROVE R2IInv'
  <2>1. editions' = editions + 1 /\ KeyOK(object', editions')
    BY <1>4 DEF R2!Publishes, KeyOK
  <2>2. CallOK(call'[c], editions', sealedAt)
    BY <1>2, <2>1, CallKept
  <2> QED BY <1>1, <1>2, <2>1, <2>2, Grows
<1> QED BY <1>3, <1>4 DEF R2!Publish, R2!PublishEmpty

\* The rest of a completion.
LEMMA R2RecordingKeeps ==
    ASSUME R2IInv, NEW c \in Calls,
           R2!Check(c) \/ R2!FetchLast(c) \/ R2!UploadLast(c) \/ R2!Recover(c) \/ R2!Record(c) \/ R2!Clean(c)
    PROVE  R2IInv'
<1> USE Parts, R2Located, R2Cloud DEF R2IInv
<1> DEFINE Same == UNCHANGED <<R2!key, sealedAt>>
<1>1. CASE R2!Check(c)
  <2>1. call[c].pc = "checking" /\ info' = info /\ Same
    BY <1>1 DEF R2!Check, R2!upload
  <2>2. "seal" \in DOMAIN call[c].record /\ SealOK(call[c].record.seal, sealedAt)
    BY <2>1 DEF Borne, R2Bearing
  <2>3. CASE R2!Answers(c, "destination", 0)
    BY <2>1, <2>3, EndsAs DEF R2!Answers, R2Reading
  <2>4. ASSUME NEW pc, R2!Goes(c, pc) PROVE R2IInv'
    <3>1. CallOK(call'[c], editions, sealedAt) /\ Borne(call'[c], sealedAt, R2Bearing)
      BY <2>2, <2>4 DEF R2!Goes, CallOK, Fields, Borne, R2Bearing, Readable
    <3> QED BY <2>1, <2>4, <3>1, Moves DEF R2!Goes
  <2> QED BY <1>1, <2>3, <2>4 DEF R2!Check
<1>2. CASE R2!FetchLast(c)
  <2>1. call[c].pc \in R2Reading /\ info' = info /\ Same
    BY <1>2 DEF R2!FetchLast, R2!upload, R2Reading
  <2>2. CASE call' = [call EXCEPT ![c].pc = "lasting", ![c].buffer = R2!TailOf(R2!Plan(c))]
    BY <2>1, <2>2, R2Held, R2ReadsOn DEF Fields
  <2> QED BY <1>2, <2>1, <2>2, R2RefusedKeeps DEF R2!FetchLast
<1>3. CASE R2!UploadLast(c)
  <2>1. call[c].pc \in R2Reading /\ info' = info /\ Same
    BY <1>3 DEF R2!UploadLast, R2Reading
  <2> QED BY <1>3, <2>1, R2GoesOn DEF R2!UploadLast
<1>4. CASE R2!Recover(c)
  <2>1. call[c].pc \in R2Reading /\ info' = info /\ Same
    BY <1>4 DEF R2!Recover, R2!upload, R2Reading
  <2> QED BY <1>4, <2>1, R2GoesOn, EndsAs DEF R2!Recover, R2!Answers, R2Reading
<1>5. CASE R2!Record(c)
  <2>1. call[c].pc \in R2Reading /\ Same
    BY <1>5 DEF R2!Record, R2Reading
  <2>2. CASE R2!Puts(c, R2!Laid(R2!Plan(c), R2!Complete)) /\ R2!Goes(c, "cleaning")
    <3>1. InfoOK(info', sealedAt)
      BY <2>1, <2>2, R2Held, LaidReads DEF R2!Puts, InfoOK, R2!Plan
    <3> QED BY <2>1, <2>2, <3>1, GoesTo DEF R2Reading
  <2>3. CASE R2!RefusedStale(c) /\ UNCHANGED <<info, fresh>>
    BY <2>1, <2>3, R2RefusedKeeps
  <2> QED BY <1>5, <2>2, <2>3 DEF R2!Record
<1>6. CASE R2!Clean(c)
  <2>1. info' = info /\ Same
    BY <1>6 DEF R2!Clean
  <2> QED BY <1>6, <2>1, EndsAs DEF R2!Clean, R2!Answers, R2Reading
<1> QED
    BY <1>1, <1>2, <1>3, <1>4, <1>5, <1>6

-------------------------------------------------------------------------------
(* The other calls, other writers, crashes *)

\* Probes, cancels and crashes need nothing of what they read.
LEMMA R2OthersKeep ==
    ASSUME R2IInv, NEW c \in Calls, R2!Probe(c) \/ R2!Discarding(c) \/ R2!Crash(c)
    PROVE  R2IInv'
<1> USE Parts, R2Located, R2Cloud DEF R2IInv, R2Reading
<1>1. CASE R2!Probe(c)
  BY <1>1, EndsAs DEF R2!Probe, R2!upload
<1>2. CASE R2!DiscardReads(c)
  <2>1. CallOK(call'[c], editions, sealedAt) /\ Borne(call'[c], sealedAt, R2Bearing)
    BY <1>2, IdleOK DEF R2!DiscardReads, R2!Begins, CallOK, Fields, Borne, R2Bearing
  <2> QED BY <1>2, <2>1, Moves DEF R2!DiscardReads, R2!Begins, R2!upload
<1>3. CASE R2!DiscardAborts(c) \/ R2!DiscardClears(c)
  BY <1>3, GoesTo DEF R2!DiscardAborts, R2!DiscardClears
<1>4. CASE R2!DiscardForgets(c)
  <2>1. InfoOK(info', sealedAt) /\ UNCHANGED <<R2!key, sealedAt>>
    BY <1>4 DEF R2!DiscardForgets, InfoOK
  <2> QED BY <1>4, <2>1, EndsAs DEF R2!DiscardForgets, R2!Answers
<1>5. CASE R2!Crash(c)
  BY <1>5, CrashAt
<1> QED BY <1>1, <1>2, <1>3, <1>4, <1>5 DEF R2!Discarding

\* The invariant is inductive.
LEMMA R2NextIInv == R2IInv /\ [R2!Next]_R2!vars => R2IInv'
<1> SUFFICES ASSUME R2IInv, [R2!Next]_R2!vars PROVE R2IInv'
    OBVIOUS
<1>1. CASE UNCHANGED R2!vars
  BY <1>1 DEF R2IInv, Sound, Core, R2!vars, R2!upload, R2!key
<1>2. CASE R2!SweepTail
  BY <1>2 DEF R2!SweepTail, R2IInv, Sound, Core, R2!key
<1>3. CASE R2!StrangerWrites \/ R2!StrangerRewrites \/ R2!StrangerDeletes
  BY <1>3, StrangersAt, R2Cloud DEF R2IInv
<1>4. ASSUME NEW c \in Calls, R2!Appending(c) PROVE R2IInv'
  BY <1>4, R2BeginsKeeps, R2StreamingKeeps, R2EndingKeeps DEF R2!Appending
<1>5. ASSUME NEW c \in Calls, R2!Completing(c) PROVE R2IInv'
  BY <1>5, R2SealingKeeps, R2PublishingKeeps, R2RecordingKeeps DEF R2!Completing
<1> QED
    BY <1>1, <1>2, <1>3, <1>4, <1>5, R2OthersKeep DEF R2!Next

(***************************************************************************)
(* Outside the window of complete(), only the publication of an empty      *)
(* representation puts an object of the upload at the key, and it is held  *)
(* to the state its seal recorded.                                         *)
(***************************************************************************)
LEMMA R2OnlyOverTheSealed ==
    ASSUME R2IInv, [R2!Next]_R2!vars,
           object' # object, object' # None, object'.publication # None, ~R2!Windowed
    PROVE  object = None \/ object.edition <= sealedAt
<1>1. ~R2!StrangerWrites /\ ~R2!StrangerRewrites /\ ~R2!StrangerDeletes /\ ~R2!SweepTail
    BY DEF R2!StrangerWrites, R2!StrangerRewrites, R2!StrangerDeletes, R2!SweepTail, R2!key
<1>2. PICK c \in Calls : \/ R2!Appending(c) \/ R2!Completing(c)
                         \/ R2!Probe(c) \/ R2!Discarding(c) \/ R2!Crash(c)
    BY <1>1 DEF R2!Next, R2!vars, R2!key
<1>3. ~R2!Appending(c)
    BY Zenon DEF R2!Appending, R2!AppendBegins, R2!BytesArrive, R2!FetchTail, R2!UploadPart,
           R2!CountPart, R2!BodyEnds, R2!BodyOverruns, R2!ParkTail, R2!NameTail, R2!Unpark,
           R2!DropTails, R2!key
<1>4. ~R2!Probe(c) /\ ~R2!Discarding(c) /\ ~R2!Crash(c)
    BY SMTT(30) DEF R2!Probe, R2!Discarding, R2!DiscardReads, R2!DiscardAborts, R2!DiscardClears,
           R2!DiscardForgets, R2!Crash, R2!key
<1>5. R2!PublishEmpty(c)
    BY Zenon, <1>2, <1>3, <1>4
    DEF R2!Completing, R2!CompleteReads, R2!LiftSeal, R2!Inspect, R2!Seal, R2!Check,
        R2!FetchLast, R2!UploadLast, R2!Publish, R2!Recover, R2!Record, R2!Clean, R2!Windowed,
        R2!key
<1>6. call[c].pc = "emptying" /\ R2!EditionOf(object) = call[c].record.seal.destination
    BY <1>5 DEF R2!PublishEmpty, R2!Permitted, R2!Plan, R2!key
<1>7. SealOK(call[c].record.seal, sealedAt)
    BY <1>6, Parts DEF R2IInv, Borne, R2Bearing
<1> QED BY <1>6, <1>7 DEF R2!EditionOf, SealOK

(***************************************************************************)
(* A publication of the r2 store never replaces what another writer put at *)
(* the key after the upload was sealed, but for what came between the      *)
(* store's look at the key and complete(), which takes no condition:       *)
(* whoever crashes, loses its lock or does not hear an answer.             *)
(***************************************************************************)
THEOREM R2NeverBlind == R2!Spec => NoBlindOverwrite
<1>1. R2IInv /\ [R2!Next]_R2!vars =>
        [(object' # object /\ object' # None /\ object'.publication # None /\ ~Windowed)
          => object = None \/ object.edition <= sealedAt]_vars
    BY R2OnlyOverTheSealed DEF R2!Windowed, Windowed
<1> QED BY <1>1, R2InitIInv, R2NextIInv, PTL DEF R2!Spec, NoBlindOverwrite

HIDE R2Assumed

-------------------------------------------------------------------------------
(* The S3 store *)

\* What is assumed of the constants, in its words.
LEMMA S3Assumed ==
    /\ OverlapsIn["s3"] \subseteq SUBSET S3!Kinds
    /\ UnheardIn["s3"] \in BOOLEAN
    /\ LengthIn["s3"] \in Nat /\ MaxEditions \in Nat
    /\ None \notin Calls
    BY StoresAssumption, CloudAssumption DEF Kinds, S3!Kinds

USE S3Assumed

\* A completion goes by the seal of the record it read, or made, from when it
\* plans what to publish.
S3Planned == {"planning", "tailing", "pointing", "lasting", "emptying", "dropping", "publishing"}
S3Bearing == [seal |-> {}, completing |-> {}, record |-> S3Planned, read |-> {}]
S3IInv == Sound(S3Bearing)

\* The steps of a call of the S3 store are those that all stores share.
LEMMA S3Cloud ==
    /\ S3!Idle = Idle /\ S3!key = key /\ S3!key' = key'
    /\ \A c, pc : S3!Goes(c, pc) <=> Goes(c, pc)
    /\ \A c, local : S3!Begins(c, local) <=> Begins(c, local)
    /\ \A c, kind, pc, told : S3!Ends(c, kind, pc, told) <=> Ends(c, kind, pc, told)
    /\ \A c, pc, told : S3!Answers(c, pc, told) <=> Answers(c, pc, told)
    /\ \A c : S3!Repeats(c) <=> Repeats(c)
    /\ \A c, answer, told : S3!Invalidates(c, answer, told) <=> Invalidates(c, answer, told)
    /\ \A c : S3!Crash(c) <=> Crash(c)
    /\ \A record, bytes : S3!Created(record, bytes) <=> Created(record, bytes)
    /\ \A record, patch : S3!Laid(record, patch) = Laid(record, patch)
    /\ S3!StrangerWrites <=> StrangerWrites
    /\ S3!StrangerDeletes <=> StrangerDeletes
    /\ S3!StrangerRewrites <=> StrangerRewrites
    BY DEF Idle, key, Goes, Begins, Ends, Answers, Repeats, Invalidates, Crash, Created,
           Laid, StrangerWrites, StrangerDeletes, Running, upload, Stored, Settled,
           Invalid, Untouched, S3!Idle, S3!key, S3!Goes, S3!Begins, S3!Ends, S3!Answers,
           S3!Repeats, S3!Invalidates, S3!Crash, S3!Created, S3!Laid, S3!StrangerWrites,
           S3!StrangerDeletes, S3!Running, S3!upload, S3!Stored, S3!Settled, S3!Invalid,
           S3!Untouched, StrangerRewrites, S3!StrangerRewrites

\* The places at which a completion needs its seal.
LEMMA S3Located == Places(S3Bearing) = S3Planned
    BY DEF S3Bearing, Places

\* Creation seals nothing.
LEMMA S3InitIInv == S3!Init => S3IInv
<1> SUFFICES ASSUME S3!Init PROVE S3IInv
    OBVIOUS
<1> DEFINE record == [seal |-> None, invalid |-> FALSE, complete |-> FALSE]
<1>1. S3!Created(record, [live |-> TRUE, parts |-> <<>>, tail |-> None]) /\ InfoOK(record, 0)
    BY DEF S3!Init, InfoOK, Readable
<1> QED
    BY <1>1, CreatedSound, S3Located, S3Cloud DEF S3IInv, S3Planned

-------------------------------------------------------------------------------
(* What a call of several kinds may do *)

\* A call that plans goes on by the seal it has.
LEMMA S3PlansOn ==
    ASSUME S3IInv, NEW c \in Calls, call[c].pc \in S3Planned,
           DOMAIN call' = Calls, \A d \in Calls \ {c} : call'[d] = call[d],
           Fields \subseteq DOMAIN call'[c],
           call'[c].kind = call[c].kind, call'[c].destination = call[c].destination,
           call'[c].seal = call[c].seal, call'[c].record = call[c].record,
           call'[c].ending = call[c].ending,
           InfoOK(info', sealedAt), UNCHANGED <<S3!key, sealedAt>>
    PROVE  S3IInv'
<1>1. CallOK(call'[c], editions, sealedAt) /\ Borne(call'[c], sealedAt, S3Bearing)
    BY Parts DEF S3IInv, CallOK, Borne, S3Bearing
<1> QED
    BY <1>1, Moves, S3Cloud DEF S3IInv

\* The record says the upload is complete, or is gone.
LEMMA S3NotesOK ==
    ASSUME S3IInv, S3!Notes \/ UNCHANGED <<info, fresh>>
    PROVE  InfoOK(info', sealedAt)
    BY LaidOK, S3Cloud DEF S3IInv, Sound, Core, S3!Notes, S3!Stored

\* The verdict on what was read of parts and tail.
LEMMA S3JudgedKeeps ==
    ASSUME S3IInv, NEW c \in Calls, NEW parts, NEW tail, S3!Judged(c, parts, tail),
           UNCHANGED <<info, S3!key, sealedAt>>
    PROVE  S3IInv'
<1> USE Parts, S3Located, S3Cloud DEF S3IInv, S3Planned
<1>1. CASE S3!Answers(c, "conflict", S3!Reached(S3!Size(parts), tail))
    BY <1>1, EndsAs, SMTT(60) DEF S3!Answers
<1>2. CASE call' = [call EXCEPT ![c].pc = "streaming", ![c].slot = tail, ![c].parts = <<>>,
                              ![c].pending = S3!Size(parts), ![c].index = S3!Next1(parts),
                              ![c].buffer = S3!Counted(S3!Size(parts), tail)]
    BY <1>2, Changes, ZenonT(60) DEF Fields
<1> QED BY <1>1, <1>2 DEF S3!Judged

-------------------------------------------------------------------------------
(* appendChunk *)

\* No step of an append touches a seal.
LEMMA S3AppendingKeeps ==
    ASSUME S3IInv, NEW c \in Calls, S3!Appending(c)
    PROVE  S3IInv'
<1> USE Parts, S3Located, S3Cloud DEF S3IInv, S3Planned
<1> DEFINE Same == UNCHANGED <<S3!key, sealedAt>>
<1>0. S3!SealBar \notin Places(S3Bearing)
    BY DEF S3!SealBar
<1>1. ASSUME NEW n \in 0..LengthIn["s3"], S3!AppendBegins(c, n) PROVE S3IInv'
  <2>1. info' = info /\ Same
    BY <1>1 DEF S3!AppendBegins, S3!upload
  <2>2. CASE S3!Ends(c, "append", "failed", 0) \/ S3!Ends(c, "append", S3!SealBar, S3!ToldLength)
    BY <1>0, <2>1, <2>2, EndsAs
  <2>3. CASE S3!Begins(c, [S3!Idle EXCEPT !.kind = "append", !.pc = "reading", !.offset = n])
    <3>1. CallOK(call'[c], editions, sealedAt) /\ Borne(call'[c], sealedAt, S3Bearing)
      BY <2>3, IdleOK, SMTT(60) DEF S3!Begins, CallOK, Fields, Borne, S3Bearing
    <3> QED BY <2>1, <2>3, <3>1, Moves DEF S3!Begins
  <2> QED BY <1>1, <2>2, <2>3 DEF S3!AppendBegins
<1>2. ASSUME NEW n \in 0..LengthIn["s3"], S3!BytesArrive(c, n) PROVE S3IInv'
  BY <1>2, Changes, ZenonT(60) DEF S3!BytesArrive, S3!upload, Fields
<1>3. CASE S3!ListParts(c)
  <2>1. info' = info /\ Same
    BY <1>3 DEF S3!ListParts, S3!upload
  <2>2. CASE S3!Answers(c, "not-found", 0)
    BY <2>1, <2>2, EndsAs DEF S3!Answers
  <2>3. CASE call' = [call EXCEPT ![c].pc = "fetching", ![c].parts = staged.parts]
    BY <2>1, <2>3, Changes DEF Fields
  <2> QED BY <1>3, <2>1, <2>2, <2>3, S3JudgedKeeps DEF S3!ListParts
<1>4. CASE S3!ReadTail(c)
  <2>1. info' = info /\ Same
    BY <1>4 DEF S3!ReadTail, S3!upload
  <2>2. CASE call' = [call EXCEPT ![c].pc = "listing", ![c].slot = staged.tail]
    BY <2>1, <2>2, Changes DEF Fields
  <2> QED BY <1>4, <2>1, <2>2, S3JudgedKeeps DEF S3!ReadTail
<1>5. CASE S3!FlushPart(c)
  <2>1. info' = info /\ Same
    BY <1>5 DEF S3!FlushPart
  <2>2. CASE call' = [call EXCEPT ![c].pc = "streaming", ![c].index = @ + 1, ![c].buffer = <<>>,
                                  ![c].pending = @ + Len(call[c].buffer)]
    BY <2>1, <2>2, Changes, ZenonT(60) DEF Fields
  <2>3. CASE S3!Answers(c, "not-found", 0)
    BY <2>1, <2>3, EndsAs DEF S3!Answers
  <2> QED BY <1>5, <2>2, <2>3 DEF S3!FlushPart
<1>6. CASE S3!BodyEnds(c)
  <2>1. info' = info /\ Same
    BY <1>6 DEF S3!BodyEnds, S3!upload
  <2> QED BY <1>6, <2>1, GoesTo, EndsAs DEF S3!BodyEnds, S3!Answers
<1>7. CASE S3!BodyOverruns(c)
  <2>1. InfoOK(info', sealedAt) /\ Same
    BY <1>7, LaidOK DEF S3!BodyOverruns, S3!SealBar, S3!Stored
  <2> QED BY <1>0, <1>7, <2>1, EndsAs DEF S3!BodyOverruns, S3!Answers
<1>8. CASE S3!ParkTail(c)
  <2>1. info' = info /\ Same
    BY <1>8 DEF S3!ParkTail
  <2> QED BY <1>8, <2>1, GoesTo, RepeatsAt DEF S3!ParkTail
<1>9. CASE S3!Fence(c)
  <2>1. info' = info /\ Same
    BY <1>9 DEF S3!Fence, S3!upload
  <2> QED BY <1>0, <1>9, <2>1, EndsAs DEF S3!Fence, S3!Answers
<1> QED
    BY <1>1, <1>2, <1>3, <1>4, <1>5, <1>6, <1>7, <1>8, <1>9 DEF S3!Appending

-------------------------------------------------------------------------------
(* completeUpload *)

\* Up to the seal, or to the one that came first.
LEMMA S3SealingKeeps ==
    ASSUME S3IInv, NEW c \in Calls,
           (\E n \in 0..LengthIn["s3"] : S3!CompleteReads(c, n)) \/ S3!Inspect(c) \/ S3!Seal(c)
    PROVE  S3IInv'
<1> USE Parts, S3Located, S3Cloud DEF S3IInv, S3Planned
<1>1. ASSUME NEW n \in 0..LengthIn["s3"], S3!CompleteReads(c, n) PROVE S3IInv'
  <2>1. info' = info /\ UNCHANGED <<S3!key, sealedAt>>
    BY <1>1 DEF S3!CompleteReads, S3!upload
  <2>2. CASE S3!Ends(c, "complete", "not-found", 0) \/ S3!Ends(c, "complete", "failed", 0)
    BY <2>1, <2>2, EndsAs
  <2>3. CASE info # None /\ S3!Begins(c, [S3!Idle EXCEPT !.kind = "complete", !.expected = n, !.record = info,
                          !.ending = "gone",
                          !.pc = IF info.complete THEN "adopting"
                                 ELSE IF info.seal # None THEN "planning" ELSE "inspecting"])
    <3>1. CallOK(call'[c], editions, sealedAt) /\ Borne(call'[c], sealedAt, S3Bearing)
      BY <2>3, IdleOK
      DEF S3!Begins, CallOK, Fields, Borne, S3Bearing, InfoOK, Readable
    <3> QED BY <2>1, <2>3, <3>1, Moves DEF S3!Begins
  <2> QED BY <1>1, <2>2, <2>3 DEF S3!CompleteReads
<1>2. CASE S3!Inspect(c)
  <2>1. S3!EditionOf(object) \in Nat /\ S3!EditionOf(object) <= editions
    BY DEF S3!EditionOf, KeyOK
  <2>2. CallOK(call'[c], editions, sealedAt) /\ Borne(call'[c], sealedAt, S3Bearing)
    BY <1>2, <2>1 DEF S3!Inspect, CallOK, Fields, Borne, S3Bearing
  <2> QED BY <1>2, <2>2, Moves DEF S3!Inspect, S3!upload
<1>3. CASE S3!Seal(c)
  <2>0. UNCHANGED S3!key
    BY <1>3 DEF S3!Seal
  <2>1. CASE S3!Answers(c, "not-found", 0) /\ UNCHANGED <<info, fresh, sealedAt>>
    BY <2>0, <2>1, EndsAs DEF S3!Answers
  <2>2. CASE info # None /\ (info.seal # None \/ info.complete)
             /\ S3!Proceeds(c, info) /\ UNCHANGED <<info, fresh, sealedAt>>
    <3>1. CallOK(call'[c], editions, sealedAt) /\ Borne(call'[c], sealedAt, S3Bearing)
      BY <2>2 DEF S3!Proceeds, CallOK, Fields, Borne, S3Bearing, InfoOK, Readable
    <3> QED BY <2>0, <2>2, <3>1, Moves DEF S3!Proceeds
  <2>3. CASE S3!Answers(c, "failed", 0) /\ UNCHANGED <<info, fresh, sealedAt>>
    BY <2>0, <2>3, EndsAs DEF S3!Answers
  \* What this completion saw at the key has been there by now.
  <2>4. CASE info # None /\ S3!Stored(S3!Sealed(c)) /\ sealedAt' = editions
             /\ (S3!Proceeds(c, S3!Sealed(c)) \/ (S3!MayRepeat(c) /\ S3!Repeats(c)))
    <3>1. "seal" \in DOMAIN S3!Sealed(c) /\ SealOK(S3!Sealed(c).seal, sealedAt')
      BY <2>4 DEF S3!Sealed, SealOK, CallOK, InfoOK, Readable
    <3>2. CallOK(call[c], editions, sealedAt') /\ Borne(call[c], sealedAt', S3Bearing)
      BY <2>4, CallKept, BorneKept
    <3>3. InfoOK(info', sealedAt') /\ sealedAt' \in Nat /\ sealedAt <= sealedAt'
      BY <2>4, <3>1 DEF S3!Stored, InfoOK, Readable
    <3>4. CASE S3!Proceeds(c, S3!Sealed(c))
      <4>1. CallOK(call'[c], editions, sealedAt') /\ Borne(call'[c], sealedAt', S3Bearing)
        BY <3>1, <3>2, <3>4
        DEF S3!Proceeds, CallOK, Fields, Borne, S3Bearing, InfoOK, Readable
      <4>2. DOMAIN call' = Calls /\ \A d \in Calls \ {c} : call'[d] = call[d]
        BY <3>4 DEF S3!Proceeds
      <4> QED BY <2>0, <2>4, <3>3, <4>1, <4>2, Grows DEF S3!key
    <3>5. CASE S3!Repeats(c)
      <4>1. CallOK(call'[c], editions, sealedAt') /\ Borne(call'[c], sealedAt', S3Bearing)
        BY <3>2, <3>5 DEF S3!Repeats, CallOK, Fields, Borne, S3Bearing
      <4>2. DOMAIN call' = Calls /\ \A d \in Calls \ {c} : call'[d] = call[d]
        BY <3>5 DEF S3!Repeats
      <4> QED BY <2>0, <2>4, <3>3, <4>1, <4>2, Grows DEF S3!key
    <3> QED BY <2>4, <3>4, <3>5
  <2> QED BY <1>3, <2>1, <2>2, <2>3, <2>4 DEF S3!Seal
<1> QED BY <1>1, <1>2, <1>3

\* The plan, the length of the seal, the last part.
LEMMA S3PlanningKeeps ==
    ASSUME S3IInv, NEW c \in Calls,
           \/ S3!PlanParts(c) \/ S3!PlanTail(c) \/ S3!LiftSeal(c) \/ S3!PointSeal(c)
           \/ S3!LastPart(c) \/ S3!DropTail(c)
    PROVE  S3IInv'
<1> USE Parts, S3Located, S3Cloud DEF S3IInv, S3Planned
<1> DEFINE Same == UNCHANGED <<S3!key, sealedAt>>
<1>1. CASE S3!PlanParts(c)
  <2>1. call[c].pc \in S3Planned /\ info' = info /\ Same
    BY <1>1 DEF S3!PlanParts, S3!upload
  <2>2. CASE S3!Goes(c, "adopting")
    BY <2>1, <2>2, GoesTo
  <2>3. CASE call' = [call EXCEPT ![c].pc = "tailing", ![c].parts = staged.parts]
    BY <2>1, <2>3, S3PlansOn DEF Fields
  <2> QED BY <1>1, <2>2, <2>3 DEF S3!PlanParts
<1>2. CASE S3!PlanTail(c)
  <2>1. call[c].pc \in S3Planned /\ info' = info /\ Same
    BY <1>2 DEF S3!PlanTail, S3!upload
  <2>2. \E slot, told, buffer, pc :
           call' = [call EXCEPT ![c].slot = slot, ![c].told = told, ![c].buffer = buffer, ![c].pc = pc]
    BY <1>2 DEF S3!PlanTail
  <2> QED BY <2>1, <2>2, S3PlansOn DEF Fields
<1>3. CASE S3!LiftSeal(c)
  <2>1. InfoOK(info', sealedAt) /\ Same
    BY <1>3 DEF S3!LiftSeal, S3!Stored, InfoOK, Readable
  <2> QED BY <1>3, <2>1, EndsAs DEF S3!LiftSeal, S3!Answers
<1>4. CASE S3!PointSeal(c)
  <2>1. Same
    BY <1>4 DEF S3!PointSeal
  <2>2. CASE /\ info' = info
             /\ S3!Answers(c, "not-found", 0) \/ S3!Answers(c, "conflict", call[c].told)
    BY <2>1, <2>2, EndsAs DEF S3!Answers
  <2>3. CASE /\ info # None /\ info.seal # None
             /\ IF info.seal.length = call[c].expected THEN UNCHANGED <<info, fresh>>
                ELSE S3!Stored([info EXCEPT !.seal.length = call[c].expected])
             /\ call' = [call EXCEPT ![c].record = info', ![c].pc = S3!Assembles(c, call[c].slot)]
    <3>1. "seal" \in DOMAIN info' /\ SealOK(info'.seal, sealedAt)
      BY <2>3 DEF S3!Stored, SealOK, InfoOK, Readable
    <3>2. CallOK(call'[c], editions, sealedAt) /\ Borne(call'[c], sealedAt, S3Bearing)
      BY <2>3, <3>1 DEF CallOK, Fields, Borne, S3Bearing, InfoOK, Readable
    <3>3. InfoOK(info', sealedAt)
      BY <3>1 DEF InfoOK, Readable
    <3> QED BY <2>1, <2>3, <3>2, <3>3, Moves
  <2> QED BY <1>4, <2>2, <2>3 DEF S3!PointSeal
<1>5. CASE S3!LastPart(c)
  <2>1. call[c].pc \in S3Planned /\ info' = info /\ Same
    BY <1>5 DEF S3!LastPart
  <2>2. CASE S3!Answers(c, "failed", 0)
    BY <2>1, <2>2, EndsAs DEF S3!Answers
  <2>3. CASE call' = [call EXCEPT ![c].parts = S3!With(@, S3!Next1(@), call[c].buffer),
                                  ![c].pc = IF @ = "lasting" THEN "dropping" ELSE "publishing"]
    BY <2>1, <2>3, S3PlansOn DEF Fields
  <2> QED BY <1>5, <2>2, <2>3 DEF S3!LastPart
<1>6. CASE S3!DropTail(c)
  <2>1. call[c].pc \in S3Planned /\ info' = info /\ Same /\ S3!Goes(c, "publishing")
    BY <1>6 DEF S3!DropTail
  <2> QED BY <2>1, S3PlansOn DEF S3!Goes, Fields
<1> QED BY <1>1, <1>2, <1>3, <1>4, <1>5, <1>6

\* The completion of the multipart upload, which alone changes the key.
LEMMA S3PublishKeeps ==
    ASSUME S3IInv, NEW c \in Calls, S3!Publish(c)
    PROVE  S3IInv'
<1> USE Parts, S3Located, S3Cloud DEF S3IInv, S3Planned
<1>1. info' = info /\ sealedAt' = sealedAt
    BY DEF S3!Publish
<1>2. /\ DOMAIN call' = Calls /\ \A d \in Calls \ {c} : call'[d] = call[d]
      /\ CallOK(call'[c], editions, sealedAt) /\ Borne(call'[c], sealedAt, S3Bearing)
  <2>1. CASE S3!Goes(c, "recording") \/ S3!Goes(c, "adopting")
    BY <2>1 DEF S3!Goes, CallOK, Fields, Borne, S3Bearing
  <2>2. CASE S3!Answers(c, "failed", 0)
    BY <2>2, EndsIn DEF S3!Answers
  <2>3. CASE call' = [call EXCEPT ![c].pc = "adopting",
                                  ![c].ending = IF S3!Permitted(c) THEN "gone" ELSE "refused"]
    BY <2>3 DEF CallOK, Fields, Borne, S3Bearing
  <2> QED BY <2>1, <2>2, <2>3 DEF S3!Publish
<1>3. CASE UNCHANGED S3!key
    BY <1>1, <1>2, <1>3, Moves
<1>4. ASSUME NEW body, S3!Publishes(S3!Publication, body) PROVE S3IInv'
  <2>1. editions' = editions + 1 /\ KeyOK(object', editions')
    BY <1>4 DEF S3!Publishes, KeyOK
  <2>2. CallOK(call'[c], editions', sealedAt)
    BY <1>2, <2>1, CallKept
  <2> QED BY <1>1, <1>2, <2>1, <2>2, Grows
<1> QED BY <1>3, <1>4 DEF S3!Publish

\* RECORD.
LEMMA S3RecordKeeps ==
    ASSUME S3IInv, NEW c \in Calls, S3!Record(c) \/ S3!Reap(c)
    PROVE  S3IInv'
<1> USE Parts, S3Located, S3Cloud DEF S3IInv, S3Planned
<1>1. InfoOK(info', sealedAt) /\ UNCHANGED <<S3!key, sealedAt>>
    BY S3NotesOK DEF S3!Record, S3!Reap
<1>2. \E told : S3!Answers(c, "complete", told)
    BY DEF S3!Record, S3!Reap
<1> QED BY <1>1, <1>2, EndsAs DEF S3!Answers

-------------------------------------------------------------------------------
(* The other calls, other writers, crashes *)

\* A probe may record that the upload is complete.
LEMMA S3ProbingKeeps ==
    ASSUME S3IInv, NEW c \in Calls, S3!Probing(c)
    PROVE  S3IInv'
<1> USE Parts, S3Located, S3Cloud DEF S3IInv, S3Planned
<1> DEFINE Same == UNCHANGED <<S3!key, sealedAt>>
<1>1. CASE S3!ProbeBegins(c)
  <2>1. info' = info /\ Same
    BY <1>1 DEF S3!ProbeBegins, S3!upload
  <2>2. CASE S3!Ends(c, "probe", "not-found", 0)
    BY <2>1, <2>2, EndsAs
  <2>3. CASE S3!Begins(c, [S3!Idle EXCEPT !.kind = "probe", !.record = info, !.ending = "gone",
                          !.pc = IF info.complete THEN "adopting" ELSE "telling"])
    <3>1. CallOK(call'[c], editions, sealedAt) /\ Borne(call'[c], sealedAt, S3Bearing)
      BY <2>3, IdleOK DEF S3!Begins, CallOK, Fields, Borne, S3Bearing
    <3> QED BY <2>1, <2>3, <3>1, Moves DEF S3!Begins
  <2> QED BY <1>1, <2>2, <2>3 DEF S3!ProbeBegins
<1>2. CASE S3!TellParts(c)
  <2>1. info' = info /\ Same
    BY <1>2 DEF S3!TellParts, S3!upload
  <2>2. CASE call' = [call EXCEPT ![c].pc = "measuring", ![c].pending = S3!Size(staged.parts)]
    BY <2>1, <2>2, Changes DEF Fields
  <2> QED BY <1>2, <2>1, <2>2, GoesTo, EndsAs DEF S3!TellParts, S3!Answers
<1>3. CASE S3!TellReached(c)
  <2>1. info' = info /\ Same
    BY <1>3 DEF S3!TellReached, S3!upload
  <2>2. \E pc \in {"conflict", "settled", "state"} : \E told : S3!Answers(c, pc, told)
    BY <1>3 DEF S3!TellReached
  <2> QED BY <2>1, <2>2, EndsAs DEF S3!Answers
<1>4. CASE S3!Adopt(c)
  <2>1. info' = info /\ Same
    BY <1>4 DEF S3!Adopt, S3!upload
  <2>2. S3!Goes(c, "promoting")
        \/ \E pc \in {"destination", "not-found", "settled", "complete"} : S3!Answers(c, pc, 0)
    BY <1>4 DEF S3!Adopt
  <2> QED BY <2>1, <2>2, GoesTo, EndsAs DEF S3!Answers
<1>5. CASE S3!Promote(c)
  <2>1. InfoOK(info', sealedAt) /\ Same
    BY <1>5, S3NotesOK DEF S3!Promote
  <2>2. S3!Answers(c, "settled", 0) \/ S3!Goes(c, "reaping")
    BY <1>5 DEF S3!Promote
  <2> QED BY <2>1, <2>2, GoesTo, EndsAs DEF S3!Answers
<1> QED BY <1>1, <1>2, <1>3, <1>4, <1>5 DEF S3!Probing

\* A cancel forgets the record and its seal.
LEMMA S3DiscardingKeeps ==
    ASSUME S3IInv, NEW c \in Calls, S3!Discarding(c)
    PROVE  S3IInv'
<1> USE Parts, S3Located, S3Cloud DEF S3IInv, S3Planned
<1>1. CASE S3!DiscardReads(c)
  <2>1. CallOK(call'[c], editions, sealedAt) /\ Borne(call'[c], sealedAt, S3Bearing)
    BY <1>1, IdleOK DEF S3!DiscardReads, S3!Begins, CallOK, Fields, Borne, S3Bearing
  <2> QED BY <1>1, <2>1, Moves DEF S3!DiscardReads, S3!Begins, S3!upload
<1>2. CASE S3!DiscardAborts(c) \/ S3!DiscardClears(c)
  BY <1>2, GoesTo DEF S3!DiscardAborts, S3!DiscardClears
<1>3. CASE S3!DiscardForgets(c)
  <2>1. InfoOK(info', sealedAt) /\ UNCHANGED <<S3!key, sealedAt>>
    BY <1>3 DEF S3!DiscardForgets, InfoOK
  <2> QED BY <1>3, <2>1, EndsAs DEF S3!DiscardForgets, S3!Answers
<1> QED BY <1>1, <1>2, <1>3 DEF S3!Discarding

\* The invariant is inductive.
LEMMA S3NextIInv == S3IInv /\ [S3!Next]_S3!vars => S3IInv'
<1> SUFFICES ASSUME S3IInv, [S3!Next]_S3!vars PROVE S3IInv'
    OBVIOUS
<1>1. CASE UNCHANGED S3!vars
  BY <1>1 DEF S3IInv, Sound, Core, S3!vars, S3!upload, S3!key
<1>2. CASE S3!SweepTail
  BY <1>2 DEF S3!SweepTail, S3IInv, Sound, Core, S3!key
<1>3. CASE S3!StrangerWrites \/ S3!StrangerRewrites \/ S3!StrangerDeletes
  BY <1>3, StrangersAt, S3Cloud DEF S3IInv
<1>4. ASSUME NEW c \in Calls, S3!Completing(c) PROVE S3IInv'
  BY <1>4, S3SealingKeeps, S3PlanningKeeps, S3PublishKeeps, S3RecordKeeps DEF S3!Completing
<1>5. ASSUME NEW c \in Calls, S3!Crash(c) PROVE S3IInv'
  BY <1>5, S3Located, CrashAt, S3Cloud DEF S3IInv, S3Planned
<1> QED
    BY <1>1, <1>2, <1>3, <1>4, <1>5, S3AppendingKeeps, S3ProbingKeeps, S3DiscardingKeeps
    DEF S3!Next

(***************************************************************************)
(* Only the completion of the multipart upload puts an object of the       *)
(* upload at the key, and it is held to the state its seal recorded.       *)
(***************************************************************************)
LEMMA S3OnlyOverTheSealed ==
    ASSUME S3IInv, [S3!Next]_S3!vars,
           object' # object, object' # None, object'.publication # None
    PROVE  object = None \/ object.edition <= sealedAt
<1>1. ~S3!StrangerWrites /\ ~S3!StrangerRewrites /\ ~S3!StrangerDeletes /\ ~S3!SweepTail
    BY DEF S3!StrangerWrites, S3!StrangerRewrites, S3!StrangerDeletes, S3!SweepTail, S3!key
<1>2. PICK c \in Calls : \/ S3!Appending(c) \/ S3!Completing(c)
                         \/ S3!Probing(c) \/ S3!Discarding(c) \/ S3!Crash(c)
    BY <1>1 DEF S3!Next, S3!vars, S3!key
<1>3. ~S3!Appending(c)
    BY Zenon DEF S3!Appending, S3!AppendBegins, S3!BytesArrive, S3!ListParts, S3!ReadTail,
           S3!FlushPart, S3!BodyEnds, S3!BodyOverruns, S3!ParkTail, S3!Fence, S3!key
<1>4. ~S3!Probing(c) /\ ~S3!Discarding(c) /\ ~S3!Crash(c)
    BY SMTT(30) DEF S3!Probing, S3!ProbeBegins, S3!TellParts, S3!TellReached, S3!Adopt, S3!Promote,
           S3!Discarding, S3!DiscardReads, S3!DiscardAborts, S3!DiscardClears, S3!DiscardForgets,
           S3!Crash, S3!key
<1>5. S3!Publish(c)
    BY Zenon, <1>2, <1>3, <1>4
    DEF S3!Completing, S3!CompleteReads, S3!Inspect, S3!Seal, S3!PlanParts, S3!PlanTail,
        S3!LiftSeal, S3!PointSeal, S3!LastPart, S3!DropTail, S3!Record, S3!Reap, S3!key
<1>6. call[c].pc = "publishing" /\ S3!EditionOf(object) = call[c].record.seal.destination
    BY <1>5 DEF S3!Publish, S3!Permitted, S3!key
<1>7. SealOK(call[c].record.seal, sealedAt)
    BY <1>6, Parts DEF S3IInv, Borne, S3Bearing, S3Planned
<1> QED BY <1>6, <1>7 DEF S3!EditionOf, SealOK

(***************************************************************************)
(* A publication of the s3 store never replaces what another writer put at *)
(* the key after the upload was sealed, whoever crashes, loses its lock or *)
(* does not hear an answer, and whichever bodies share an ETag.            *)
(***************************************************************************)
THEOREM S3NeverBlind == S3!Spec => NoBlindOverwrite
<1>1. S3IInv /\ [S3!Next]_S3!vars =>
        [(object' # object /\ object' # None /\ object'.publication # None /\ ~Windowed)
          => object = None \/ object.edition <= sealedAt]_vars
    BY S3OnlyOverTheSealed
<1> QED BY <1>1, S3InitIInv, S3NextIInv, PTL DEF S3!Spec, NoBlindOverwrite

HIDE S3Assumed

-------------------------------------------------------------------------------
(* Of all four *)

\* The invariant of whichever store the upload is in.
StoresIInv ==
    /\ store \in {"gcs", "azure", "r2", "s3"}
    /\ store = "gcs" => GcsIInv
    /\ store = "azure" => AzureIInv
    /\ store = "r2" => R2IInv
    /\ store = "s3" => S3IInv

\* A step of the stores is one of the store that the upload is in.
LEMMA StoresStep ==
    ASSUME [Next]_<<vars, store>>
    PROVE  /\ store' = store
           /\ store = "gcs" => [Gcs!Next]_Gcs!vars
           /\ store = "azure" => [Azure!Next]_Azure!vars
           /\ store = "r2" => [R2!Next]_R2!vars
           /\ store = "s3" => [S3!Next]_S3!vars
<1>1. CASE Next
    BY <1>1 DEF Next
<1>2. CASE UNCHANGED <<vars, store>>
    BY <1>2 DEF vars, upload, key, Gcs!vars, Gcs!upload, Gcs!key, Azure!vars, Azure!upload, Azure!key,
               R2!vars, R2!upload, R2!key, S3!vars, S3!upload, S3!key
<1> QED BY <1>1, <1>2

(***************************************************************************)
(* No store's publication ever replaces what another writer put at the key *)
(* after the upload was sealed, outside the window of R2's complete().     *)
(***************************************************************************)
THEOREM NeverBlind == Spec => NoBlindOverwrite
<1>1. Init => StoresIInv
    BY StoresAssumption, GcsInitIInv, AzureInitIInv, R2InitIInv, S3InitIInv DEF Init, StoresIInv
<1>2. StoresIInv /\ [Next]_<<vars, store>> => StoresIInv'
    BY StoresStep, GcsNextIInv, AzureNextIInv, R2NextIInv, S3NextIInv DEF StoresIInv
<1>3. StoresIInv /\ [Next]_<<vars, store>> =>
        [(object' # object /\ object' # None /\ object'.publication # None /\ ~Windowed)
          => object = None \/ object.edition <= sealedAt]_vars
  <2> SUFFICES ASSUME StoresIInv, [Next]_<<vars, store>>,
                      object' # object, object' # None, object'.publication # None, ~Windowed
               PROVE  object = None \/ object.edition <= sealedAt
      OBVIOUS
  <2> QED BY StoresStep, GcsOnlyOverTheSealed, AzureOnlyOverTheSealed, R2OnlyOverTheSealed,
             S3OnlyOverTheSealed DEF StoresIInv, R2!Windowed, Windowed
<1> QED BY <1>1, <1>2, <1>3, PTL DEF Spec, NoBlindOverwrite

-------------------------------------------------------------------------------
(* Numbers, tiles and sequences                                            *)

\* A set of numbers that is not empty has a least one.
LEMMA Least ==
    ASSUME NEW T, T \subseteq Nat, T # {}
    PROVE  \E x \in T : \A y \in T : x <= y
<1> DEFINE R == OpToRel(<, Nat)
           Below(y, x) == <<y, x>> \in R
<1>1. IsWellFoundedOn(R, Nat)
    BY NatLessThanWellFounded
<1>2. \A x, y \in Nat : y < x => Below(y, x)
    BY DEF OpToRel
<1>3. \E x \in T : \A y \in T : ~Below(y, x)
  <2> HIDE DEF R
  <2> QED BY <1>1, WFMin
<1> HIDE DEF Below
<1> QED BY <1>2, <1>3

\* Induction up to a bound, over sets instead of predicates.
LEMMA Climb ==
    ASSUME NEW S, NEW m \in Nat, 0 \in S, \A n \in 0..m : n < m /\ n \in S => n + 1 \in S
    PROVE  0..m \subseteq S
<1> SUFFICES ASSUME (0..m) \ S # {} PROVE FALSE
    OBVIOUS
<1>0. (0..m) \ S \subseteq Nat
    OBVIOUS
<1>1. PICK x \in (0..m) \ S : \A y \in (0..m) \ S : x <= y
    BY <1>0, Least
<1>2. x # 0 /\ x - 1 \in 0..m /\ x - 1 \in S
    BY <1>1
<1> QED BY <1>1, <1>2

\* Where pieces that lie end to end begin and end.
Cuts(m, cut) ==
    m \in Nat /\ cut \in [0..m -> Nat] /\ cut[0] = 0 /\ \A i \in 1..m : cut[i - 1] <= cut[i]
Tile(cut, i) == Slice(cut[i - 1], cut[i] - cut[i - 1])

\* Cuts only ascend.
LEMMA CutsAscend ==
    ASSUME NEW m, NEW cut, Cuts(m, cut), NEW i \in 0..m, NEW j \in i..m
    PROVE  cut[i] <= cut[j]
<1> DEFINE S == {k \in 0..(m - i) : cut[i] <= cut[i + k]}
<1>0. m \in Nat /\ i \in Nat /\ j \in Nat /\ i <= m /\ i <= j /\ j <= m
    BY DEF Cuts
<1>1. 0 \in S
    BY <1>0 DEF Cuts
<1>2. \A k \in 0..(m - i) : k < m - i /\ k \in S => k + 1 \in S
  <2> SUFFICES ASSUME NEW k \in 0..(m - i), k < m - i, k \in S PROVE k + 1 \in S
      OBVIOUS
  <2>1. i + k + 1 \in 1..m /\ i + k \in 0..m /\ cut[i + k] <= cut[i + k + 1]
      BY <1>0 DEF Cuts
  <2>2. cut[i] \in Nat /\ cut[i + k] \in Nat /\ cut[i + k + 1] \in Nat
      BY <1>0, <2>1 DEF Cuts
  <2>3. cut[i] <= cut[i + k] /\ i + (k + 1) = i + k + 1 /\ k + 1 \in 0..(m - i)
      BY <1>0
  <2> QED BY <2>1, <2>2, <2>3
<1>3. m - i \in Nat /\ j - i \in 0..(m - i)
    BY <1>0
<1> HIDE DEF S
<1>4. j - i \in S
    BY <1>1, <1>2, <1>3, Climb
<1>5. i + (j - i) = j
    BY <1>0
<1> QED BY <1>4, <1>5 DEF S

\* Two neighbours end to end.
LEMMA PrefixGrows ==
    ASSUME NEW a \in Nat, NEW n \in Nat
    PROVE  Prefix(a) \o Slice(a, n) = Prefix(a + n) /\ Len(Prefix(a)) = a /\ Len(Slice(a, n)) = n
<1> DEFINE p == Prefix(a)
           t == Slice(a, n)
           s == p \o t
<1>1. /\ p \in Seq(Nat) /\ Len(p) = a /\ t \in Seq(Nat) /\ Len(t) = n
      /\ (\A i \in 1..a : p[i] = i) /\ \A i \in 1..n : t[i] = a + i
    BY DEF Prefix, Slice
<1> HIDE DEF p, t
<1>2. s \in Seq(Nat) /\ Len(s) = a + n
    BY <1>1
<1>3. \A i \in 1..(a + n) : s[i] = i
  <2> TAKE i \in 1..(a + n)
  <2>1. CASE i <= a
      BY <1>1, <2>1
  <2>2. CASE i > a
    <3>1. i - a \in 1..n /\ a + (i - a) = i /\ ~(i <= a)
        BY <2>2
    <3>2. s[i] = t[i - a]
        BY <1>1, <2>2, <3>1
    <3> QED BY <1>1, <3>1, <3>2
  <2>3. i <= a \/ i > a
      OBVIOUS
  <2> HIDE DEF s
  <2> QED BY <2>1, <2>2, <2>3
<1> HIDE DEF s
<1>4. s = [i \in 1..(a + n) |-> i]
    BY <1>2, <1>3
<1> QED BY <1>1, <1>4 DEF s, p, t, Prefix

\* Pieces that lie end to end make the whole up to the last cut.
LEMMA TilesFlatten ==
    ASSUME NEW m, NEW cut, Cuts(m, cut), NEW tiles, tiles = [i \in 1..m |-> Tile(cut, i)]
    PROVE  FlattenSeq(tiles) = Prefix(cut[m])
<1> DEFINE Body(f, i) == IF i = 1 THEN tiles[i] ELSE f[i - 1] \o tiles[i]
           Flat(f) == f = [i \in 1..m |-> Body(f, i)]
           g == [i \in 1..m |-> Prefix(cut[i])]
<1>1. m \in Nat /\ Len(tiles) = m
    BY DEF Cuts
<1>2. ASSUME NEW i \in 1..m
      PROVE  /\ cut[i - 1] \in Nat /\ cut[i] \in Nat /\ cut[i - 1] <= cut[i]
             /\ Prefix(cut[i - 1]) \o tiles[i] = Prefix(cut[i])
             /\ i = 1 => tiles[i] = Prefix(cut[i])
  <2>1. cut[i - 1] \in Nat /\ cut[i] \in Nat /\ cut[i - 1] <= cut[i] /\ (i = 1 => cut[i - 1] = 0)
      BY DEF Cuts
  <2>2. Prefix(cut[i - 1]) \o Slice(cut[i - 1], cut[i] - cut[i - 1])
           = Prefix(cut[i - 1] + (cut[i] - cut[i - 1]))
    <3>1. cut[i] - cut[i - 1] \in Nat
        BY <2>1
    <3> QED BY <2>1, <3>1, PrefixGrows
  <2>3. tiles[i] = Slice(cut[i - 1], cut[i] - cut[i - 1])
      BY DEF Tile
  <2>4. i = 1 => Slice(cut[i - 1], cut[i] - cut[i - 1]) = Prefix(cut[i])
    <3> SUFFICES ASSUME i = 1 PROVE Slice(0, cut[i]) = Prefix(cut[i])
        BY <2>1
    <3>1. \A n \in Nat : [j \in 1..n |-> 0 + j] = [j \in 1..n |-> j]
        OBVIOUS
    <3> QED BY <2>1, <3>1 DEF Slice, Prefix
  <2> QED BY <2>1, <2>2, <2>3, <2>4
<1>3. CASE m = 0
  <2>1. tiles = <<>> /\ Prefix(cut[m]) = <<>>
      BY <1>3 DEF Cuts, Prefix
  <2> QED BY <2>1 DEF FlattenSeq
<1>4. CASE m # 0
  <2>1. Flat(g)
    <3>1. ASSUME NEW i \in 1..m PROVE g[i] = Body(g, i)
      <4>1. g[i] = Prefix(cut[i]) /\ (i # 1 => i - 1 \in 1..m /\ g[i - 1] = Prefix(cut[i - 1]))
          BY <1>1
      <4> HIDE DEF g
      <4> QED BY <1>2, <4>1
    <3> QED BY <3>1
  <2>2. FlattenSeq(tiles) = (CHOOSE f : Flat(f))[m]
    <3>1. Len(tiles) # 0
        BY <1>1, <1>4
    <3> QED BY <1>1, <3>1 DEF FlattenSeq
  <2>3. PICK f : Flat(f) /\ FlattenSeq(tiles) = f[m]
    <3> HIDE DEF Flat, g
    <3> QED BY <2>1, <2>2
  <2>4. \A i \in 1..m : f[i] = IF i = 1 THEN tiles[i] ELSE f[i - 1] \o tiles[i]
      BY <2>3
  <2> DEFINE S == {k \in 0..m : k = 0 \/ f[k] = Prefix(cut[k])}
  <2>5. \A k \in 0..m : k < m /\ k \in S => k + 1 \in S
    <3> SUFFICES ASSUME NEW k \in 0..m, k < m, k \in S PROVE f[k + 1] = Prefix(cut[k + 1])
        BY <1>1
    <3>1. k + 1 \in 1..m /\ (k + 1) - 1 = k
        BY <1>1
    <3>2. f[k + 1] = IF k + 1 = 1 THEN tiles[k + 1] ELSE f[k] \o tiles[k + 1]
        BY <2>4, <3>1
    <3>3. CASE k = 0
        BY <1>2, <3>1, <3>2, <3>3
    <3>4. CASE k # 0
        BY <1>2, <3>1, <3>2, <3>4
    <3> QED BY <3>3, <3>4
  <2>6. m \in S
    <3> HIDE DEF S
    <3>1. 0 \in S
        BY <1>1 DEF S
    <3>2. 0..m \subseteq S
        BY <1>1, <2>5, <3>1, Climb
    <3> QED BY <1>1, <3>2
  <2> QED BY <1>4, <2>3, <2>6
<1> QED BY <1>3, <1>4
-------------------------------------------------------------------------------
(* The bytes of the azure store                                            *)

\* The appends and completions of an upload keep apart, whatever else may overlap.
AzureApart == \A o \in OverlapsIn["azure"] : ~(o \subseteq {"append", "complete"})

AzureLength == LengthIn["azure"]
AzureSeals == [length : 0..AzureLength, destination : Nat, id : Calls]
AzureRecords == [seal : AzureSeals \cup {None}, invalid : BOOLEAN, complete : BOOLEAN,
                 blocks : 0..AzureLength, bytes : 0..AzureLength]
AzureBlocks == UNION {[I -> Azure!Bodies] : I \in SUBSET Azure!Indices}
AzurePcs ==
    Settled \cup {"listing", "condemning", "streaming", "checking", "staging", "accepting", "inspecting",
                  "sealing", "inquiring", "lifting", "publishing", "refused", "recording", "emptying",
                  "removing", "forgetting"}
AzureEndings == {"wrote", "not-found", "complete", "conflict"}
AzureCalls ==
    [kind : Kinds \cup {"none"}, pc : AzurePcs, offset : 0..AzureLength, size : 0..AzureLength,
     index : Nat, pending : 0..AzureLength, expected : 0..AzureLength, told : 0..AzureLength,
     destination : Nat, seal : AzureSeals \cup {None}, plan : SUBSET Azure!Indices,
     ending : AzureEndings, repeated : BOOLEAN, record : AzureRecords \cup {None}, slot : {None},
     parts : {<<>>}, buffer : {<<>>}]

AzureTypes ==
    /\ info \in AzureRecords \cup {None} /\ fresh \subseteq Calls
    /\ staged \in [sentinel : BOOLEAN, blocks : AzureBlocks]
    /\ object \in [edition : Nat, publication : Calls \cup {None}, body : Azure!Bodies] \cup {None}
    /\ editions \in Nat
    /\ call \in [Calls -> AzureCalls]
    /\ \A c \in Calls : End(c) <= AzureLength

\* The blocks lie end to end, none of them empty.
AzureTiled(blocks, m, cut) ==
    /\ cut \in [0..AzureLength -> 0..AzureLength] /\ cut[0] = 0
    /\ \A i \in 1..m : cut[i - 1] < cut[i]
    /\ \A i \in (m + 1)..AzureLength : cut[i] = cut[i - 1]
    /\ DOMAIN blocks = 1..m /\ \A i \in 1..m : blocks[i] = Slice(cut[i - 1], cut[i] - cut[i - 1])
AzureWhole(blocks) ==
    \E m \in 0..AzureLength : \E cut \in [0..AzureLength -> 0..AzureLength] :
        AzureTiled(blocks, m, cut)
\* Their bytes, how many there are, and where the next block goes.
AzureJoin(blocks, indices) ==
    Azure!FlattenSeq([i \in 1..AzureLength |-> IF i \in indices THEN blocks[i] ELSE <<>>])
AzureContent(blocks) == AzureJoin(blocks, DOMAIN blocks)
AzureExtent(blocks) == Len(AzureContent(blocks))
AzureNext(blocks) == Azure!Max(DOMAIN blocks \cup {0}) + 1

Sequential == {"append", "complete"}
Sealed == {"lifting", "publishing", "refused"}

\* Of the steps of one call.
AzureKindOf(r) ==
    /\ r.pc \in {"streaming", "checking", "staging", "accepting"} => r.kind = "append"
    /\ r.pc \in {"inspecting", "sealing", "recording"} \cup Sealed => r.kind = "complete"
    /\ r.pc \in {"emptying", "removing"} =>
          r.kind = "discard" \/ (r.kind = "append" /\ r.ending = "not-found")
    /\ r.pc = "forgetting" => r.kind = "discard"
    /\ r.kind = "none" => r.pc = "idle"
    /\ r.pc = "recording" => r.ending \in {"complete", "conflict"}
AzureStages(c) ==
    /\ call[c].pc = "listing" /\ call[c].kind = "append" => call[c].size = 0
    /\ call[c].pc \in {"streaming", "checking", "staging", "accepting"} =>
          /\ call[c].index \in 1..(End(c) + 1)
          /\ staged.sentinel /\ call[c].pc # "accepting" =>
                AzureExtent(staged.blocks) = End(c) /\ AzureNext(staged.blocks) = call[c].index
    /\ call[c].pc \in {"checking", "staging", "accepting"} =>
          call[c].pending > 0 /\ End(c) + call[c].pending <= AzureLength
    /\ call[c].pc = "accepting" /\ staged.sentinel =>
          AzureExtent(staged.blocks) = End(c) + call[c].pending /\ AzureNext(staged.blocks) = call[c].index + 1
AzurePlans(c) ==
    /\ call[c].pc \in Sealed \/ (call[c].pc \in {"listing", "inquiring"} /\ call[c].kind = "complete") =>
          call[c].seal # None /\ call[c].seal.length = call[c].expected /\ Azure!Bar # "none"
    /\ call[c].pc \in {"lifting", "publishing"} => published = {}
    /\ call[c].pc = "publishing" =>
          /\ call[c].told = call[c].expected
          /\ call[c].plan \subseteq DOMAIN staged.blocks =>
                AzureJoin(staged.blocks, call[c].plan) = Prefix(call[c].told)
    /\ call[c].pc = "refused" => published \subseteq {Prefix(call[c].seal.length)}
AzureClaims(c) ==
    /\ call[c].pc \in {"wrote", "state"} /\ staged.sentinel => call[c].told <= AzureExtent(staged.blocks)
    /\ call[c].pc = "wrote" => \A body \in published : call[c].told <= Len(body)
    /\ call[c].pc \in {"recording", "complete"} => published # {}
    /\ (/\ call[c].pc = "complete" \/ (call[c].pc = "recording" /\ call[c].ending = "complete")
        /\ call[c].told > 0) => Prefix(call[c].told) \in published
AzureStands(c) == AzureKindOf(call[c]) /\ AzureStages(c) /\ AzurePlans(c) /\ AzureClaims(c)

AzureHolds ==
    /\ staged.sentinel => published = {} /\ AzureWhole(staged.blocks)
    /\ published # {} =>
          Azure!Bar # "none" /\ \A c \in Calls : call[c].kind = "append" => ~Running(c)
    /\ published \subseteq {Prefix(n) : n \in 0..AzureLength}
    /\ object # None /\ object.publication # None => object.body \in published
    /\ info # None /\ info.complete => published # {}
AzureAlone ==
    \A c, d \in Calls : Running(c) /\ Running(d) /\ c # d =>
        ~(call[c].kind \in Sequential /\ call[d].kind \in Sequential)
AzureAll ==
    \A c, d \in Calls : call[c].pc = "publishing" /\ call[d].pc = "wrote" =>
        call[d].told <= call[c].told
AzureBytes ==
    /\ AzureTypes /\ AzureHolds /\ AzureAlone /\ AzureAll
    /\ \A c \in Calls : AzureStands(c)

\* The words that are the same in the store as in all of them.
LEMMA AzureSame ==
    /\ \A c : Azure!Running(c) <=> Running(c)
    /\ \A c : Azure!End(c) = End(c)
    /\ \A a, n : Azure!Slice(a, n) = Slice(a, n)
    /\ Azure!Kinds = Kinds /\ Azure!Settled = Settled /\ Azure!Indices = 1..AzureLength
    /\ Azure!Bodies = UNION {[1..n -> 1..AzureLength] : n \in 0..AzureLength}
    /\ AzureLength \in Nat
    BY StoresAssumption, CloudAssumption
    DEF Running, End, Slice, Kinds, Settled, AzureLength, Azure!Running, Azure!End, Azure!Slice,
        Azure!Kinds, Azure!Settled, Azure!Indices, Azure!Bodies

\* A seal is one.
LEMMA AzureSealed == ASSUME NEW seal \in AzureSeals PROVE seal # None
<1>1. AzureLength \in 0..MaxLength /\ MaxLength \in Nat
    BY StoresAssumption, CloudAssumption DEF AzureLength
<1>2. seal \in Seals
    BY <1>1 DEF AzureSeals, Seals, Ids
<1> QED BY <1>2, SealsAssumption

\* What bars an append or ends a completion.
LEMMA AzureBars ==
    /\ Azure!Bar \in {"not-found", "failed", "conflict", "none"}
    /\ Azure!Bar = "none" <=> info # None /\ ~info.invalid /\ ~info.complete /\ info.seal = None
    /\ Azure!Bar = "conflict" => info # None /\ info.seal # None
    /\ Azure!Over \in {"not-found", "failed", "complete", "none"}
    /\ Azure!Over = "none" <=> info # None /\ ~info.invalid /\ ~info.complete
    /\ Azure!Over = "complete" => info # None /\ info.complete
    BY DEF Azure!Bar, Azure!Over, Azure!Unwritable

\* Prefixes are bodies, and as long as they say.
LEMMA AzurePrefixes ==
    ASSUME NEW n \in 0..AzureLength
    PROVE  Prefix(n) \in Azure!Bodies /\ Len(Prefix(n)) = n /\ n \in Nat
<1>1. n \in Nat /\ n <= AzureLength
    BY AzureSame
<1>2. Prefix(n) \in [1..n -> 1..AzureLength]
    BY <1>1, AzureSame DEF Prefix
<1>3. Len(Prefix(n)) = n
    BY <1>1 DEF Prefix
<1> QED BY <1>1, <1>2, <1>3, AzureSame

\* A block is a body.
LEMMA AzureSlices ==
    ASSUME NEW a \in Nat, NEW n \in Nat, a + n <= AzureLength
    PROVE  Slice(a, n) \in Azure!Bodies
<1>1. Slice(a, n) \in [1..n -> 1..AzureLength] /\ n \in 0..AzureLength
    BY AzureSame DEF Slice
<1> QED BY <1>1, AzureSame

\* The length of a body.
LEMMA AzureBodyLength ==
    ASSUME NEW body \in Azure!Bodies
    PROVE  Len(body) \in 0..AzureLength
<1>1. PICK n \in 0..AzureLength : body \in [1..n -> 1..AzureLength]
    BY AzureSame
<1>2. n \in Nat /\ n <= AzureLength
    BY AzureSame
<1>3. Len(body) = n
    BY <1>1, <1>2
<1> QED BY <1>2, <1>3, AzureSame

\* The same words in the store.
LEMMA AzureJoins ==
    /\ \A plan : Azure!Joined(plan) = AzureJoin(staged.blocks, plan)
    /\ \A plan : Azure!Joined(plan)' = AzureJoin(staged'.blocks, plan)
    /\ Azure!Content = AzureContent(staged.blocks) /\ Azure!Content' = AzureContent(staged'.blocks)
    /\ Azure!NextIndex = AzureNext(staged.blocks)
    /\ Len(Azure!Content) = AzureExtent(staged.blocks)
    BY AzureSame DEF Azure!Joined, AzureJoin, Azure!Content, AzureContent, Azure!NextIndex,
        AzureNext, AzureExtent

\* The tiles of a whole: their bytes, their number, and where the next one goes.
LEMMA AzureTiling ==
    ASSUME NEW m \in 0..AzureLength, NEW cut, NEW blocks, AzureTiled(blocks, m, cut)
    PROVE  /\ AzureContent(blocks) = Prefix(cut[m]) /\ AzureExtent(blocks) = cut[m]
           /\ AzureNext(blocks) = m + 1 /\ m <= cut[m] /\ cut[m] \in 0..AzureLength
<1> DEFINE L == AzureLength
           tiles == [i \in 1..L |-> Tile(cut, i)]
<1>0. /\ L \in Nat /\ m \in Nat /\ m <= L /\ cut \in [0..L -> 0..L] /\ cut[0] = 0
      /\ (\A i \in 1..m : cut[i - 1] < cut[i]) /\ (\A i \in (m + 1)..L : cut[i] = cut[i - 1])
      /\ DOMAIN blocks = 1..m
      /\ (\A i \in 1..m : blocks[i] = Slice(cut[i - 1], cut[i] - cut[i - 1]))
    BY AzureSame DEF AzureTiled
<1>1. Cuts(L, cut)
  <2>1. ASSUME NEW i \in 1..L PROVE cut[i - 1] <= cut[i]
    <3>1. i - 1 \in 0..L /\ i \in 0..L /\ (i \in 1..m \/ i \in (m + 1)..L)
        BY <1>0
    <3>2. cut[i - 1] \in 0..L /\ cut[i] \in 0..L
        BY <1>0, <3>1
    <3>3. cut[i - 1] \in Nat /\ cut[i] \in Nat
        BY <1>0, <3>2
    <3>4. cut[i - 1] < cut[i] \/ cut[i] = cut[i - 1]
        BY <1>0, <3>1
    <3> QED BY <3>3, <3>4
  <2>2. cut \in [0..L -> Nat]
      BY <1>0
  <2> QED BY <1>0, <2>1, <2>2 DEF Cuts
<1>2. cut[L] = cut[m]
  <2> DEFINE S == {k \in 0..(L - m) : cut[m + k] = cut[m]}
  <2>1. \A k \in 0..(L - m) : k < L - m /\ k \in S => k + 1 \in S
    <3> SUFFICES ASSUME NEW k \in 0..(L - m), k < L - m, cut[m + k] = cut[m]
                 PROVE  cut[m + (k + 1)] = cut[m] /\ k + 1 \in 0..(L - m)
        OBVIOUS
    <3>1. m + (k + 1) \in (m + 1)..L /\ (m + (k + 1)) - 1 = m + k /\ k + 1 \in 0..(L - m)
        BY <1>0
    <3> QED BY <1>0, <3>1
  <2>2. 0 \in S /\ L - m \in Nat
      BY <1>0
  <2> HIDE DEF S
  <2>3. L - m \in S
      BY <2>1, <2>2, Climb
  <2>4. m + (L - m) = L
      BY <1>0
  <2> QED BY <2>3, <2>4 DEF S
<1>3. m <= cut[m] /\ cut[m] \in 0..L
  <2> DEFINE S == {k \in 0..m : k <= cut[k]}
  <2>1. \A k \in 0..m : k < m /\ k \in S => k + 1 \in S
    <3> SUFFICES ASSUME NEW k \in 0..m, k < m, k <= cut[k]
                 PROVE  k + 1 <= cut[k + 1] /\ k + 1 \in 0..m
        OBVIOUS
    <3>1. k + 1 \in 1..m /\ (k + 1) - 1 = k /\ k \in 0..L /\ k + 1 \in 0..L
        BY <1>0
    <3>2. cut[(k + 1) - 1] < cut[k + 1]
        BY <1>0, <3>1
    <3>3. cut[k] \in 0..L /\ cut[k + 1] \in 0..L
        BY <1>0, <3>1
    <3>4. cut[k] \in Nat /\ cut[k + 1] \in Nat /\ k \in Nat
        BY <1>0, <3>3
    <3> QED BY <3>1, <3>2, <3>4
  <2>2. 0 \in S
      BY <1>0
  <2> HIDE DEF S
  <2>3. m \in Nat /\ m \in 0..m /\ m \in 0..L
      BY <1>0
  <2>4. 0..m \subseteq S
      BY <2>1, <2>2, <2>3, Climb
  <2>5. m \in S
      BY <2>3, <2>4
  <2>6. m <= cut[m]
      BY <2>5 DEF S
  <2> QED BY <1>0, <2>3, <2>6
<1>4. AzureContent(blocks) = Prefix(cut[m])
  <2>1. [i \in 1..L |-> IF i \in 1..m THEN blocks[i] ELSE <<>>] = tiles
    <3>1. ASSUME NEW i \in 1..L
          PROVE  (IF i \in 1..m THEN blocks[i] ELSE <<>>) = Tile(cut, i)
      <4>1. CASE i \in 1..m
          BY <1>0, <4>1 DEF Tile
      <4>2. CASE i \notin 1..m
        <5>1. cut[i] = cut[i - 1] /\ i \in 0..L
            BY <1>0, <4>2
        <5>2. cut[i] - cut[i - 1] = 0
            BY <1>0, <5>1
        <5> QED BY <4>2, <5>2 DEF Tile, Slice
      <4> QED BY <4>1, <4>2
    <3> QED BY <3>1
  <2>2. Azure!FlattenSeq(tiles) = FlattenSeq(tiles)
      BY DEF Azure!FlattenSeq, FlattenSeq
  <2>3. FlattenSeq(tiles) = Prefix(cut[L])
    <3> HIDE DEF tiles, L
    <3> QED BY <1>1, TilesFlatten DEF tiles
  <2>5. AzureContent(blocks)
           = Azure!FlattenSeq([i \in 1..L |-> IF i \in 1..m THEN blocks[i] ELSE <<>>])
      BY <1>0 DEF AzureContent, AzureJoin
  <2> HIDE DEF tiles, L
  <2> QED BY <1>2, <2>1, <2>2, <2>3, <2>5
<1>5. AzureNext(blocks) = m + 1
  <2>1. DOMAIN blocks \cup {0} = 0..m
      BY <1>0
  <2>2. Azure!Max(0..m) = m
    <3>1. m \in 0..m /\ \A y \in 0..m : m >= y
        BY <1>0
    <3>2. ASSUME NEW x \in 0..m, \A y \in 0..m : x >= y PROVE x = m
      <4>1. x >= m
          BY <3>1, <3>2
      <4> QED BY <1>0, <4>1
    <3> QED BY <3>1, <3>2 DEF Azure!Max
  <2> QED BY <2>1, <2>2 DEF AzureNext
<1>6. Len(Prefix(cut[m])) = cut[m]
    BY <1>3, AzurePrefixes
<1> QED BY <1>3, <1>4, <1>5, <1>6 DEF AzureExtent

\* What is whole is a prefix.
LEMMA AzureWholeIs ==
    ASSUME NEW blocks, AzureWhole(blocks)
    PROVE  /\ AzureContent(blocks) = Prefix(AzureExtent(blocks)) /\ AzureExtent(blocks) \in 0..AzureLength
           /\ AzureNext(blocks) \in 1..(AzureExtent(blocks) + 1)
<1>1. PICK m \in 0..AzureLength : \E cut \in [0..AzureLength -> 0..AzureLength] :
                                      AzureTiled(blocks, m, cut)
    BY DEF AzureWhole
<1>2. PICK cut : AzureTiled(blocks, m, cut)
    BY <1>1
<1>3. m \in Nat /\ AzureLength \in Nat
    BY AzureSame
<1> QED BY <1>2, <1>3, AzureTiling

\* Of a plan whose blocks are all still there nothing has changed.
LEMMA AzureRestricted ==
    ASSUME NEW blocks, NEW rest, DOMAIN rest \subseteq DOMAIN blocks,
           \A i \in DOMAIN rest : rest[i] = blocks[i],
           NEW plan, plan \subseteq DOMAIN rest
    PROVE  plan \subseteq DOMAIN blocks /\ AzureJoin(rest, plan) = AzureJoin(blocks, plan)
<1>1. \A i \in plan : rest[i] = blocks[i]
    OBVIOUS
<1>2. [i \in 1..AzureLength |-> IF i \in plan THEN rest[i] ELSE <<>>]
         = [i \in 1..AzureLength |-> IF i \in plan THEN blocks[i] ELSE <<>>]
    BY <1>1
<1> QED BY <1>2 DEF AzureJoin

\* There is room for one more.
LEMMA OneMore ==
    ASSUME NEW m \in Nat, NEW e \in Nat, NEW n \in Nat, NEW L \in Nat, n > 0, m <= e, e + n <= L
    PROVE  m + 1 \in 1..L /\ e + n \in 0..L /\ (1..m) \cup {m + 1} = 1..(m + 1)
    OBVIOUS

\* The next block, where it belongs, leaves the bytes whole.
LEMMA AzureStaged ==
    ASSUME NEW blocks, NEW more, NEW n \in Nat, n > 0,
           AzureWhole(blocks), AzureExtent(blocks) + n <= AzureLength,
           more = [i \in DOMAIN blocks \cup {AzureNext(blocks)} |->
                     IF i = AzureNext(blocks) THEN Slice(AzureExtent(blocks), n) ELSE blocks[i]]
    PROVE  /\ AzureWhole(more) /\ AzureExtent(more) = AzureExtent(blocks) + n
           /\ AzureNext(more) = AzureNext(blocks) + 1
<1>1. PICK m \in 0..AzureLength : \E cut \in [0..AzureLength -> 0..AzureLength] :
                                      AzureTiled(blocks, m, cut)
    BY DEF AzureWhole
<1>2. PICK cut \in [0..AzureLength -> 0..AzureLength] : AzureTiled(blocks, m, cut)
    BY <1>1
<1>3. /\ AzureExtent(blocks) = cut[m] /\ AzureNext(blocks) = m + 1 /\ m <= cut[m]
      /\ cut[m] \in 0..AzureLength
    BY <1>2, AzureTiling
<1>a. AzureLength \in Nat /\ m \in Nat /\ cut[m] \in Nat /\ m + 1 \in Nat
    BY <1>3, AzureSame
<1>b. cut[m] + n <= AzureLength
    BY <1>3
<1>0. PICK L \in Nat, e \in Nat, k \in Nat :
          L = AzureLength /\ e = cut[m] /\ k = m + 1 /\ m \in Nat /\ m <= e /\ e + n <= L
    BY <1>3, <1>a, <1>b
<1>4. k \in 1..L /\ e + n \in 0..L /\ (1..m) \cup {k} = 1..k
    BY <1>0, OneMore
<1>5. /\ cut[0] = 0 /\ (\A i \in 1..m : cut[i - 1] < cut[i]) /\ DOMAIN blocks = 1..m
      /\ \A i \in 1..m : blocks[i] = Slice(cut[i - 1], cut[i] - cut[i - 1])
    BY <1>2 DEF AzureTiled
<1> DEFINE next == [i \in 0..L |-> IF i <= m THEN cut[i] ELSE e + n]
<1>6. \A i \in 0..m : i \in 0..L /\ next[i] = cut[i] /\ cut[i] \in 0..L
  <2> TAKE i \in 0..m
  <2>1. i \in 0..L /\ i <= m
      BY <1>0
  <2> QED BY <1>0, <2>1
<1>7. \A i \in k..L : i \in 0..L /\ next[i] = e + n
  <2> TAKE i \in k..L
  <2>1. i \in 0..L /\ ~(i <= m)
      BY <1>0
  <2> QED BY <2>1
<1>8. next \in [0..L -> 0..L] /\ next[0] = 0
  <2>1. \A i \in 0..L : (IF i <= m THEN cut[i] ELSE e + n) \in 0..L
      BY <1>0, <1>4
  <2>2. 0 \in 0..m
      BY <1>0
  <2> QED BY <1>5, <1>6, <2>1, <2>2
<1> HIDE DEF next
<1>9. \A i \in 1..k : next[i - 1] < next[i]
  <2> TAKE i \in 1..k
  <2>1. CASE i \in 1..m
    <3>1. i \in 0..m /\ i - 1 \in 0..m
        BY <1>0, <1>4, <2>1
    <3> QED BY <1>5, <1>6, <2>1, <3>1
  <2>2. CASE i = k
    <3>1. i - 1 = m /\ m \in 0..m /\ k \in k..L
        BY <1>0, <1>4, <2>2
    <3>2. next[i - 1] = e /\ next[i] = e + n
        BY <1>0, <1>6, <1>7, <2>2, <3>1
    <3> QED BY <1>0, <1>4, <3>2
  <2>3. i \in 1..m \/ i = k
      BY <1>0, <1>4
  <2> QED BY <2>1, <2>2, <2>3
<1>10. \A i \in (k + 1)..L : next[i] = next[i - 1]
  <2> TAKE i \in (k + 1)..L
  <2>1. i \in k..L /\ i - 1 \in k..L
      BY <1>0, <1>4
  <2> QED BY <1>7, <2>1
<1>11. DOMAIN more = 1..k
    BY <1>0, <1>3, <1>4, <1>5
<1>12. \A i \in 1..k : more[i] = Slice(next[i - 1], next[i] - next[i - 1])
  <2> TAKE i \in 1..k
  <2>1. CASE i \in 1..m
    <3>1. i \in 0..m /\ i - 1 \in 0..m /\ i # k
        BY <1>0, <1>4, <2>1
    <3>2. more[i] = blocks[i]
        BY <1>0, <1>3, <1>5, <2>1, <3>1
    <3>3. next[i] = cut[i] /\ next[i - 1] = cut[i - 1]
        BY <1>6, <3>1
    <3> QED BY <1>5, <2>1, <3>2, <3>3
  <2>2. CASE i = k
    <3>1. i - 1 = m /\ m \in 0..m /\ k \in k..L
        BY <1>0, <1>4, <2>2
    <3>2. next[i - 1] = e /\ next[i] = e + n
        BY <1>0, <1>6, <1>7, <2>2, <3>1
    <3>3. (e + n) - e = n
        BY <1>0, <1>4
    <3>4. more[i] = Slice(e, n)
        BY <1>0, <1>3, <2>2
    <3> QED BY <3>2, <3>3, <3>4
  <2>3. i \in 1..m \/ i = k
      BY <1>0, <1>4
  <2> QED BY <2>1, <2>2, <2>3
<1>13. AzureTiled(more, k, next)
  <2> QED BY <1>0, <1>8, <1>9, <1>10, <1>11, <1>12 DEF AzureTiled
<1>14. k \in 0..L /\ next[k] = e + n
    BY <1>0, <1>4, <1>7
<1>15. AzureWhole(more)
  <2> QED BY <1>0, <1>8, <1>13, <1>14 DEF AzureWhole
<1>16. AzureExtent(more) = next[k] /\ AzureNext(more) = k + 1
    BY <1>0, <1>13, <1>14, AzureTiling
<1> QED BY <1>0, <1>3, <1>14, <1>15, <1>16

-------------------------------------------------------------------------------
(* What a step leaves of the bytes                                         *)

\* What the invariant says of one call.
LEMMA AzureParts ==
    ASSUME AzureBytes, NEW c \in Calls
    PROVE  /\ AzureTypes /\ AzureHolds /\ AzureAlone /\ AzureAll
           /\ call[c] \in AzureCalls /\ End(c) <= AzureLength /\ End(c) \in 0..AzureLength
           /\ AzureStands(c) /\ AzureKindOf(call[c]) /\ AzureStages(c) /\ AzurePlans(c) /\ AzureClaims(c)
           /\ call \in [Calls -> AzureCalls] /\ DOMAIN call = Calls
<1>1. /\ AzureTypes /\ AzureHolds /\ AzureAlone /\ AzureAll /\ AzureStands(c)
      /\ call \in [Calls -> AzureCalls] /\ End(c) <= AzureLength
    BY DEF AzureBytes, AzureTypes
<1>2. call[c] \in AzureCalls
    BY <1>1
<1>3. call[c].offset \in 0..AzureLength /\ call[c].size \in 0..AzureLength
    BY <1>2 DEF AzureCalls
<1>4. End(c) \in 0..AzureLength
    BY <1>1, <1>3, AzureSame DEF End
<1> QED BY <1>1, <1>2, <1>4 DEF AzureStands

\* A call that does not move goes by what is still so.
LEMMA AzureKept ==
    ASSUME AzureBytes, NEW d \in Calls, call'[d] = call[d],
           \/ staged' = staged
           \/ /\ ~staged'.sentinel /\ DOMAIN staged'.blocks \subseteq DOMAIN staged.blocks
              /\ \A i \in DOMAIN staged'.blocks : staged'.blocks[i] = staged.blocks[i],
           published' = published, Azure!Bar # "none" => Azure!Bar' # "none"
    PROVE  AzureStands(d)'
<1>1. AzureKindOf(call[d]) /\ AzureStages(d) /\ AzurePlans(d) /\ AzureClaims(d)
    BY AzureParts
<1>2. End(d)' = End(d)
    BY DEF End
<1>3. AzureKindOf(call'[d]) /\ AzureStages(d)'
    BY <1>1, <1>2 DEF AzureStages
<1>4. call[d].plan \subseteq DOMAIN staged'.blocks =>
          /\ call[d].plan \subseteq DOMAIN staged.blocks
          /\ AzureJoin(staged'.blocks, call[d].plan) = AzureJoin(staged.blocks, call[d].plan)
    BY AzureRestricted
<1>5. AzurePlans(d)'
    BY <1>1, <1>4 DEF AzurePlans
<1>6. AzureClaims(d)'
    BY <1>1 DEF AzureClaims
<1> QED BY <1>3, <1>5, <1>6 DEF AzureStands, AzureKindOf

\* A call that is neither an append nor a completion at work stands by while
\* one of these stages a block, publishes or lifts a seal.
LEMMA AzureBystands ==
    ASSUME AzureBytes, NEW d \in Calls, call'[d] = call[d],
           ~(Running(d) /\ call[d].kind \in Sequential),
           staged'.sentinel => /\ staged.sentinel
                               /\ \A n \in Nat : n <= AzureExtent(staged.blocks) => n <= AzureExtent(staged'.blocks),
           published \subseteq published',
           call[d].pc = "wrote" => \A body \in published' \ published : call[d].told <= Len(body)
    PROVE  AzureStands(d)'
<1>1. AzureKindOf(call[d]) /\ AzureStages(d) /\ AzurePlans(d) /\ AzureClaims(d)
    BY AzureParts
<1>2. call[d].told \in Nat
  <2>1. call[d] \in AzureCalls
      BY AzureParts
  <2> QED BY <2>1 DEF AzureCalls
<1>3. /\ call[d].pc \notin {"streaming", "checking", "staging", "accepting", "recording"} \cup Sealed
      /\ ~(call[d].pc \in {"listing", "inquiring"} /\ call[d].kind = "complete")
    BY <1>1 DEF AzureKindOf, Running, Settled, Sequential, Sealed
<1>4. AzureKindOf(call'[d]) /\ AzureStages(d)' /\ AzurePlans(d)'
    BY <1>1, <1>3 DEF AzureStages, AzurePlans, Sealed
<1>5. AzureClaims(d)'
    BY <1>1, <1>2, <1>3 DEF AzureClaims
<1> QED BY <1>4, <1>5 DEF AzureStands

\* What a call may become: it goes on, or ends, or begins where it may.
AzureFits(c, r) ==
    /\ r \in AzureCalls /\ r.offset + r.size <= AzureLength
    /\ r.pc \notin Settled =>
          \/ Running(c) /\ r.kind = call[c].kind
          \/ Azure!MayBegin(c, r.kind) /\ (r.kind = "append" => published = {})
    /\ r.pc = "wrote" => Running(c) /\ call[c].kind = "append"
    /\ r.pc = "publishing" => \A d \in Calls : call[d].pc = "wrote" => call[d].told <= r.told

\* Then the calls are still calls, and appends and completions apart.
LEMMA AzureCallsFit ==
    ASSUME AzureApart, AzureBytes, NEW c \in Calls, NEW r, AzureFits(c, r), call' = [call EXCEPT ![c] = r],
           published' # {} => published # {} \/ (r.kind = "complete" /\ r.pc \notin Settled)
    PROVE  /\ call' \in [Calls -> AzureCalls] /\ (\A d \in Calls : End(d)' <= AzureLength)
           /\ AzureAlone' /\ AzureAll'
           /\ published' # {} => \A d \in Calls : call'[d].kind = "append" => ~Running(d)'
<1>1. /\ AzureTypes /\ AzureHolds /\ AzureAlone /\ AzureAll /\ call \in [Calls -> AzureCalls]
    BY AzureParts
<1>2. call'[c] = r /\ (\A d \in Calls : d # c => call'[d] = call[d])
    BY <1>1
<1>3. call' \in [Calls -> AzureCalls]
    BY <1>1 DEF AzureFits
<1>4. ASSUME NEW d \in Calls PROVE End(d)' <= AzureLength
  <2>1. CASE d = c
      BY <1>2, <2>1 DEF End, AzureFits
  <2>2. CASE d # c
      BY <1>1, <1>2, <2>2 DEF End, AzureTypes
  <2> QED BY <2>1, <2>2
<1>5. ASSUME NEW d \in Calls, d # c, Running(c)', Running(d)',
             r.kind \in Sequential, call[d].kind \in Sequential
      PROVE  FALSE
  <2>1. Running(d) /\ r.pc \notin Settled
      BY <1>2, <1>5 DEF Running
  <2>2. CASE Running(c) /\ r.kind = call[c].kind
      BY <1>1, <1>5, <2>1, <2>2 DEF AzureAlone
  <2>3. CASE Azure!MayBegin(c, r.kind)
    <3>1. {r.kind, call[d].kind} \in OverlapsIn["azure"]
        BY <2>1, <2>3, AzureSame DEF Azure!MayBegin
    <3> QED BY <1>5, <3>1 DEF AzureApart, Sequential
  <2> QED BY <2>1, <2>2, <2>3 DEF AzureFits
<1>6. AzureAlone'
  <2> SUFFICES ASSUME NEW a \in Calls, NEW b \in Calls, Running(a)', Running(b)', a # b,
                      call'[a].kind \in Sequential, call'[b].kind \in Sequential
               PROVE  FALSE
      BY DEF AzureAlone
  <2>1. CASE a = c
      BY <1>2, <1>5, <2>1
  <2>2. CASE b = c
      BY <1>2, <1>5, <2>2
  <2>3. CASE a # c /\ b # c
    <3>1. Running(a) /\ Running(b) /\ call[a].kind \in Sequential /\ call[b].kind \in Sequential
        BY <1>2, <2>3 DEF Running
    <3> QED BY <1>1, <3>1 DEF AzureAlone
  <2> QED BY <2>1, <2>2, <2>3
<1>7. AzureAll'
  <2> SUFFICES ASSUME NEW a \in Calls, NEW b \in Calls, call'[a].pc = "publishing", call'[b].pc = "wrote"
               PROVE  call'[b].told <= call'[a].told
      BY DEF AzureAll
  <2>1. CASE a = c
      BY <1>2, <2>1 DEF AzureFits
  <2>2. CASE a # c /\ b = c
    <3>1. Running(c) /\ call[c].kind = "append" /\ call[a].pc = "publishing"
        BY <1>2, <2>2 DEF AzureFits
    <3>2. call[a].kind = "complete" /\ Running(a)
        BY <3>1, AzureParts DEF AzureKindOf, Sealed, Running, Settled
    <3> QED BY <1>1, <2>2, <3>1, <3>2 DEF AzureAlone, Sequential
  <2>3. CASE a # c /\ b # c
      BY <1>1, <1>2, <2>3 DEF AzureAll
  <2> QED BY <2>1, <2>2, <2>3
<1>8. ASSUME published' # {}, NEW d \in Calls, call'[d].kind = "append", Running(d)' PROVE FALSE
  <2>1. CASE d = c
    <3>1. r.kind = "append" /\ r.pc \notin Settled /\ published # {}
        BY <1>2, <1>8, <2>1 DEF Running
    <3>2. Running(c) /\ call[c].kind = "append"
        BY <3>1 DEF AzureFits
    <3> QED BY <1>1, <3>1, <3>2 DEF AzureHolds
  <2>2. CASE d # c /\ published # {}
      BY <1>1, <1>2, <1>8, <2>2 DEF AzureHolds, Running
  <2>3. CASE d # c /\ published = {}
    <3>1. r.kind = "complete" /\ r.pc \notin Settled
        BY <1>8, <2>3
    <3>2. Running(c)' /\ call[d].kind = "append"
        BY <1>2, <1>8, <2>3, <3>1 DEF Running
    <3> QED BY <1>5, <1>8, <2>3, <3>1, <3>2 DEF Sequential
  <2> QED BY <2>1, <2>2, <2>3
<1> QED BY <1>3, <1>4, <1>6, <1>7, <1>8

\* What becomes of the record.
AzureRecordGoes ==
    /\ info' \in AzureRecords \cup {None} /\ fresh' \subseteq Calls
    /\ Azure!Bar # "none" => Azure!Bar' # "none"
    /\ info' # None /\ info'.complete => published # {}

\* One call moves, and the bytes and the key stay as they are.
LEMMA AzureMoves ==
    ASSUME AzureApart, AzureBytes, NEW c \in Calls, NEW r, AzureFits(c, r), call' = [call EXCEPT ![c] = r],
           UNCHANGED <<staged, key>>, AzureRecordGoes, AzureStands(c)'
    PROVE  AzureBytes'
<1>1. AzureTypes /\ AzureHolds /\ call \in [Calls -> AzureCalls]
    BY AzureParts
<1>2. /\ staged' = staged /\ object' = object /\ editions' = editions /\ published' = published
    BY DEF key
<1>3. /\ call' \in [Calls -> AzureCalls] /\ (\A d \in Calls : End(d)' <= AzureLength)
      /\ AzureAlone' /\ AzureAll'
      /\ published' # {} => \A d \in Calls : call'[d].kind = "append" => ~Running(d)'
    BY <1>2, AzureCallsFit
<1>4. ASSUME NEW d \in Calls PROVE AzureStands(d)'
  <2>1. CASE d # c
    <3>1. call'[d] = call[d]
        BY <1>1, <2>1
    <3> QED BY <1>2, <3>1, AzureKept DEF AzureRecordGoes
  <2> QED BY <2>1
<1>5. AzureTypes'
    BY <1>1, <1>2, <1>3 DEF AzureTypes, AzureRecordGoes
<1>6. AzureHolds'
    BY <1>1, <1>2, <1>3 DEF AzureHolds, AzureRecordGoes
<1> QED BY <1>3, <1>4, <1>5, <1>6 DEF AzureBytes

\* The ways of the record: as it was,
LEMMA AzureRecordStays ==
    ASSUME AzureBytes, UNCHANGED <<info, fresh>>
    PROVE  AzureRecordGoes
<1>1. AzureTypes /\ AzureHolds
    BY DEF AzureBytes
<1>2. Azure!Bar' = Azure!Bar
    BY DEF Azure!Bar, Azure!Unwritable
<1> QED BY <1>1, <1>2 DEF AzureTypes, AzureHolds, AzureRecordGoes

\* rewritten by an append that it does not bar,
LEMMA AzureRecordAccepts ==
    ASSUME AzureBytes, NEW record \in AzureRecords, Azure!Stored(record),
           Azure!Bar = "none", ~record.complete
    PROVE  AzureRecordGoes
    BY DEF AzureRecordGoes, Azure!Stored

\* under a terminal flag,
LEMMA AzureRecordLaid ==
    ASSUME AzureBytes, info # None, NEW patch \in {Azure!Invalid, Azure!Complete},
           Azure!Stored(Azure!Laid(info, patch)), patch = Azure!Complete => published # {}
    PROVE  AzureRecordGoes
<1>1. info \in AzureRecords /\ (info.complete => published # {})
    BY DEF AzureBytes, AzureTypes, AzureHolds
<1>2. /\ patch.invalid \in BOOLEAN /\ patch.complete \in BOOLEAN /\ (patch.invalid \/ patch.complete)
      /\ patch.complete => published # {}
    BY DEF Azure!Invalid, Azure!Complete, Azure!Untouched
<1>3. /\ info' \in AzureRecords /\ info'.invalid = (info.invalid \/ patch.invalid)
      /\ info'.complete = (info.complete \/ patch.complete) /\ fresh' = {}
    BY <1>1, <1>2 DEF Azure!Stored, Azure!Laid, AzureRecords
<1>5. Azure!Bar' # "none"
    BY <1>2, <1>3 DEF Azure!Bar, Azure!Unwritable
<1> QED BY <1>1, <1>2, <1>3, <1>5 DEF AzureRecordGoes

\* under a seal,
LEMMA AzureRecordSealed ==
    ASSUME AzureBytes, NEW record \in AzureRecords, Azure!Stored(record),
           record.seal \in AzureSeals, ~record.complete
    PROVE  AzureRecordGoes
<1>1. info' = record /\ fresh' = {}
    BY DEF Azure!Stored
<1>2. Azure!Bar' # "none"
    BY <1>1, AzureSealed DEF Azure!Bar, Azure!Unwritable
<1> QED BY <1>1, <1>2 DEF AzureRecordGoes

\* and gone.
LEMMA AzureRecordDropped ==
    ASSUME AzureBytes, info' = None, fresh' = {}
    PROVE  AzureRecordGoes
<1>1. Azure!Bar' # "none"
    BY DEF Azure!Bar
<1> QED BY <1>1 DEF AzureRecordGoes

\* A call that has not begun, and one that was answered.
LEMMA AzureIdle ==
    ASSUME NEW kind \in Kinds \cup {"none"}, NEW pc \in AzurePcs, NEW told \in 0..AzureLength
    PROVE  /\ Idle \in AzureCalls /\ Idle.pc = "idle" /\ Idle.kind = "none"
           /\ [Idle EXCEPT !.kind = kind, !.pc = pc, !.told = told] \in AzureCalls
<1>1. 0 \in 0..AzureLength /\ AzureLength \in Nat
    BY AzureSame
<1>2. {} \in SUBSET Azure!Indices
    OBVIOUS
<1>3. "none" \in Kinds \cup {"none"} /\ "idle" \in AzurePcs /\ "wrote" \in AzureEndings
    BY DEF AzurePcs, AzureEndings, Settled
<1>3a. Idle \in AzureCalls /\ Idle.pc = "idle" /\ Idle.kind = "none"
    BY <1>1, <1>2, <1>3 DEF Idle, AzureCalls
<1>4. ASSUME NEW r \in AzureCalls
      PROVE  [r EXCEPT !.kind = kind, !.pc = pc, !.told = told] \in AzureCalls
    BY <1>4 DEF AzureCalls
<1> QED BY <1>3a, <1>4

\* An answer, told what is so.
LEMMA AzureSettles ==
    ASSUME AzureApart, AzureBytes, NEW c \in Calls, NEW kind \in Kinds,
           NEW pc \in Settled \ {"idle"}, NEW told \in 0..AzureLength,
           Ends(c, kind, pc, told), UNCHANGED <<staged, key>>, AzureRecordGoes,
           pc \in {"wrote", "state"} /\ staged.sentinel => told <= AzureExtent(staged.blocks),
           pc = "wrote" => Running(c) /\ call[c].kind = "append",
           pc = "complete" => published # {} /\ (told > 0 => Prefix(told) \in published)
    PROVE  AzureBytes'
<1> DEFINE r == [Idle EXCEPT !.kind = kind, !.pc = pc, !.told = told]
<1>0. pc \in AzurePcs /\ kind \in Kinds \cup {"none"}
    BY DEF AzurePcs
<1>1. r \in AzureCalls
    BY <1>0, AzureIdle
<1>2. r.kind = kind /\ r.pc = pc /\ r.told = told /\ r.offset = 0 /\ r.size = 0
    BY DEF Idle
<1>3. call' = [call EXCEPT ![c] = r] /\ call'[c] = r
    BY AzureParts DEF Ends
<1> HIDE DEF r
<1>4. pc = "wrote" => published = {}
    BY AzureParts DEF AzureHolds
<1>5. AzureFits(c, r)
    BY <1>1, <1>2, AzureSame DEF AzureFits, Settled
<1>6. AzureStands(c)'
  <2>1. AzureKindOf(r) /\ AzureStages(c)' /\ AzurePlans(c)'
      BY <1>2, <1>3 DEF AzureKindOf, AzureStages, AzurePlans, Settled, Sealed, Kinds
  <2>2. published' = published /\ staged' = staged
      BY DEF key
  <2>3. AzureClaims(c)'
      BY <1>2, <1>3, <1>4, <2>2 DEF AzureClaims, Settled
  <2> QED BY <1>3, <2>1, <2>3 DEF AzureStands
<1> QED BY <1>3, <1>5, <1>6, AzureMoves

-------------------------------------------------------------------------------
(* Steps of several kinds of calls                                         *)

\* Whoever has begun is of some kind.
LEMMA AzureWorks ==
    ASSUME AzureBytes, NEW c \in Calls, call[c].pc # "idle"
    PROVE  call[c].kind \in Kinds
<1>1. call[c].kind \in Kinds \cup {"none"} /\ (call[c].kind = "none" => call[c].pc = "idle")
    BY AzureParts DEF AzureCalls, AzureKindOf
<1> QED BY <1>1

\* An answer that claims nothing.
LEMMA AzureAnswers ==
    ASSUME AzureApart, AzureBytes, NEW c \in Calls, call[c].pc # "idle",
           NEW pc \in Settled \ {"idle", "wrote", "state", "complete"}, NEW told \in 0..AzureLength,
           Azure!Answers(c, pc, told), UNCHANGED <<staged, key>>, AzureRecordGoes
    PROVE  AzureBytes'
<1>1. Ends(c, call[c].kind, pc, told)
    BY AzureCloud DEF Answers
<1>2. call[c].kind \in Kinds
    BY AzureWorks
<1>3. pc \in Settled \ {"idle"} /\ pc # "wrote" /\ pc # "state" /\ pc # "complete"
    OBVIOUS
<1> QED BY <1>1, <1>2, <1>3, AzureSettles

\* The record bars a call, with the length it is sealed at.
LEMMA AzureBarLength == AzureBytes => Azure!SealedLength \in 0..AzureLength
<1> SUFFICES ASSUME AzureBytes PROVE Azure!SealedLength \in 0..AzureLength
    OBVIOUS
<1>1. info \in AzureRecords \cup {None}
    BY DEF AzureBytes, AzureTypes
<1>2. Azure!Bar = "conflict" => info.seal.length \in 0..AzureLength
    BY <1>1, AzureBars DEF AzureRecords, AzureSeals
<1>3. 0 \in 0..AzureLength
    BY AzureSame
<1> QED BY <1>2, <1>3 DEF Azure!SealedLength

\* That is an answer.
LEMMA AzureBarredAnswers ==
    ASSUME AzureApart, AzureBytes, NEW c \in Calls, call[c].pc # "idle", Azure!Barred(c),
           UNCHANGED <<info, fresh, staged, key>>
    PROVE  AzureBytes'
<1>1. Azure!Bar \in Settled \ {"idle", "wrote", "state", "complete"}
    BY AzureBars DEF Azure!Barred, Settled
<1> QED BY <1>1, AzureBarLength, AzureRecordStays, AzureAnswers DEF Azure!Barred

\* So is that of an index that was accepted already.
LEMMA AzureRefusedAnswers ==
    ASSUME AzureApart, AzureBytes, NEW c \in Calls, call[c].pc # "idle", Azure!Refuses(c),
           UNCHANGED <<info, fresh, staged, key>>
    PROVE  AzureBytes'
<1>1. CASE Azure!Barred(c)
    BY <1>1, AzureBarredAnswers
<1>2. CASE Azure!Bar = "none" /\ Azure!Answers(c, "conflict", info.bytes)
  <2>1. info \in AzureRecords
      BY <1>2, AzureBars DEF AzureBytes, AzureTypes
  <2>2. info.bytes \in 0..AzureLength
      BY <2>1 DEF AzureRecords
  <2>3. "conflict" \in Settled \ {"idle", "wrote", "state", "complete"}
      BY DEF Settled
  <2> QED BY <1>2, <2>2, <2>3, AzureRecordStays, AzureAnswers
<1> QED BY <1>1, <1>2 DEF Azure!Refuses

\* A call goes on, with what it has.
LEMMA AzureGoesOn ==
    ASSUME AzureApart, AzureBytes, NEW c \in Calls, Running(c), NEW r \in AzureCalls,
           r.kind = call[c].kind, r.offset + r.size <= AzureLength,
           r.pc \notin Settled, call' = [call EXCEPT ![c] = r],
           r.pc = "publishing" => \A d \in Calls : call[d].pc = "wrote" => call[d].told <= r.told,
           UNCHANGED <<staged, key>>, AzureRecordGoes, AzureStands(c)'
    PROVE  AzureBytes'
<1>1. r.pc # "wrote"
    BY DEF Settled
<1>2. AzureFits(c, r)
    BY <1>1 DEF AzureFits
<1> QED BY <1>2, AzureMoves

\* It may have to write the record again.
LEMMA AzureRepeats ==
    ASSUME AzureApart, AzureBytes, NEW c \in Calls, Running(c), Azure!Repeats(c),
           UNCHANGED <<staged, key>>, AzureRecordGoes
    PROVE  AzureBytes'
<1> DEFINE r == [call[c] EXCEPT !.repeated = TRUE]
<1>1. call[c] \in AzureCalls /\ AzureStands(c) /\ call \in [Calls -> AzureCalls] /\ End(c) <= AzureLength
    BY AzureParts
<1>2. r \in AzureCalls /\ r.kind = call[c].kind /\ r.pc = call[c].pc /\ r.offset = call[c].offset
      /\ r.size = call[c].size /\ r.index = call[c].index /\ r.pending = call[c].pending
      /\ r.expected = call[c].expected /\ r.told = call[c].told /\ r.seal = call[c].seal
      /\ r.plan = call[c].plan /\ r.ending = call[c].ending
    BY <1>1 DEF AzureCalls
<1>3. call' = [call EXCEPT ![c] = r]
    BY <1>1, AzureCloud DEF Repeats
<1> HIDE DEF r
<1>4. call'[c] = r /\ staged' = staged /\ published' = published
    BY <1>1, <1>3 DEF key
<1>5. End(c)' = End(c) /\ r.offset + r.size = End(c)
    BY <1>2, <1>4 DEF End
<1>6. AzureStands(c)'
  <2>1. AzureKindOf(call'[c])
      BY <1>1, <1>2, <1>4 DEF AzureStands, AzureKindOf
  <2>2. AzureStages(c)'
      BY <1>1, <1>2, <1>4, <1>5 DEF AzureStands, AzureStages
  <2>3. AzurePlans(c)'
      BY <1>1, <1>2, <1>4 DEF AzureStands, AzurePlans, AzureRecordGoes
  <2>4. AzureClaims(c)'
      BY <1>1, <1>2, <1>4 DEF AzureStands, AzureClaims
  <2> QED BY <2>1, <2>2, <2>3, <2>4 DEF AzureStands
<1>7. r.pc = "publishing" => \A d \in Calls : call[d].pc = "wrote" => call[d].told <= r.told
    BY <1>2, AzureParts DEF AzureAll
<1>8. r.pc \notin Settled
    BY <1>2 DEF Running
<1> QED BY <1>1, <1>2, <1>3, <1>5, <1>6, <1>7, <1>8, AzureGoesOn

\* The verdict that what was staged is lost,
LEMMA AzureCondemnsNext ==
    ASSUME AzureApart, AzureBytes, NEW c \in Calls, Running(c), Azure!Condemns(c),
           UNCHANGED <<info, fresh, staged, key>>
    PROVE  AzureBytes'
<1> DEFINE r == [call[c] EXCEPT !.pc = "condemning", !.record = None]
<1>1. call[c] \in AzureCalls /\ AzureStands(c) /\ call \in [Calls -> AzureCalls] /\ End(c) <= AzureLength
    BY AzureParts
<1>2. "condemning" \in AzurePcs /\ "condemning" \notin Settled
    BY DEF AzurePcs, Settled
<1>3. r \in AzureCalls /\ r.kind = call[c].kind /\ r.pc = "condemning" /\ r.offset = call[c].offset
      /\ r.size = call[c].size
    BY <1>1, <1>2 DEF AzureCalls
<1>4. call' = [call EXCEPT ![c] = r]
    BY <1>1 DEF Azure!Condemns
<1> HIDE DEF r
<1>5. call'[c] = r
    BY <1>1, <1>4
<1>6. r.kind # "none"
    BY <1>1, <1>3 DEF AzureStands, AzureKindOf, Running, Settled
<1>7. AzureStands(c)'
    BY <1>3, <1>5, <1>6 DEF AzureStands, AzureKindOf, AzureStages, AzurePlans, AzureClaims, Sealed
<1>8. r.offset + r.size = End(c)
    BY <1>3 DEF End
<1> QED BY <1>1, <1>2, <1>3, <1>4, <1>7, <1>8, AzureRecordStays, AzureGoesOn

\* and that the record says so before the answer.
LEMMA AzureInvalidates ==
    ASSUME AzureApart, AzureBytes, NEW c \in Calls, call[c].pc # "idle",
           NEW answer \in Settled \ {"idle", "wrote", "state", "complete"}, NEW told \in 0..AzureLength,
           Azure!Invalidates(c, answer, told), UNCHANGED <<staged, key>>
    PROVE  AzureBytes'
<1>0. "not-found" \in Settled \ {"idle", "wrote", "state", "complete"} /\ 0 \in 0..AzureLength
    BY AzureSame DEF Settled
<1>1. CASE info = None
  <2>1. Azure!Answers(c, "not-found", 0) /\ UNCHANGED <<info, fresh>>
      BY <1>1 DEF Azure!Invalidates
  <2> QED BY <1>0, <2>1, AzureRecordStays, AzureAnswers
<1>2. CASE info # None
  <2>1. Azure!Stored(Azure!Laid(info, Azure!Invalid)) /\ Azure!Answers(c, answer, told)
      BY <1>2 DEF Azure!Invalidates
  <2>2. Azure!Invalid # Azure!Complete
    <3>1. Azure!Invalid.complete = FALSE /\ Azure!Complete.complete = TRUE
        BY DEF Azure!Invalid, Azure!Complete, Azure!Untouched
    <3> QED BY <3>1
  <2>3. AzureRecordGoes
      BY <1>2, <2>1, <2>2, AzureRecordLaid
  <2> QED BY <2>1, <2>3, AzureAnswers
<1> QED BY <1>1, <1>2

\* The same by whoever condemns.
LEMMA AzureCondemnNext ==
    ASSUME AzureApart, AzureBytes, NEW c \in Calls, Azure!Condemn(c)
    PROVE  AzureBytes'
<1>1. call[c].pc = "condemning" /\ UNCHANGED <<staged, key>>
    BY AzureCloud DEF Azure!Condemn
<1>2. /\ {"settled", "failed"} \subseteq Settled \ {"idle", "wrote", "state", "complete"}
      /\ 0 \in 0..AzureLength
    BY AzureSame DEF Settled
<1>3. CASE Azure!Answers(c, "settled", 0) /\ UNCHANGED <<info, fresh>>
    BY <1>1, <1>2, <1>3, AzureRecordStays, AzureAnswers
<1>4. CASE Azure!Invalidates(c, "settled", 0)
    BY <1>1, <1>2, <1>4, AzureInvalidates
<1>5. CASE Azure!Invalidates(c, "failed", 0)
    BY <1>1, <1>2, <1>5, AzureInvalidates
<1> QED BY <1>3, <1>4, <1>5 DEF Azure!Condemn

\* A call that crashes.
LEMMA AzureCrashNext ==
    ASSUME AzureApart, AzureBytes, NEW c \in Calls, Azure!Crash(c)
    PROVE  AzureBytes'
<1>1. call[c].pc # "idle" /\ UNCHANGED <<info, fresh, staged, key>> /\ Azure!Answers(c, "crashed", 0)
    BY AzureCloud, AzureSame DEF Azure!Crash, Azure!upload, Running, Settled
<1>2. "crashed" \in Settled \ {"idle", "wrote", "state", "complete"} /\ 0 \in 0..AzureLength
    BY AzureSame DEF Settled
<1> QED BY <1>1, <1>2, AzureRecordStays, AzureAnswers

-------------------------------------------------------------------------------
(* appendChunk                                                             *)

\* One step of an append that stays one, given what it becomes.
LEMMA AzureAppendGoes ==
    ASSUME AzureApart, AzureBytes, NEW c \in Calls, Running(c), call[c].kind = "append",
           NEW r \in AzureCalls, r.kind = "append",
           r.pc \in {"streaming", "checking", "staging", "accepting", "emptying"},
           r.offset + r.size <= AzureLength, call' = [call EXCEPT ![c] = r],
           UNCHANGED <<staged, key>>, AzureRecordGoes,
           r.pc = "emptying" => r.ending = "not-found",
           r.pc # "emptying" => /\ r.index \in 1..(r.offset + r.size + 1)
                                /\ staged.sentinel /\ r.pc # "accepting" =>
                                      /\ AzureExtent(staged.blocks) = r.offset + r.size
                                      /\ AzureNext(staged.blocks) = r.index,
           r.pc \in {"checking", "staging", "accepting"} =>
               r.pending > 0 /\ r.offset + r.size + r.pending <= AzureLength,
           r.pc = "accepting" /\ staged.sentinel =>
               /\ AzureExtent(staged.blocks) = r.offset + r.size + r.pending
               /\ AzureNext(staged.blocks) = r.index + 1
    PROVE  AzureBytes'
<1>1. call \in [Calls -> AzureCalls]
    BY AzureParts
<1>2. call'[c] = r /\ staged' = staged /\ published' = published
    BY <1>1 DEF key
<1>3. End(c)' = r.offset + r.size
    BY <1>2 DEF End
<1>4. r.pc \notin Settled /\ r.pc # "publishing"
    BY DEF Settled
<1>5. AzureKindOf(call'[c]) /\ AzurePlans(c)' /\ AzureClaims(c)'
    BY <1>2 DEF AzureKindOf, AzurePlans, AzureClaims, Sealed
<1>6. AzureStages(c)'
    BY <1>2, <1>3 DEF AzureStages
<1>7. AzureStands(c)'
    BY <1>5, <1>6 DEF AzureStands
<1> QED BY <1>4, <1>7, AzureGoesOn

\* An append that begins.
LEMMA AzureAppendReadsNext ==
    ASSUME AzureApart, AzureBytes, NEW c \in Calls, NEW n \in 0..AzureLength, Azure!AppendReads(c, n)
    PROVE  AzureBytes'
<1>1. /\ UNCHANGED <<info, fresh, staged, key>> /\ Azure!MayBegin(c, "append")
    BY AzureCloud DEF Azure!AppendReads, Azure!upload
<1>2. CASE Azure!Bar # "none" /\ Ends(c, "append", Azure!Bar, Azure!SealedLength)
  <2>1. /\ Azure!Bar \in Settled \ {"idle"} /\ Azure!Bar \notin {"wrote", "state", "complete"}
        /\ "append" \in Kinds
      BY <1>2, AzureBars DEF Settled, Kinds
  <2> QED BY <1>1, <1>2, <2>1, AzureBarLength, AzureRecordStays, AzureSettles
<1>3. CASE Azure!Bar = "none" /\ Begins(c, [Idle EXCEPT !.kind = "append", !.pc = "listing",
                                                   !.offset = n, !.record = info])
  <2> DEFINE r == [Idle EXCEPT !.kind = "append", !.pc = "listing", !.offset = n, !.record = info]
  <2>1. Idle \in AzureCalls /\ info \in AzureRecords \cup {None} /\ Idle.size = 0
    <3>1. "none" \in Kinds \cup {"none"} /\ "idle" \in AzurePcs /\ 0 \in 0..AzureLength
        BY AzureSame DEF AzurePcs, Settled
    <3> QED BY <3>1, AzureIdle, AzureParts DEF AzureTypes, Idle
  <2>2. "append" \in Kinds \cup {"none"} /\ "listing" \in AzurePcs /\ "listing" \notin Settled
      BY DEF Kinds, AzurePcs, Settled
  <2>3. r \in AzureCalls /\ r.kind = "append" /\ r.pc = "listing" /\ r.offset = n /\ r.size = 0
    <3> HIDE DEF Idle
    <3> QED BY <2>1, <2>2, ZenonT(60) DEF AzureCalls
  <2>4. call' = [call EXCEPT ![c] = r] /\ call'[c] = r
      BY <1>3, AzureParts DEF Begins
  <2> HIDE DEF r
  <2>5. published = {}
      BY <1>3, AzureParts DEF AzureHolds
  <2>6. n \in Nat /\ n + 0 <= AzureLength
      BY AzureSame
  <2>7. AzureFits(c, r)
      BY <1>1, <2>2, <2>3, <2>5, <2>6 DEF AzureFits
  <2>8. AzureStands(c)'
      BY <2>3, <2>4 DEF AzureStands, AzureKindOf, AzureStages, AzurePlans, AzureClaims, Sealed
  <2> QED BY <1>1, <2>4, <2>7, <2>8, AzureRecordStays, AzureMoves
<1> QED BY <1>2, <1>3, AzureCloud DEF Azure!AppendReads

\* deriveAzureBlocks: the append begins where the bytes end.
LEMMA AzureAppendListsNext ==
    ASSUME AzureApart, AzureBytes, NEW c \in Calls, Azure!AppendLists(c)
    PROVE  AzureBytes'
<1>1. /\ UNCHANGED <<info, fresh, staged, key>> /\ call[c].pc = "listing" /\ call[c].kind = "append"
    BY AzureCloud DEF Azure!AppendLists, Azure!upload
<1>2. /\ call[c] \in AzureCalls /\ End(c) <= AzureLength /\ call[c].size = 0
      /\ Running(c) /\ call[c].pc # "idle" /\ call \in [Calls -> AzureCalls]
    BY <1>1, AzureParts DEF AzureStages, Running, Settled
<1>3. CASE Azure!Condemns(c)
    BY <1>1, <1>2, <1>3, AzureCondemnsNext
<1>4. staged.sentinel => /\ AzureExtent(staged.blocks) \in 0..AzureLength
                         /\ AzureNext(staged.blocks) \in 1..(AzureExtent(staged.blocks) + 1)
    BY AzureWholeIs, AzureParts DEF AzureHolds
<1>5. CASE staged.sentinel /\ Azure!Answers(c, "conflict", Len(Azure!Content))
  <2>1. "conflict" \in Settled \ {"idle", "wrote", "state", "complete"}
      BY DEF Settled
  <2> QED BY <1>1, <1>2, <1>4, <1>5, <2>1, AzureJoins, AzureRecordStays, AzureAnswers
<1>6. CASE /\ staged.sentinel /\ call[c].offset = Len(Azure!Content)
           /\ call' = [call EXCEPT ![c].pc = "streaming", ![c].index = Azure!NextIndex, ![c].record = None]
  <2> DEFINE r == [call[c] EXCEPT !.pc = "streaming", !.index = AzureNext(staged.blocks), !.record = None]
  <2>1. "streaming" \in AzurePcs /\ AzureNext(staged.blocks) \in Nat
      BY <1>4, <1>6, AzureSame DEF AzurePcs
  <2>2. /\ r \in AzureCalls /\ r.pc = "streaming" /\ r.kind = "append" /\ r.offset = call[c].offset
        /\ r.size = 0 /\ r.index = AzureNext(staged.blocks)
      BY <1>1, <1>2, <2>1, ZenonT(60) DEF AzureCalls
  <2>3. call' = [call EXCEPT ![c] = r]
      BY <1>2, <1>6, AzureJoins
  <2> HIDE DEF r
  <2>4. /\ r.offset = AzureExtent(staged.blocks) /\ r.offset + r.size = AzureExtent(staged.blocks)
        /\ r.offset + r.size <= AzureLength
      BY <1>4, <1>6, <2>2, AzureJoins, AzureSame
  <2>5. /\ r.index \in 1..(r.offset + r.size + 1) /\ AzureNext(staged.blocks) = r.index
        /\ AzureExtent(staged.blocks) = r.offset + r.size
      BY <1>4, <1>6, <2>2, <2>4
  <2>6. AzureRecordGoes
      BY <1>1, AzureRecordStays
  <2> QED BY <1>1, <1>2, <2>2, <2>3, <2>4, <2>5, <2>6, AzureAppendGoes
<1> QED BY <1>3, <1>5, <1>6 DEF Azure!AppendLists

\* What is known of an append while it streams.
LEMMA AzureAppendKnows ==
    ASSUME AzureBytes, NEW c \in Calls,
           call[c].pc \in {"streaming", "checking", "staging", "accepting"}
    PROVE  /\ call[c] \in AzureCalls /\ call \in [Calls -> AzureCalls] /\ call[c].kind = "append"
           /\ Running(c) /\ call[c].pc # "idle"
           /\ End(c) \in 0..AzureLength /\ End(c) = call[c].offset + call[c].size
           /\ call[c].index \in 1..(End(c) + 1) /\ call[c].index \in Nat
           /\ call[c].offset \in Nat /\ call[c].size \in Nat /\ call[c].pending \in Nat
           /\ AzureStages(c) /\ published = {}
<1>1. /\ call[c] \in AzureCalls /\ call \in [Calls -> AzureCalls] /\ AzureStages(c)
      /\ AzureKindOf(call[c]) /\ AzureHolds /\ End(c) \in 0..AzureLength
    BY AzureParts
<1>2. call[c].kind = "append" /\ Running(c) /\ call[c].pc # "idle"
    BY <1>1 DEF AzureKindOf, Running, Settled
<1>3. call[c].index \in 1..(End(c) + 1)
    BY <1>1 DEF AzureStages
<1>4. /\ call[c].offset \in Nat /\ call[c].size \in Nat /\ call[c].pending \in Nat
      /\ call[c].index \in Nat
    BY <1>1, AzureSame DEF AzureCalls
<1>5. published = {}
    BY <1>1, <1>2 DEF AzureHolds
<1> QED BY <1>1, <1>2, <1>3, <1>4, <1>5 DEF End

\* A block that fills.
LEMMA AzureBlockFillsNext ==
    ASSUME AzureApart, AzureBytes, NEW c \in Calls, NEW n \in 0..AzureLength, Azure!BlockFills(c, n)
    PROVE  AzureBytes'
<1>1. /\ UNCHANGED <<info, fresh, staged, key>> /\ call[c].pc = "streaming" /\ n > 0
      /\ End(c) + n <= AzureLength
    BY AzureCloud, AzureSame DEF Azure!BlockFills, Azure!upload, AzureLength
<1>2. call' = [call EXCEPT ![c].pc = "checking", ![c].pending = n]
    BY DEF Azure!BlockFills
<1> DEFINE r == [call[c] EXCEPT !.pc = "checking", !.pending = n]
<1>3. /\ call[c] \in AzureCalls /\ call \in [Calls -> AzureCalls] /\ call[c].kind = "append"
      /\ Running(c) /\ End(c) = call[c].offset + call[c].size /\ AzureStages(c)
      /\ End(c) \in 0..AzureLength /\ call[c].index \in 1..(End(c) + 1)
    BY <1>1, AzureAppendKnows
<1>4. "checking" \in AzurePcs
    BY DEF AzurePcs
<1>5. /\ r \in AzureCalls /\ r.pc = "checking" /\ r.kind = "append" /\ r.offset = call[c].offset
      /\ r.size = call[c].size /\ r.index = call[c].index /\ r.pending = n
    BY <1>3, <1>4 DEF AzureCalls
<1>6. call' = [call EXCEPT ![c] = r]
    BY <1>2, <1>3
<1> HIDE DEF r
<1>7. staged.sentinel => AzureExtent(staged.blocks) = End(c) /\ AzureNext(staged.blocks) = call[c].index
    BY <1>1, <1>3 DEF AzureStages
<1>8. r.offset + r.size = End(c) /\ End(c) <= AzureLength
    BY <1>3, <1>5, AzureSame
<1> QED BY <1>1, <1>3, <1>5, <1>6, <1>7, <1>8, AzureRecordStays, AzureAppendGoes

\* The check before it is staged.
LEMMA AzureCheckIndexNext ==
    ASSUME AzureApart, AzureBytes, NEW c \in Calls, Azure!CheckIndex(c)
    PROVE  AzureBytes'
<1>1. UNCHANGED <<info, fresh, staged, key>> /\ call[c].pc = "checking"
    BY AzureCloud DEF Azure!CheckIndex, Azure!upload
<1>2. /\ call[c] \in AzureCalls /\ call \in [Calls -> AzureCalls] /\ call[c].kind = "append"
      /\ Running(c) /\ call[c].pc # "idle" /\ End(c) = call[c].offset + call[c].size /\ AzureStages(c)
      /\ End(c) \in 0..AzureLength /\ call[c].index \in 1..(End(c) + 1)
    BY <1>1, AzureAppendKnows
<1>3. CASE Azure!Refuses(c)
    BY <1>1, <1>2, <1>3, AzureRefusedAnswers
<1>4. CASE Azure!Goes(c, "staging")
  <2> DEFINE r == [call[c] EXCEPT !.pc = "staging"]
  <2>1. "staging" \in AzurePcs
      BY DEF AzurePcs
  <2>2. /\ r \in AzureCalls /\ r.pc = "staging" /\ r.kind = "append" /\ r.offset = call[c].offset
        /\ r.size = call[c].size /\ r.index = call[c].index /\ r.pending = call[c].pending
      BY <1>2, <2>1 DEF AzureCalls
  <2>3. call' = [call EXCEPT ![c] = r]
      BY <1>2, <1>4, AzureCloud DEF Goes
  <2> HIDE DEF r
  <2>4. /\ staged.sentinel => AzureExtent(staged.blocks) = End(c) /\ AzureNext(staged.blocks) = call[c].index
        /\ call[c].pending > 0 /\ End(c) + call[c].pending <= AzureLength
      BY <1>1, <1>2 DEF AzureStages
  <2>5. r.offset + r.size = End(c) /\ End(c) <= AzureLength
      BY <1>2, <2>2, AzureSame
  <2> QED BY <1>1, <1>2, <2>2, <2>3, <2>4, <2>5, AzureRecordStays, AzureAppendGoes
<1> QED BY <1>3, <1>4 DEF Azure!CheckIndex

\* A block more among the blocks is still blocks.
LEMMA AzureOneMoreBlock ==
    ASSUME NEW blocks \in AzureBlocks, NEW i \in 1..AzureLength, NEW body \in Azure!Bodies
    PROVE  [j \in DOMAIN blocks \cup {i} |-> IF j = i THEN body ELSE blocks[j]] \in AzureBlocks
<1>1. PICK I \in SUBSET (1..AzureLength) : blocks \in [I -> Azure!Bodies]
    BY AzureSame DEF AzureBlocks
<1>2. DOMAIN blocks \cup {i} \in SUBSET (1..AzureLength)
    BY <1>1
<1>3. [j \in DOMAIN blocks \cup {i} |-> IF j = i THEN body ELSE blocks[j]]
          \in [DOMAIN blocks \cup {i} -> Azure!Bodies]
    BY <1>1
<1> QED BY <1>2, <1>3, AzureSame DEF AzureBlocks

\* The block goes where the bytes end, or among blocks that are no longer whole.
LEMMA AzureStageBlockNext ==
    ASSUME AzureApart, AzureBytes, NEW c \in Calls, Azure!StageBlock(c)
    PROVE  AzureBytes'
<1> DEFINE r == [call[c] EXCEPT !.pc = "accepting"]
           e == End(c)
           n == call[c].pending
           i == call[c].index
           b == staged.blocks
           more == [j \in DOMAIN b \cup {i} |-> IF j = i THEN Slice(e, n) ELSE b[j]]
<1>1. UNCHANGED <<info, fresh, key>> /\ call[c].pc = "staging" /\ Azure!Goes(c, "accepting")
    BY AzureCloud DEF Azure!StageBlock
<1>2. /\ call[c] \in AzureCalls /\ call \in [Calls -> AzureCalls] /\ call[c].kind = "append"
      /\ Running(c) /\ e = call[c].offset + call[c].size /\ AzureStages(c)
      /\ e \in 0..AzureLength /\ i \in 1..(e + 1) /\ i \in Nat /\ n \in Nat /\ published = {}
    BY <1>1, AzureAppendKnows
<1>3. /\ AzureTypes /\ AzureHolds /\ AzureAlone
      /\ staged \in [sentinel : BOOLEAN, blocks : AzureBlocks]
    BY AzureParts DEF AzureTypes
<1>4. staged' = [sentinel |-> staged.sentinel, blocks |-> more]
  <2>1. staged' = [staged EXCEPT !.blocks = [j \in DOMAIN @ \cup {i} |-> IF j = i THEN Slice(e, n) ELSE @[j]]]
      BY AzureSame DEF Azure!StageBlock
  <2> HIDE DEF e, n, i
  <2> QED BY <1>3, <2>1
<1>5. n > 0 /\ e + n <= AzureLength /\ e \in Nat /\ AzureLength \in Nat
      /\ (staged.sentinel => AzureExtent(b) = e /\ AzureNext(b) = i)
    BY <1>1, <1>2, AzureSame DEF AzureStages
<1>6. i \in 1..AzureLength
    BY <1>2, <1>5
<1>7. "accepting" \in AzurePcs /\ "accepting" \notin Settled
    BY DEF AzurePcs, Settled
<1>8. /\ r \in AzureCalls /\ r.pc = "accepting" /\ r.kind = "append" /\ r.offset = call[c].offset
      /\ r.size = call[c].size /\ r.index = i /\ r.pending = n
    BY <1>2, <1>7 DEF AzureCalls
<1>9. call' = [call EXCEPT ![c] = r] /\ call'[c] = r
    BY <1>1, <1>2, AzureCloud DEF Goes
<1> HIDE DEF r, e, n, i
<1>10. more \in AzureBlocks
  <2>1. Slice(e, n) \in Azure!Bodies
      BY <1>2, <1>5, AzureSlices
  <2> QED BY <1>3, <1>6, <2>1, AzureOneMoreBlock
<1>11. staged.sentinel => AzureWhole(more) /\ AzureExtent(more) = e + n /\ AzureNext(more) = i + 1
  <2> SUFFICES ASSUME staged.sentinel
               PROVE  AzureWhole(more) /\ AzureExtent(more) = e + n /\ AzureNext(more) = i + 1
      OBVIOUS
  <2>1. AzureWhole(b) /\ AzureExtent(b) = e /\ AzureNext(b) = i
      BY <1>3, <1>5 DEF AzureHolds
  <2> HIDE DEF more, b
  <2>2. more = [j \in DOMAIN b \cup {AzureNext(b)} |->
                  IF j = AzureNext(b) THEN Slice(AzureExtent(b), n) ELSE b[j]]
      BY <2>1 DEF more
  <2> QED BY <1>2, <1>5, <2>1, <2>2, AzureStaged
<1> HIDE DEF more
<1>12. staged'.blocks = more /\ staged'.sentinel = staged.sentinel /\ published' = published
       /\ object' = object /\ editions' = editions
    BY <1>1, <1>4 DEF key
<1>13. r.offset + r.size = e /\ End(c)' = e /\ e <= AzureLength
    BY <1>2, <1>8, <1>9, AzureSame DEF End
<1>14. AzureFits(c, r)
    BY <1>2, <1>7, <1>8, <1>13 DEF AzureFits
<1>15. /\ call' \in [Calls -> AzureCalls] /\ (\A d \in Calls : End(d)' <= AzureLength)
       /\ AzureAlone' /\ AzureAll'
    BY <1>9, <1>12, <1>14, AzureCallsFit
<1>16. AzureStands(c)'
  <2>1. AzureKindOf(call'[c]) /\ AzurePlans(c)' /\ AzureClaims(c)'
      BY <1>8, <1>9 DEF AzureKindOf, AzurePlans, AzureClaims, Sealed
  <2>2. AzureStages(c)'
      BY <1>2, <1>5, <1>8, <1>9, <1>11, <1>12, <1>13 DEF AzureStages
  <2> QED BY <2>1, <2>2 DEF AzureStands
<1>17. ASSUME NEW d \in Calls, d # c PROVE AzureStands(d)'
  <2>1. call'[d] = call[d]
      BY <1>2, <1>9, <1>17
  <2>2. ~(Running(d) /\ call[d].kind \in Sequential)
      BY <1>2, <1>3, <1>17 DEF AzureAlone, Sequential
  <2>3. staged'.sentinel => /\ staged.sentinel
                            /\ \A k \in Nat : k <= AzureExtent(b) => k <= AzureExtent(staged'.blocks)
      BY <1>2, <1>5, <1>11, <1>12
  <2> QED BY <1>12, <2>1, <2>2, <2>3, AzureBystands DEF b
<1>18. AzureTypes'
    BY <1>1, <1>3, <1>4, <1>10, <1>12, <1>15 DEF AzureTypes
<1>19. AzureHolds'
  <2>1. Azure!Bar' = Azure!Bar
      BY <1>1 DEF Azure!Bar, Azure!Unwritable
  <2> QED BY <1>1, <1>2, <1>3, <1>11, <1>12, <2>1 DEF AzureHolds
<1> QED BY <1>15, <1>16, <1>17, <1>18, <1>19 DEF AzureBytes

\* The numbers of a block that is accepted.
LEMMA AzureRoom ==
    ASSUME NEW L \in Nat, NEW offset \in Nat, NEW size \in Nat, NEW n \in Nat, NEW i \in Nat, n > 0,
           offset + size + n <= L, i \in 1..(offset + size + 1)
    PROVE  /\ i \in 0..L /\ i \in 1..L /\ offset + size + n \in 0..L /\ size + n \in 0..L
           /\ offset + (size + n) = offset + size + n
           /\ i + 1 \in 1..(offset + size + n + 1) /\ 0 \in 0..L
    OBVIOUS

\* The record accepts the block, or has to be told so again.
LEMMA AzureAcceptNext ==
    ASSUME AzureApart, AzureBytes, NEW c \in Calls, Azure!Accept(c)
    PROVE  AzureBytes'
<1> DEFINE record == [info EXCEPT !.blocks = call[c].index, !.bytes = End(c) + call[c].pending]
<1>1. /\ UNCHANGED <<staged, key>> /\ call[c].pc = "accepting" /\ Azure!Bar = "none"
      /\ Azure!Stored(record)
    BY AzureCloud, AzureSame DEF Azure!Accept, Azure!Fenced
<1>2. /\ call[c] \in AzureCalls /\ call \in [Calls -> AzureCalls] /\ call[c].kind = "append"
      /\ Running(c) /\ End(c) = call[c].offset + call[c].size /\ AzureStages(c)
      /\ End(c) \in 0..AzureLength /\ call[c].index \in 1..(End(c) + 1) /\ call[c].index \in Nat
      /\ call[c].offset \in Nat /\ call[c].size \in Nat /\ call[c].pending \in Nat
    BY <1>1, AzureAppendKnows
<1>3. /\ call[c].pending > 0 /\ End(c) + call[c].pending <= AzureLength
      /\ End(c) \in Nat /\ AzureLength \in Nat
      /\ staged.sentinel => /\ AzureExtent(staged.blocks) = End(c) + call[c].pending
                            /\ AzureNext(staged.blocks) = call[c].index + 1
    BY <1>1, <1>2, AzureSame DEF AzureStages
<1>4. /\ call[c].index \in 0..AzureLength /\ End(c) + call[c].pending \in 0..AzureLength
      /\ call[c].size + call[c].pending \in 0..AzureLength
      /\ call[c].offset + (call[c].size + call[c].pending) = End(c) + call[c].pending
      /\ call[c].index + 1 \in 1..(End(c) + call[c].pending + 1) /\ 0 \in 0..AzureLength
    BY <1>2, <1>3, AzureRoom
<1>5. AzureRecordGoes
  <2>1. info \in AzureRecords /\ ~info.complete
      BY <1>1, AzureBars DEF AzureBytes, AzureTypes
  <2>2. record \in AzureRecords /\ ~record.complete
      BY <1>4, <2>1 DEF AzureRecords
  <2> HIDE DEF record
  <2> QED BY <1>1, <2>2, AzureRecordAccepts
<1>6. CASE call' = [call EXCEPT ![c].pc = "streaming", ![c].size = @ + call[c].pending,
                                ![c].index = @ + 1, ![c].pending = 0]
  <2> DEFINE r == [call[c] EXCEPT !.pc = "streaming", !.size = call[c].size + call[c].pending,
                                  !.index = call[c].index + 1, !.pending = 0]
  <2>1. "streaming" \in AzurePcs /\ call[c].index + 1 \in Nat
      BY <1>2 DEF AzurePcs
  <2>2. /\ r \in AzureCalls /\ r.pc = "streaming" /\ r.kind = "append" /\ r.offset = call[c].offset
        /\ r.size = call[c].size + call[c].pending /\ r.index = call[c].index + 1
      BY <1>2, <1>4, <2>1 DEF AzureCalls
  <2>3. call' = [call EXCEPT ![c] = r]
      BY <1>2, <1>6
  <2> HIDE DEF r
  <2>4. /\ r.offset + r.size = End(c) + call[c].pending /\ r.offset + r.size <= AzureLength
        /\ r.index \in 1..(r.offset + r.size + 1)
      BY <1>3, <1>4, <2>2
  <2>5. staged.sentinel => /\ AzureExtent(staged.blocks) = r.offset + r.size
                           /\ AzureNext(staged.blocks) = r.index
      BY <1>3, <2>2, <2>4
  <2> QED BY <1>1, <1>2, <1>5, <2>2, <2>3, <2>4, <2>5, AzureAppendGoes
<1>7. CASE Azure!Repeats(c)
    BY <1>1, <1>2, <1>5, <1>7, AzureRepeats
<1> QED BY <1>6, <1>7 DEF Azure!Accept

\* An append that outlived the upload gives up its block.
LEMMA AzureAcceptRefusedNext ==
    ASSUME AzureApart, AzureBytes, NEW c \in Calls, Azure!AcceptRefused(c)
    PROVE  AzureBytes'
<1>1. UNCHANGED <<info, fresh, staged, key>> /\ call[c].pc = "accepting"
    BY AzureCloud DEF Azure!AcceptRefused, Azure!upload
<1>2. /\ call[c] \in AzureCalls /\ call \in [Calls -> AzureCalls] /\ call[c].kind = "append"
      /\ Running(c) /\ call[c].pc # "idle" /\ End(c) = call[c].offset + call[c].size
      /\ End(c) \in 0..AzureLength
    BY <1>1, AzureAppendKnows
<1>3. CASE Azure!Refuses(c)
    BY <1>1, <1>2, <1>3, AzureRefusedAnswers
<1>4. CASE call' = [call EXCEPT ![c].pc = "emptying", ![c].ending = "not-found"]
  <2> DEFINE r == [call[c] EXCEPT !.pc = "emptying", !.ending = "not-found"]
  <2>1. "emptying" \in AzurePcs /\ "not-found" \in AzureEndings
      BY DEF AzurePcs, AzureEndings
  <2>2. /\ r \in AzureCalls /\ r.pc = "emptying" /\ r.kind = "append" /\ r.offset = call[c].offset
        /\ r.size = call[c].size /\ r.ending = "not-found"
      BY <1>2, <2>1 DEF AzureCalls
  <2>3. call' = [call EXCEPT ![c] = r]
      BY <1>2, <1>4
  <2> HIDE DEF r
  <2>4. r.offset + r.size <= AzureLength
      BY <1>2, <2>2, AzureSame
  <2> QED BY <1>1, <1>2, <2>2, <2>3, <2>4, AzureRecordStays, AzureAppendGoes
<1> QED BY <1>3, <1>4 DEF Azure!AcceptRefused

\* The body ends: what was staged is what the answer says.
LEMMA AzureBodyEndsNext ==
    ASSUME AzureApart, AzureBytes, NEW c \in Calls, Azure!BodyEnds(c)
    PROVE  AzureBytes'
<1>1. UNCHANGED <<staged, key>> /\ call[c].pc = "streaming"
    BY AzureCloud DEF Azure!BodyEnds
<1>2. /\ call[c].kind = "append" /\ Running(c) /\ call[c].pc # "idle" /\ AzureStages(c)
      /\ End(c) \in 0..AzureLength
    BY <1>1, AzureAppendKnows
<1>3. CASE Azure!Answers(c, "wrote", Azure!End(c)) /\ AzureRecordGoes
  <2>1. "wrote" \in Settled \ {"idle"} /\ "append" \in Kinds /\ "wrote" # "complete"
      BY DEF Settled, Kinds
  <2>2. staged.sentinel => End(c) <= AzureExtent(staged.blocks)
      BY <1>1, <1>2, AzureSame DEF AzureStages
  <2>3. Ends(c, "append", "wrote", End(c))
      BY <1>2, <1>3, AzureCloud, AzureSame DEF Answers
  <2> QED BY <1>1, <1>2, <1>3, <2>1, <2>2, <2>3, AzureSettles
<1>4. CASE Azure!Answers(c, "wrote", Azure!End(c)) /\ UNCHANGED <<info, fresh>>
    BY <1>3, <1>4, AzureRecordStays
<1>5. CASE Azure!Barred(c) /\ UNCHANGED <<info, fresh>>
    BY <1>1, <1>2, <1>5, AzureBarredAnswers
<1>6. CASE Azure!Bar = "none" /\ Azure!Stored(info) /\ Azure!Answers(c, "wrote", Azure!End(c))
  <2>1. info \in AzureRecords /\ ~info.complete
      BY <1>6, AzureBars DEF AzureBytes, AzureTypes
  <2> QED BY <1>3, <1>6, <2>1, AzureRecordAccepts
<1> QED BY <1>4, <1>5, <1>6 DEF Azure!BodyEnds

\* An append, whatever its step.
LEMMA AzureAppendingNext ==
    ASSUME AzureApart, AzureBytes, NEW c \in Calls, Azure!Appending(c)
    PROVE  AzureBytes'
<1>1. CASE Azure!BodyOverruns(c)
  <2>1. call[c].pc = "streaming" /\ UNCHANGED <<staged, key>> /\ Azure!Invalidates(c, "overrun", End(c))
      BY <1>1, AzureCloud, AzureSame DEF Azure!BodyOverruns
  <2>2. "overrun" \in Settled \ {"idle", "wrote", "state", "complete"} /\ End(c) \in 0..AzureLength
      BY AzureParts DEF Settled
  <2> QED BY <2>1, <2>2, AzureInvalidates
<1> QED
    BY <1>1, AzureAppendReadsNext, AzureBlockFillsNext, AzureAppendListsNext, AzureCheckIndexNext,
       AzureStageBlockNext, AzureAcceptNext, AzureAcceptRefusedNext, AzureBodyEndsNext
    DEF Azure!Appending, AzureLength

-------------------------------------------------------------------------------
(* completeUpload                                                          *)

\* One step of a completion that stays one, given what it becomes.
LEMMA AzureCompleteGoes ==
    ASSUME AzureApart, AzureBytes, NEW c \in Calls, Running(c), call[c].kind = "complete",
           NEW r \in AzureCalls, r.kind = "complete",
           r.pc \in {"sealing", "listing", "inquiring", "recording"} \cup Sealed,
           r.offset + r.size <= AzureLength, call' = [call EXCEPT ![c] = r],
           UNCHANGED <<staged, key>>, AzureRecordGoes,
           r.pc \in {"listing", "inquiring"} \cup Sealed =>
               r.seal # None /\ r.seal.length = r.expected /\ Azure!Bar' # "none",
           r.pc \in {"lifting", "publishing"} => published = {},
           r.pc = "publishing" =>
               /\ r.told = r.expected /\ AzureJoin(staged.blocks, r.plan) = Prefix(r.told)
               /\ \A d \in Calls : call[d].pc = "wrote" => call[d].told <= r.told,
           r.pc = "refused" => published \subseteq {Prefix(r.seal.length)},
           r.pc = "recording" => /\ published # {} /\ r.ending \in {"complete", "conflict"}
                                 /\ r.ending = "complete" => Prefix(r.told) \in published
    PROVE  AzureBytes'
<1>1. call \in [Calls -> AzureCalls]
    BY AzureParts
<1>2. call'[c] = r /\ staged' = staged /\ published' = published
    BY <1>1 DEF key
<1>3. r.pc \notin Settled
    BY DEF Settled, Sealed
<1>4. AzureKindOf(call'[c]) /\ AzureStages(c)'
    BY <1>2 DEF AzureKindOf, AzureStages, Sealed
<1>5. AzurePlans(c)'
    BY <1>2 DEF AzurePlans, Sealed
<1>6. AzureClaims(c)'
    BY <1>2 DEF AzureClaims, Sealed
<1>7. AzureStands(c)'
    BY <1>4, <1>5, <1>6 DEF AzureStands
<1> QED BY <1>3, <1>7, AzureGoesOn

\* What is known of a completion.
LEMMA AzureCompleteKnows ==
    ASSUME AzureBytes, NEW c \in Calls,
           \/ call[c].pc \in {"inspecting", "sealing", "recording"} \cup Sealed
           \/ call[c].pc \in {"listing", "inquiring"} /\ call[c].kind = "complete"
    PROVE  /\ call[c] \in AzureCalls /\ call \in [Calls -> AzureCalls] /\ call[c].kind = "complete"
           /\ Running(c) /\ call[c].pc # "idle" /\ call[c].offset + call[c].size <= AzureLength
           /\ AzurePlans(c) /\ AzureClaims(c) /\ AzureKindOf(call[c])
           /\ call[c].told \in 0..AzureLength /\ call[c].expected \in 0..AzureLength
           /\ call[c].seal \in AzureSeals \cup {None}
<1>1. /\ call[c] \in AzureCalls /\ call \in [Calls -> AzureCalls] /\ AzurePlans(c)
      /\ AzureKindOf(call[c]) /\ AzureClaims(c) /\ End(c) <= AzureLength
    BY AzureParts
<1>2. call[c].kind = "complete" /\ Running(c) /\ call[c].pc # "idle"
    BY <1>1 DEF AzureKindOf, Running, Settled, Sealed
<1>3. /\ call[c].told \in 0..AzureLength /\ call[c].expected \in 0..AzureLength
      /\ call[c].seal \in AzureSeals \cup {None}
    BY <1>1 DEF AzureCalls
<1> QED BY <1>1, <1>2, <1>3 DEF End

\* What is at the key by this upload's seal, it has published.
LEMMA AzureOursPublished ==
    ASSUME AzureBytes, NEW seal \in AzureSeals, Azure!Ours(seal)
    PROVE  /\ object.body \in published /\ Len(object.body) \in 0..AzureLength
           /\ Prefix(Len(object.body)) \in published
<1>1. object # None /\ object.publication = seal.id /\ seal.id \in Calls /\ seal.id # None
    BY CloudAssumption DEF Azure!Ours, AzureSeals
<1>2. object.body \in published /\ published \subseteq {Prefix(n) : n \in 0..AzureLength}
    BY <1>1, AzureParts DEF AzureBytes, AzureHolds
<1>3. PICK n \in 0..AzureLength : object.body = Prefix(n)
    BY <1>2
<1>4. Len(object.body) = n
    BY <1>3, AzurePrefixes
<1> QED BY <1>2, <1>3, <1>4

\* A completion that begins, or finds the upload over.
LEMMA AzureCompleteReadsNext ==
    ASSUME AzureApart, AzureBytes, NEW c \in Calls, NEW n \in 0..AzureLength, Azure!CompleteReads(c, n)
    PROVE  AzureBytes'
<1>1. UNCHANGED <<info, fresh, staged, key>> /\ Azure!MayBegin(c, "complete")
    BY AzureCloud DEF Azure!CompleteReads, Azure!upload
<1>2. CASE Azure!Over # "none" /\ Ends(c, "complete", Azure!Over, 0)
  <2>1. /\ Azure!Over \in Settled \ {"idle"} /\ Azure!Over \notin {"wrote", "state"}
        /\ "complete" \in Kinds /\ 0 \in 0..AzureLength
      BY <1>2, AzureBars, AzureSame DEF Settled, Kinds
  <2>2. Azure!Over = "complete" => published # {}
      BY AzureBars, AzureParts DEF AzureBytes, AzureHolds
  <2>3. ~(0 > 0)
      OBVIOUS
  <2> QED BY <1>1, <1>2, <2>1, <2>2, <2>3, AzureRecordStays, AzureSettles
<1>3. CASE Azure!Over = "none" /\ Begins(c, [Idle EXCEPT !.kind = "complete", !.pc = "inspecting",
                                                    !.expected = n, !.seal = info.seal])
  <2> DEFINE r == [Idle EXCEPT !.kind = "complete", !.pc = "inspecting", !.expected = n, !.seal = info.seal]
  <2>1. Idle \in AzureCalls /\ Idle.size = 0 /\ Idle.offset = 0
    <3>1. "none" \in Kinds \cup {"none"} /\ "idle" \in AzurePcs /\ 0 \in 0..AzureLength
        BY AzureSame DEF AzurePcs, Settled
    <3> QED BY <3>1, AzureIdle DEF Idle
  <2>2. /\ "complete" \in Kinds \cup {"none"} /\ "inspecting" \in AzurePcs /\ "inspecting" \notin Settled
        /\ info.seal \in AzureSeals \cup {None}
      BY <1>3, AzureBars DEF Kinds, AzurePcs, Settled, AzureBytes, AzureTypes, AzureRecords
  <2>3. r \in AzureCalls /\ r.kind = "complete" /\ r.pc = "inspecting" /\ r.offset = 0 /\ r.size = 0
    <3> HIDE DEF Idle
    <3> QED BY <2>1, <2>2 DEF AzureCalls
  <2>4. call' = [call EXCEPT ![c] = r] /\ call'[c] = r
      BY <1>3, AzureParts DEF Begins
  <2> HIDE DEF r
  <2>5. AzureFits(c, r)
      BY <1>1, <2>2, <2>3, AzureSame DEF AzureFits
  <2>6. AzureStands(c)'
      BY <2>3, <2>4 DEF AzureStands, AzureKindOf, AzureStages, AzurePlans, AzureClaims, Sealed
  <2> QED BY <1>1, <2>4, <2>5, <2>6, AzureRecordStays, AzureMoves
<1> QED BY <1>2, <1>3, AzureCloud DEF Azure!CompleteReads

\* adoptPublication, or what is at the key.
LEMMA AzureInspectNext ==
    ASSUME AzureApart, AzureBytes, NEW c \in Calls, Azure!Inspect(c)
    PROVE  AzureBytes'
<1>1. UNCHANGED <<info, fresh, staged, key>> /\ call[c].pc = "inspecting"
    BY AzureCloud DEF Azure!Inspect, Azure!upload
<1>2. /\ call[c] \in AzureCalls /\ call \in [Calls -> AzureCalls] /\ call[c].kind = "complete"
      /\ Running(c) /\ call[c].offset + call[c].size <= AzureLength
      /\ call[c].seal \in AzureSeals \cup {None}
    BY <1>1, AzureCompleteKnows
<1>3. CASE call[c].seal # None /\ Azure!Ours(call[c].seal) /\ Azure!Adopts(c)
  <2> DEFINE ending == IF Len(object.body) = call[c].expected THEN "complete" ELSE "conflict"
             r == [call[c] EXCEPT !.pc = "recording", !.told = Len(object.body), !.ending = ending]
  <2>1. /\ Len(object.body) \in 0..AzureLength /\ published # {}
        /\ Prefix(Len(object.body)) \in published
      BY <1>2, <1>3, AzureOursPublished
  <2>2. ending \in {"complete", "conflict"} /\ ending \in AzureEndings /\ "recording" \in AzurePcs
      BY DEF AzureEndings, AzurePcs
  <2>3. call' = [call EXCEPT ![c] = r]
      BY <1>2, <1>3 DEF Azure!Adopts
  <2> HIDE DEF ending
  <2>4. /\ r \in AzureCalls /\ r.pc = "recording" /\ r.kind = "complete" /\ r.told = Len(object.body)
        /\ r.ending = ending /\ r.offset = call[c].offset /\ r.size = call[c].size
      BY <1>2, <2>1, <2>2 DEF AzureCalls
  <2> HIDE DEF r
  <2>5. r.pc \in {"sealing", "listing", "inquiring", "recording"} \cup Sealed /\ r.pc # "refused"
        /\ r.pc # "publishing" /\ r.pc # "lifting" /\ r.pc \notin {"listing", "inquiring"} \cup Sealed
      BY <2>4 DEF Sealed
  <2> QED BY <1>1, <1>2, <2>1, <2>2, <2>3, <2>4, <2>5, AzureRecordStays, AzureCompleteGoes
<1>4. CASE call' = [call EXCEPT ![c].pc = "sealing", ![c].destination = Azure!EditionOf(object)]
  <2> DEFINE r == [call[c] EXCEPT !.pc = "sealing", !.destination = Azure!EditionOf(object)]
  <2>1. Azure!EditionOf(object) \in Nat /\ "sealing" \in AzurePcs
      BY DEF AzurePcs, Azure!EditionOf, AzureBytes, AzureTypes
  <2>2. call' = [call EXCEPT ![c] = r]
      BY <1>2, <1>4
  <2>3. /\ r \in AzureCalls /\ r.pc = "sealing" /\ r.kind = "complete"
        /\ r.offset = call[c].offset /\ r.size = call[c].size
      BY <1>2, <2>1 DEF AzureCalls
  <2> HIDE DEF r
  <2>4. r.pc \in {"sealing", "listing", "inquiring", "recording"} \cup Sealed /\ r.pc # "refused"
        /\ r.pc # "publishing" /\ r.pc # "lifting" /\ r.pc \notin {"listing", "inquiring"} \cup Sealed
        /\ r.pc # "recording"
      BY <2>3 DEF Sealed
  <2> QED BY <1>1, <1>2, <2>2, <2>3, <2>4, AzureRecordStays, AzureCompleteGoes
<1> QED BY <1>3, <1>4 DEF Azure!Inspect

\* sealPlan.
LEMMA AzureSealNext ==
    ASSUME AzureApart, AzureBytes, NEW c \in Calls, Azure!Seal(c)
    PROVE  AzureBytes'
<1>1. UNCHANGED <<staged, key>> /\ call[c].pc = "sealing"
    BY AzureCloud, AzureSame DEF Azure!Seal, key, Azure!key
<1>2. /\ call[c] \in AzureCalls /\ call \in [Calls -> AzureCalls] /\ call[c].kind = "complete"
      /\ Running(c) /\ call[c].pc # "idle" /\ call[c].offset + call[c].size <= AzureLength
      /\ call[c].expected \in 0..AzureLength
    BY <1>1, AzureCompleteKnows
<1>3. CASE Azure!Over # "none" /\ Azure!Answers(c, Azure!Over, 0) /\ UNCHANGED <<info, fresh>>
  <2>1. /\ Azure!Over \in Settled \ {"idle"} /\ Azure!Over \notin {"wrote", "state"}
        /\ "complete" \in Kinds /\ 0 \in 0..AzureLength
      BY <1>3, AzureBars, AzureSame DEF Settled, Kinds
  <2>2. Azure!Over = "complete" => published # {}
      BY AzureBars, AzureParts DEF AzureBytes, AzureHolds
  <2>3. ~(0 > 0) /\ Ends(c, "complete", Azure!Over, 0)
      BY <1>2, <1>3, AzureCloud DEF Answers
  <2> QED BY <1>1, <1>3, <2>1, <2>2, <2>3, AzureRecordStays, AzureSettles
<1>4. CASE Azure!Over = "none" /\ Azure!Stored([info EXCEPT !.seal = Azure!SealOf(c)])
  <2> DEFINE seal == Azure!SealOf(c)
             record == [info EXCEPT !.seal = seal]
  <2>1. info \in AzureRecords /\ ~info.complete
      BY <1>4, AzureBars DEF AzureBytes, AzureTypes
  <2>2. seal \in AzureSeals /\ seal.length = call[c].expected
    <3>1. CASE info.seal = None
      <4>1. call[c].destination \in Nat
          BY <1>2 DEF AzureCalls
      <4> QED BY <1>2, <3>1, <4>1 DEF Azure!SealOf, AzureSeals
    <3>2. CASE info.seal # None
      <4>1. info.seal \in AzureSeals
          BY <2>1, <3>2 DEF AzureRecords
      <4> QED BY <1>2, <3>2, <4>1 DEF Azure!SealOf, AzureSeals
    <3> QED BY <3>1, <3>2
  <2> HIDE DEF seal
  <2>3. record \in AzureRecords /\ record.seal = seal /\ ~record.complete
      BY <2>1, <2>2 DEF AzureRecords
  <2>4. info' = record /\ Azure!Stored(record)
      BY <1>4 DEF Azure!Stored, seal
  <2> HIDE DEF record
  <2>5. AzureRecordGoes
      BY <2>2, <2>3, <2>4, AzureRecordSealed
  <2>6. Azure!Bar' # "none" /\ seal # None
    <3>1. seal # None
        BY <2>2, AzureSealed
    <3> QED BY <2>3, <2>4, <3>1 DEF Azure!Bar, Azure!Unwritable
  <2>7. CASE call' = [call EXCEPT ![c].pc = "listing", ![c].seal = Azure!SealOf(c), ![c].record = info']
    <3> DEFINE r == [call[c] EXCEPT !.pc = "listing", !.seal = seal, !.record = record]
    <3>1. "listing" \in AzurePcs
        BY DEF AzurePcs
    <3>2. call' = [call EXCEPT ![c] = r]
        BY <1>2, <2>4, <2>7 DEF seal
    <3>3. /\ r \in AzureCalls /\ r.pc = "listing" /\ r.kind = "complete" /\ r.seal = seal
          /\ r.expected = call[c].expected /\ r.offset = call[c].offset /\ r.size = call[c].size
        BY <1>2, <2>2, <2>3, <3>1 DEF AzureCalls
    <3> HIDE DEF r
    <3>4. /\ r.pc \in {"sealing", "listing", "inquiring", "recording"} \cup Sealed /\ r.pc # "refused"
          /\ r.pc # "publishing" /\ r.pc # "lifting" /\ r.pc # "recording"
        BY <3>3 DEF Sealed
    <3> QED BY <1>1, <1>2, <2>2, <2>5, <2>6, <3>2, <3>3, <3>4, AzureCompleteGoes
  <2>8. CASE Azure!Repeats(c)
      BY <1>1, <1>2, <2>5, <2>8, AzureRepeats
  <2> QED BY <1>4, <2>7, <2>8, <1>1 DEF Azure!Seal
<1> QED BY <1>3, <1>4 DEF Azure!Seal

\* deriveAzureBlocks: the plan is all there is, and what it comes to.
LEMMA AzureSnapshotNext ==
    ASSUME AzureApart, AzureBytes, NEW c \in Calls, Azure!Snapshot(c)
    PROVE  AzureBytes'
<1>1. /\ UNCHANGED <<info, fresh, staged, key>> /\ call[c].pc = "listing" /\ call[c].kind = "complete"
    BY AzureCloud DEF Azure!Snapshot, Azure!upload
<1>2. /\ call[c] \in AzureCalls /\ call \in [Calls -> AzureCalls] /\ Running(c)
      /\ call[c].offset + call[c].size <= AzureLength /\ AzurePlans(c)
    BY <1>1, AzureCompleteKnows
<1>3. call[c].seal # None /\ call[c].seal.length = call[c].expected /\ Azure!Bar # "none"
    BY <1>1, <1>2 DEF AzurePlans
<1>4. AzureRecordGoes /\ Azure!Bar' # "none"
    BY <1>1, <1>3, AzureRecordStays DEF AzureRecordGoes
<1>5. CASE Azure!Condemns(c)
    BY <1>1, <1>2, <1>5, AzureCondemnsNext
<1>6. CASE Azure!Goes(c, "inquiring")
  <2> DEFINE r == [call[c] EXCEPT !.pc = "inquiring"]
  <2>1. "inquiring" \in AzurePcs
      BY DEF AzurePcs
  <2>2. call' = [call EXCEPT ![c] = r]
      BY <1>2, <1>6, AzureCloud DEF Goes
  <2>3. /\ r \in AzureCalls /\ r.pc = "inquiring" /\ r.kind = "complete" /\ r.seal = call[c].seal
        /\ r.expected = call[c].expected /\ r.offset = call[c].offset /\ r.size = call[c].size
      BY <1>1, <1>2, <2>1 DEF AzureCalls
  <2> HIDE DEF r
  <2>4. /\ r.pc \in {"sealing", "listing", "inquiring", "recording"} \cup Sealed /\ r.pc # "refused"
        /\ r.pc # "publishing" /\ r.pc # "lifting" /\ r.pc # "recording"
      BY <2>3 DEF Sealed
  <2> QED BY <1>1, <1>2, <1>3, <1>4, <2>2, <2>3, <2>4, AzureCompleteGoes
<1>7. CASE /\ staged.sentinel
           /\ call' = [call EXCEPT ![c].plan = DOMAIN staged.blocks, ![c].record = None,
                          ![c].told = Len(Azure!Content),
                          ![c].pc = IF Len(Azure!Content) = call[c].expected
                                    THEN "publishing" ELSE "lifting"]
  <2> DEFINE n == AzureExtent(staged.blocks)
             pc == IF n = call[c].expected THEN "publishing" ELSE "lifting"
             plan == DOMAIN staged.blocks
             r == [call[c] EXCEPT !.plan = plan, !.record = None, !.told = n, !.pc = pc]
  <2>1. /\ published = {} /\ AzureWhole(staged.blocks) /\ staged.blocks \in AzureBlocks
      BY <1>7, AzureParts DEF AzureHolds, AzureTypes
  <2>2. n \in 0..AzureLength /\ AzureJoin(staged.blocks, plan) = Prefix(n)
      BY <2>1, AzureWholeIs DEF AzureContent
  <2>3. plan \in SUBSET Azure!Indices
      BY <2>1 DEF AzureBlocks
  <2>4. pc \in AzurePcs /\ pc \in {"publishing", "lifting"}
      BY DEF AzurePcs
  <2>5. \A d \in Calls : call[d].pc = "wrote" => call[d].told <= n
      BY <1>7, AzureParts DEF AzureClaims
  <2>6. call' = [call EXCEPT ![c] = r]
      BY <1>2, <1>7, AzureJoins
  <2> HIDE DEF n, plan
  <2>7. pc = "publishing" => n = call[c].expected
      OBVIOUS
  <2> HIDE DEF pc
  <2>8. /\ r \in AzureCalls /\ r.pc = pc /\ r.kind = "complete" /\ r.seal = call[c].seal /\ r.told = n
        /\ r.expected = call[c].expected /\ r.offset = call[c].offset /\ r.size = call[c].size
        /\ r.plan = plan
      BY <1>1, <1>2, <2>2, <2>3, <2>4 DEF AzureCalls
  <2> HIDE DEF r
  <2>9. /\ r.pc \in {"sealing", "listing", "inquiring", "recording"} \cup Sealed /\ r.pc # "refused"
        /\ r.pc # "recording"
      BY <2>4, <2>8 DEF Sealed
  <2> QED BY <1>1, <1>2, <1>3, <1>4, <2>1, <2>2, <2>5, <2>6, <2>7, <2>8, <2>9, AzureCompleteGoes
<1> QED BY <1>5, <1>6, <1>7 DEF Azure!Snapshot

\* refuseLostPlan.
LEMMA AzureInquireNext ==
    ASSUME AzureApart, AzureBytes, NEW c \in Calls, Azure!Inquire(c)
    PROVE  AzureBytes'
<1>1. /\ UNCHANGED <<info, fresh, staged, key>> /\ call[c].pc = "inquiring" /\ Running(c)
      /\ call[c].pc # "idle"
    BY AzureCloud DEF Azure!Inquire, Azure!upload, Running, Settled
<1>2. "destination" \in Settled \ {"idle", "wrote", "state", "complete"} /\ 0 \in 0..AzureLength
    BY AzureSame DEF Settled
<1>3. CASE Azure!Answers(c, "destination", 0)
    BY <1>1, <1>2, <1>3, AzureRecordStays, AzureAnswers
<1>4. CASE Azure!Condemns(c)
    BY <1>1, <1>4, AzureCondemnsNext
<1> QED BY <1>3, <1>4 DEF Azure!Inquire

\* Only a completion that has not published lifts a seal, and no one else has.
LEMMA AzureLiftSealNext ==
    ASSUME AzureApart, AzureBytes, NEW c \in Calls, Azure!LiftSeal(c)
    PROVE  AzureBytes'
<1>1. UNCHANGED <<staged, key>> /\ call[c].pc = "lifting" /\ call[c].pc \in Sealed
    BY AzureCloud DEF Azure!LiftSeal, Sealed
<1>2. /\ call[c].kind = "complete" /\ Running(c) /\ call[c].pc # "idle" /\ AzurePlans(c)
      /\ call[c].told \in 0..AzureLength
    BY <1>1, AzureCompleteKnows
<1>3. "not-found" \in Settled \ {"idle", "wrote", "state", "complete"} /\ 0 \in 0..AzureLength
    BY AzureSame DEF Settled
<1>4. CASE Azure!Answers(c, "not-found", 0) /\ UNCHANGED <<info, fresh>>
    BY <1>1, <1>2, <1>3, <1>4, AzureRecordStays, AzureAnswers
<1>5. CASE /\ info # None
           /\ Azure!Stored(IF ~info.complete /\ info.seal = call[c].seal
                           THEN [info EXCEPT !.seal = None] ELSE info)
           /\ Azure!Answers(c, "conflict", call[c].told)
  <2> DEFINE r == [Idle EXCEPT !.kind = "complete", !.pc = "conflict", !.told = call[c].told]
  <2>1. /\ AzureTypes /\ AzureHolds /\ AzureAlone /\ info \in AzureRecords
        /\ call \in [Calls -> AzureCalls] /\ published = {}
      BY <1>1, <1>2, <1>5, AzureParts DEF AzureTypes, AzurePlans
  <2>2. info' \in AzureRecords /\ fresh' \subseteq Calls /\ ~info'.complete
    <3>1. ~info.complete
        BY <1>5, <2>1 DEF AzureHolds
    <3>2. [info EXCEPT !.seal = None] \in AzureRecords /\ ~[info EXCEPT !.seal = None].complete
        BY <2>1, <3>1 DEF AzureRecords
    <3> QED BY <1>5, <2>1, <3>1, <3>2 DEF Azure!Stored
  <2>3. /\ staged' = staged /\ object' = object /\ editions' = editions /\ published' = published
      BY <1>1 DEF key
  <2>4. "complete" \in Kinds \cup {"none"} /\ "conflict" \in AzurePcs /\ "conflict" \in Settled
      BY DEF Kinds, AzurePcs, Settled
  <2>5. r \in AzureCalls
      BY <1>2, <2>4, AzureIdle
  <2>6. r.kind = "complete" /\ r.pc = "conflict" /\ r.offset = 0 /\ r.size = 0
      BY DEF Idle
  <2>7. call' = [call EXCEPT ![c] = r] /\ call'[c] = r
    <3>1. Ends(c, "complete", "conflict", call[c].told)
        BY <1>2, <1>5, AzureCloud DEF Answers
    <3>2. call' = [call EXCEPT ![c] = r]
        BY <3>1 DEF Ends
    <3> QED BY <2>1, <3>2
  <2> HIDE DEF r
  <2>8. AzureFits(c, r)
      BY <2>4, <2>5, <2>6, AzureSame DEF AzureFits
  <2>9. /\ call' \in [Calls -> AzureCalls] /\ (\A d \in Calls : End(d)' <= AzureLength)
        /\ AzureAlone' /\ AzureAll'
      BY <2>3, <2>7, <2>8, AzureCallsFit
  <2>10. AzureStands(c)'
      BY <2>6, <2>7 DEF AzureStands, AzureKindOf, AzureStages, AzurePlans, AzureClaims, Sealed
  <2>11. ASSUME NEW d \in Calls, d # c PROVE AzureStands(d)'
    <3>1. call'[d] = call[d]
        BY <2>1, <2>7, <2>11
    <3>2. ~(Running(d) /\ call[d].kind \in Sequential)
        BY <1>2, <2>1, <2>11 DEF AzureAlone, Sequential
    <3> QED BY <2>3, <3>1, <3>2, AzureBystands
  <2>12. AzureTypes'
      BY <2>1, <2>2, <2>3, <2>9 DEF AzureTypes
  <2>13. AzureHolds'
      BY <2>1, <2>2, <2>3 DEF AzureHolds
  <2> QED BY <2>9, <2>10, <2>11, <2>12, <2>13 DEF AzureBytes
<1> QED BY <1>4, <1>5 DEF Azure!LiftSeal

\* What a call that published, or was told that it may not, becomes.
LEMMA AzurePublished ==
    ASSUME AzureBytes, NEW c \in Calls, call[c].pc \in {"publishing", "refused"},
           Azure!Publishing(c) \/ Azure!Goes(c, "refused")
    PROVE  \E r \in AzureCalls :
               /\ call' = [call EXCEPT ![c] = r] /\ call'[c] = r /\ r.kind = "complete"
               /\ r.offset = call[c].offset /\ r.size = call[c].size /\ r.seal = call[c].seal
               /\ r.expected = call[c].expected /\ r.pc \notin Settled
               /\ \/ r.pc = "recording" /\ r.told = call[c].seal.length /\ r.ending = "complete"
                  \/ r.pc = "refused" /\ Azure!Goes(c, "refused")
<1>1. /\ call[c] \in AzureCalls /\ call \in [Calls -> AzureCalls] /\ call[c].kind = "complete"
      /\ AzurePlans(c) /\ call[c].seal \in AzureSeals \cup {None}
    BY AzureCompleteKnows DEF Sealed
<1>2. call[c].seal \in AzureSeals
    BY <1>1 DEF AzurePlans, Sealed
<1>3. call[c].seal.length \in 0..AzureLength
    BY <1>2 DEF AzureSeals
<1>4. /\ {"recording", "refused"} \subseteq AzurePcs \ Settled /\ "complete" \in AzureEndings
    BY DEF AzurePcs, AzureEndings, Settled
<1>5. CASE Azure!Publishing(c)
  <2> DEFINE r == [call[c] EXCEPT !.pc = "recording", !.told = call[c].seal.length, !.ending = "complete"]
  <2>1. /\ r \in AzureCalls /\ r.kind = "complete" /\ r.offset = call[c].offset /\ r.size = call[c].size
        /\ r.seal = call[c].seal /\ r.expected = call[c].expected /\ r.pc = "recording"
        /\ r.told = call[c].seal.length /\ r.ending = "complete"
      BY <1>1, <1>3, <1>4 DEF AzureCalls
  <2>2. call' = [call EXCEPT ![c] = r]
      BY <1>1, <1>5 DEF Azure!Publishing
  <2> HIDE DEF r
  <2>3. call'[c] = r
      BY <1>1, <2>2
  <2> QED BY <1>4, <2>1, <2>2, <2>3
<1>6. CASE Azure!Goes(c, "refused")
  <2> DEFINE r == [call[c] EXCEPT !.pc = "refused"]
  <2>1. /\ r \in AzureCalls /\ r.kind = "complete" /\ r.offset = call[c].offset /\ r.size = call[c].size
        /\ r.seal = call[c].seal /\ r.expected = call[c].expected /\ r.pc = "refused"
      BY <1>1, <1>4 DEF AzureCalls
  <2>2. call' = [call EXCEPT ![c] = r]
      BY <1>1, <1>6, AzureCloud DEF Goes
  <2> HIDE DEF r
  <2>3. call'[c] = r
      BY <1>1, <2>2
  <2> QED BY <1>4, <1>6, <2>1, <2>2, <2>3
<1> QED BY <1>5, <1>6

\* publishPlan's commit: the plan's bytes are the bytes up to the length asked
\* for, no append was told of more, and nothing of them is left staged.
LEMMA AzureCommits ==
    ASSUME AzureApart, AzureBytes, NEW c \in Calls, call[c].pc = "publishing",
           call[c].plan \subseteq DOMAIN staged.blocks, UNCHANGED <<info, fresh>>,
           Azure!Publishes(call[c].seal.id, Azure!Joined(call[c].plan)), staged' = Azure!Nothing,
           Azure!Publishing(c) \/ Azure!Goes(c, "refused")
    PROVE  AzureBytes'
<1> DEFINE n == call[c].told
<1>1. /\ call[c] \in AzureCalls /\ call \in [Calls -> AzureCalls] /\ call[c].kind = "complete"
      /\ Running(c) /\ call[c].offset + call[c].size <= AzureLength /\ AzurePlans(c)
      /\ n \in 0..AzureLength /\ call[c].seal \in AzureSeals \cup {None}
    BY AzureCompleteKnows DEF Sealed
<1>2. /\ published = {} /\ call[c].seal \in AzureSeals /\ call[c].seal.length = call[c].expected
      /\ n = call[c].expected /\ Azure!Bar # "none" /\ AzureJoin(staged.blocks, call[c].plan) = Prefix(n)
    BY <1>1 DEF AzurePlans, Sealed
<1>3. AzureTypes /\ AzureAlone /\ AzureAll
    BY DEF AzureBytes
<1>4. /\ editions' = editions + 1 /\ published' = {Prefix(n)}
      /\ object' = [edition |-> editions + 1, publication |-> call[c].seal.id, body |-> Prefix(n)]
    BY <1>2, AzureJoins DEF Azure!Publishes
<1>5. /\ Prefix(n) \in Azure!Bodies /\ Len(Prefix(n)) = n
    BY <1>1, AzurePrefixes
<1>6. call[c].seal.id \in Calls
    BY <1>2 DEF AzureSeals
<1>7. ~staged'.sentinel /\ staged' \in [sentinel : BOOLEAN, blocks : AzureBlocks]
  <2>1. <<>> \in [{} -> Azure!Bodies] /\ {} \in SUBSET Azure!Indices
      OBVIOUS
  <2>2. <<>> \in AzureBlocks
      BY <2>1 DEF AzureBlocks
  <2> QED BY <2>2 DEF Azure!Nothing
<1>8. PICK r \in AzureCalls :
               /\ call' = [call EXCEPT ![c] = r] /\ call'[c] = r /\ r.kind = "complete"
               /\ r.offset = call[c].offset /\ r.size = call[c].size /\ r.seal = call[c].seal
               /\ r.expected = call[c].expected /\ r.pc \notin Settled
               /\ \/ r.pc = "recording" /\ r.told = call[c].seal.length /\ r.ending = "complete"
                  \/ r.pc = "refused" /\ Azure!Goes(c, "refused")
    BY AzurePublished
<1>9. AzureFits(c, r)
  <2>1. r.pc # "wrote" /\ r.pc # "publishing"
      BY <1>8 DEF Settled
  <2> QED BY <1>1, <1>8, <2>1 DEF AzureFits
<1>10. /\ call' \in [Calls -> AzureCalls] /\ (\A d \in Calls : End(d)' <= AzureLength)
       /\ AzureAlone' /\ AzureAll'
       /\ \A d \in Calls : call'[d].kind = "append" => ~Running(d)'
    BY <1>4, <1>8, <1>9, AzureCallsFit
<1>11. Azure!Bar' # "none"
  <2>1. Azure!Bar' = Azure!Bar
      BY DEF Azure!Bar, Azure!Unwritable
  <2> QED BY <1>2, <2>1
<1>12. AzureTypes'
  <2>1. editions' \in Nat /\ object' \in [edition : Nat, publication : Calls \cup {None}, body : Azure!Bodies]
      BY <1>3, <1>4, <1>5, <1>6 DEF AzureTypes
  <2> QED BY <1>3, <1>7, <1>10, <2>1 DEF AzureTypes
<1>13. AzureHolds'
  <2>1. published' \subseteq {Prefix(k) : k \in 0..AzureLength} /\ object'.body \in published' /\ published' # {}
      BY <1>1, <1>4
  <2> QED BY <1>7, <1>10, <1>11, <2>1 DEF AzureHolds
<1>14. AzureStands(c)'
  <2>1. r.pc \notin {"lifting", "publishing", "listing", "inquiring", "complete", "wrote", "state"}
        /\ r.pc \in {"recording", "refused"}
      BY <1>8
  <2>2. AzureKindOf(call'[c]) /\ AzureStages(c)'
      BY <1>8, <2>1 DEF AzureKindOf, AzureStages, Sealed
  <2>3. AzurePlans(c)'
    <3>1. r.seal # None
        BY <1>2, <1>8, AzureSealed
    <3> QED BY <1>2, <1>4, <1>8, <1>11, <2>1, <3>1 DEF AzurePlans, Sealed
  <2>4. AzureClaims(c)'
      BY <1>2, <1>4, <1>8, <2>1 DEF AzureClaims
  <2> QED BY <2>2, <2>3, <2>4 DEF AzureStands
<1>15. ASSUME NEW d \in Calls, d # c PROVE AzureStands(d)'
  <2>1. call'[d] = call[d]
      BY <1>1, <1>8, <1>15
  <2>2. ~(Running(d) /\ call[d].kind \in Sequential)
      BY <1>1, <1>3, <1>15 DEF AzureAlone, Sequential
  <2>3. call[d].pc = "wrote" => call[d].told <= n
      BY <1>3 DEF AzureAll
  <2>4. \A body \in published' : Len(body) = n
      BY <1>4, <1>5
  <2>5. call[d].pc = "wrote" => \A body \in published' \ published : call[d].told <= Len(body)
      BY <2>3, <2>4
  <2> QED BY <1>2, <1>7, <2>1, <2>2, <2>5, AzureBystands
<1> QED BY <1>10, <1>12, <1>13, <1>14, <1>15 DEF AzureBytes

\* One step of a completion whose plan was refused, or that has published.
LEMMA AzureAfterPublish ==
    ASSUME AzureApart, AzureBytes, NEW c \in Calls, call[c].pc \in {"publishing", "refused"},
           UNCHANGED <<info, fresh, staged, key>>,
           \/ Azure!Publishing(c) /\ Prefix(call[c].seal.length) \in published
           \/ Azure!Goes(c, "refused")
    PROVE  AzureBytes'
<1>1. /\ Running(c) /\ call[c].kind = "complete" /\ call[c].offset + call[c].size <= AzureLength
      /\ AzurePlans(c)
    BY AzureCompleteKnows DEF Sealed
<1>2. /\ call[c].seal # None /\ call[c].seal.length = call[c].expected /\ Azure!Bar # "none"
      /\ published \subseteq {Prefix(call[c].seal.length)}
    BY <1>1 DEF AzurePlans, Sealed
<1>3. PICK r \in AzureCalls :
               /\ call' = [call EXCEPT ![c] = r] /\ call'[c] = r /\ r.kind = "complete"
               /\ r.offset = call[c].offset /\ r.size = call[c].size /\ r.seal = call[c].seal
               /\ r.expected = call[c].expected /\ r.pc \notin Settled
               /\ \/ r.pc = "recording" /\ r.told = call[c].seal.length /\ r.ending = "complete"
                  \/ r.pc = "refused" /\ Azure!Goes(c, "refused")
    BY AzurePublished
<1>4. r.pc = "recording" => Prefix(r.told) \in published
  <2>1. ~(Azure!Goes(c, "refused") /\ call'[c].pc = "recording")
    <3>1. Azure!Goes(c, "refused") => call'[c].pc = "refused"
      <4>1. call[c] \in AzureCalls /\ call \in [Calls -> AzureCalls]
          BY AzureParts
      <4> QED BY <4>1, AzureCloud DEF Goes, AzureCalls
    <3> QED BY <3>1
  <2> QED BY <1>3, <2>1
<1>5. AzureRecordGoes /\ Azure!Bar' # "none"
    BY <1>2, AzureRecordStays DEF AzureRecordGoes
<1>6. /\ r.pc \in {"sealing", "listing", "inquiring", "recording"} \cup Sealed
      /\ r.pc \notin {"lifting", "publishing"} /\ r.pc \in {"recording", "refused"}
    BY <1>3 DEF Sealed
<1>7. r.pc = "recording" => published # {} /\ r.ending = "complete"
    BY <1>3, <1>4
<1> QED BY <1>1, <1>2, <1>3, <1>4, <1>5, <1>6, <1>7, AzureCompleteGoes

\* The commit is made, was refused, or its blocks are not there any more.
LEMMA AzurePublishNext ==
    ASSUME AzureApart, AzureBytes, NEW c \in Calls, Azure!Publish(c)
    PROVE  AzureBytes'
<1>1. UNCHANGED <<info, fresh>> /\ call[c].pc = "publishing" /\ call[c].pc \in {"publishing", "refused"}
    BY DEF Azure!Publish
<1>2. CASE /\ call[c].plan \subseteq DOMAIN staged.blocks
           /\ Azure!Publishes(call[c].seal.id, Azure!Joined(call[c].plan)) /\ staged' = Azure!Nothing
           /\ Azure!Publishing(c) \/ Azure!Goes(c, "refused")
    BY <1>1, <1>2, AzureCommits
<1>3. CASE Azure!Answers(c, "failed", 0) /\ UNCHANGED <<staged, key>>
  <2>1. "failed" \in Settled \ {"idle", "wrote", "state", "complete"} /\ 0 \in 0..AzureLength
      BY AzureSame DEF Settled
  <2>2. call[c].pc # "idle"
      BY <1>1
  <2> QED BY <1>1, <1>3, <2>1, <2>2, AzureRecordStays, AzureAnswers
<1>4. CASE Azure!Goes(c, "refused") /\ UNCHANGED <<staged, key>>
    BY <1>1, <1>4, AzureAfterPublish
<1> QED BY <1>2, <1>3, <1>4, AzureCloud DEF Azure!Publish

\* The answer that was refused may be one's own, whose first hearing was lost.
LEMMA AzureRefusedNext ==
    ASSUME AzureApart, AzureBytes, NEW c \in Calls, Azure!Refused(c)
    PROVE  AzureBytes'
<1>1. /\ UNCHANGED <<info, fresh, staged, key>> /\ call[c].pc = "refused" /\ call[c].pc # "idle"
      /\ call[c].pc \in {"publishing", "refused"}
    BY AzureCloud DEF Azure!Refused, Azure!upload
<1>2. CASE Azure!Ours(call[c].seal) /\ Azure!Publishing(c)
  <2>1. call[c].seal \in AzureSeals /\ published \subseteq {Prefix(call[c].seal.length)}
      BY <1>1, AzureCompleteKnows DEF AzurePlans, Sealed
  <2>2. Prefix(call[c].seal.length) \in published
      BY <1>2, <2>1, AzureOursPublished
  <2> QED BY <1>1, <1>2, <2>2, AzureAfterPublish
<1>3. CASE Azure!Answers(c, "destination", 0)
  <2>1. "destination" \in Settled \ {"idle", "wrote", "state", "complete"} /\ 0 \in 0..AzureLength
      BY AzureSame DEF Settled
  <2> QED BY <1>1, <1>3, <2>1, AzureRecordStays, AzureAnswers
<1> QED BY <1>2, <1>3 DEF Azure!Refused

\* The record says complete when something is published, and then the answer.
LEMMA AzureRecordNext ==
    ASSUME AzureApart, AzureBytes, NEW c \in Calls, Azure!Record(c)
    PROVE  AzureBytes'
<1>1. UNCHANGED <<staged, key>> /\ call[c].pc = "recording"
    BY AzureCloud DEF Azure!Record
<1>2. /\ call[c].kind = "complete" /\ Running(c) /\ call[c].pc # "idle" /\ AzureClaims(c)
      /\ call[c].told \in 0..AzureLength /\ AzureKindOf(call[c])
    BY <1>1, AzureCompleteKnows
<1>3. CASE Azure!Answers(c, "not-found", 0) /\ UNCHANGED <<info, fresh>>
  <2>1. "not-found" \in Settled \ {"idle", "wrote", "state", "complete"} /\ 0 \in 0..AzureLength
      BY AzureSame DEF Settled
  <2> QED BY <1>1, <1>2, <1>3, <2>1, AzureRecordStays, AzureAnswers
<1>4. CASE info # None /\ Azure!Stored(Azure!Laid(info, Azure!Complete))
  <2>1. published # {} /\ call[c].ending \in {"complete", "conflict"}
        /\ (call[c].ending = "complete" /\ call[c].told > 0 => Prefix(call[c].told) \in published)
      BY <1>1, <1>2 DEF AzureClaims, AzureKindOf
  <2>2. AzureRecordGoes
      BY <1>4, <2>1, AzureRecordLaid
  <2>3. CASE Azure!Answers(c, call[c].ending, call[c].told)
    <3>1. Ends(c, "complete", call[c].ending, call[c].told)
        BY <1>2, <2>3, AzureCloud DEF Answers
    <3>2. /\ call[c].ending \in Settled \ {"idle"} /\ call[c].ending \notin {"wrote", "state"}
          /\ "complete" \in Kinds
        BY <2>1 DEF Settled, Kinds
    <3> QED BY <1>1, <1>2, <2>1, <2>2, <3>1, <3>2, AzureSettles
  <2>4. CASE Azure!Repeats(c)
      BY <1>1, <1>2, <2>2, <2>4, AzureRepeats
  <2> QED BY <1>4, <1>1, <2>3, <2>4, <1>3 DEF Azure!Record
<1> QED BY <1>3, <1>4 DEF Azure!Record

\* Every step of a completion.
LEMMA AzureCompletingNext ==
    ASSUME AzureApart, AzureBytes, NEW c \in Calls, Azure!Completing(c)
    PROVE  AzureBytes'
    BY AzureCompleteReadsNext, AzureInspectNext, AzureSealNext, AzureSnapshotNext, AzureInquireNext,
       AzureLiftSealNext, AzurePublishNext, AzureRefusedNext, AzureRecordNext
    DEF Azure!Completing, AzureLength

-------------------------------------------------------------------------------
(* getUploadState, abortUpload and the sweep                               *)

\* A probe or a discard that begins.
LEMMA AzureBegins ==
    ASSUME AzureApart, AzureBytes, NEW c \in Calls, NEW r \in AzureCalls,
           r.kind \in {"probe", "discard"}, Azure!MayBegin(c, r.kind),
           r.pc = "listing" \/ (r.pc \in {"emptying", "forgetting"} /\ r.kind = "discard"),
           r.offset = 0, r.size = 0, call' = [call EXCEPT ![c] = r], UNCHANGED <<info, fresh, staged, key>>
    PROVE  AzureBytes'
<1>1. AzureFits(c, r)
    BY AzureSame DEF AzureFits
<1>2. call'[c] = r
    BY AzureParts
<1>3. AzureStands(c)'
    BY <1>2 DEF AzureStands, AzureKindOf, AzureStages, AzurePlans, AzureClaims, Sealed
<1> QED BY <1>1, <1>3, AzureRecordStays, AzureMoves

\* A probe begins, or is answered by the record alone.
LEMMA AzureProbeReadsNext ==
    ASSUME AzureApart, AzureBytes, NEW c \in Calls, Azure!ProbeReads(c)
    PROVE  AzureBytes'
<1>1. UNCHANGED <<info, fresh, staged, key>> /\ Azure!MayBegin(c, "probe")
    BY AzureCloud DEF Azure!ProbeReads, Azure!upload
<1>2. /\ {"not-found", "settled"} \subseteq Settled \ {"idle", "wrote", "state", "complete"}
      /\ 0 \in 0..AzureLength /\ "probe" \in Kinds
    BY AzureSame DEF Settled, Kinds
<1>3. ASSUME NEW pc \in {"not-found", "settled"}, Ends(c, "probe", pc, 0) PROVE AzureBytes'
  <2>1. pc \in Settled \ {"idle"} /\ pc \notin {"wrote", "state", "complete"}
      BY <1>2
  <2> QED BY <1>1, <1>2, <1>3, <2>1, AzureRecordStays, AzureSettles
<1>4. CASE info # None /\ Begins(c, [Idle EXCEPT !.kind = "probe", !.pc = "listing", !.record = info,
                                                 !.seal = info.seal])
  <2> DEFINE r == [Idle EXCEPT !.kind = "probe", !.pc = "listing", !.record = info, !.seal = info.seal]
  <2>1. Idle \in AzureCalls /\ Idle.size = 0 /\ Idle.offset = 0
    <3>1. "none" \in Kinds \cup {"none"} /\ "idle" \in AzurePcs
        BY DEF AzurePcs, Settled
    <3> QED BY <1>2, <3>1, AzureIdle DEF Idle
  <2>2. /\ "probe" \in Kinds \cup {"none"} /\ "listing" \in AzurePcs /\ info \in AzureRecords
        /\ info.seal \in AzureSeals \cup {None}
      BY <1>4 DEF Kinds, AzurePcs, AzureBytes, AzureTypes, AzureRecords
  <2>3. r \in AzureCalls /\ r.kind = "probe" /\ r.pc = "listing" /\ r.offset = 0 /\ r.size = 0
    <3> HIDE DEF Idle
    <3> QED BY <2>1, <2>2 DEF AzureCalls
  <2>4. call' = [call EXCEPT ![c] = r]
      BY <1>4 DEF Begins
  <2> HIDE DEF r
  <2> QED BY <1>1, <2>3, <2>4, AzureBegins
<1> QED BY <1>3, <1>4, AzureCloud DEF Azure!ProbeReads

\* What it is told is what the store has.
LEMMA AzureProbeListsNext ==
    ASSUME AzureApart, AzureBytes, NEW c \in Calls, Azure!ProbeLists(c)
    PROVE  AzureBytes'
<1>1. /\ UNCHANGED <<info, fresh, staged, key>> /\ call[c].pc = "listing" /\ call[c].kind = "probe"
    BY AzureCloud DEF Azure!ProbeLists, Azure!upload
<1>2. /\ call[c] \in AzureCalls /\ call \in [Calls -> AzureCalls] /\ End(c) <= AzureLength
    BY AzureParts
<1>3. Running(c) /\ call[c].offset + call[c].size <= AzureLength
    BY <1>1, <1>2 DEF Running, Settled, End
<1>4. CASE Azure!Condemns(c)
    BY <1>1, <1>3, <1>4, AzureCondemnsNext
<1>5. CASE staged.sentinel /\ Azure!Answers(c, "state", Len(Azure!Content))
  <2>1. AzureWhole(staged.blocks)
      BY <1>5, AzureParts DEF AzureHolds
  <2>2. AzureExtent(staged.blocks) \in 0..AzureLength /\ Len(Azure!Content) = AzureExtent(staged.blocks)
      BY <2>1, AzureWholeIs, AzureJoins
  <2>3. Ends(c, "probe", "state", AzureExtent(staged.blocks))
      BY <1>1, <1>5, <2>2, AzureCloud DEF Answers
  <2>4. "state" \in Settled \ {"idle"} /\ "probe" \in Kinds
      BY DEF Settled, Kinds
  <2>5. AzureExtent(staged.blocks) <= AzureExtent(staged.blocks)
      BY <2>2
  <2> QED BY <1>1, <2>2, <2>3, <2>4, <2>5, AzureRecordStays, AzureSettles
<1>6. CASE Azure!Goes(c, "inquiring")
  <2> DEFINE r == [call[c] EXCEPT !.pc = "inquiring"]
  <2>1. "inquiring" \in AzurePcs /\ "inquiring" \notin Settled
      BY DEF AzurePcs, Settled
  <2>2. call' = [call EXCEPT ![c] = r]
      BY <1>2, <1>6, AzureCloud DEF Goes
  <2>3. /\ r \in AzureCalls /\ r.pc = "inquiring" /\ r.kind = "probe"
        /\ r.offset = call[c].offset /\ r.size = call[c].size
      BY <1>1, <1>2, <2>1 DEF AzureCalls
  <2> HIDE DEF r
  <2>4. call'[c] = r
      BY <1>2, <2>2
  <2>5. AzureStands(c)'
      BY <2>3, <2>4 DEF AzureStands, AzureKindOf, AzureStages, AzurePlans, AzureClaims, Sealed
  <2> QED BY <1>1, <1>3, <2>1, <2>2, <2>3, <2>5, AzureRecordStays, AzureGoesOn
<1> QED BY <1>4, <1>5, <1>6 DEF Azure!ProbeLists

\* A probe that finds no sentinel under a seal.
LEMMA AzureProbeInquiresNext ==
    ASSUME AzureApart, AzureBytes, NEW c \in Calls, Azure!ProbeInquires(c)
    PROVE  AzureBytes'
<1>1. /\ UNCHANGED <<info, fresh, staged, key>> /\ call[c].pc = "inquiring" /\ Running(c)
      /\ call[c].pc # "idle"
    BY AzureCloud DEF Azure!ProbeInquires, Azure!upload, Running, Settled
<1>2. "settled" \in Settled \ {"idle", "wrote", "state", "complete"} /\ 0 \in 0..AzureLength
    BY AzureSame DEF Settled
<1>3. CASE Azure!Answers(c, "settled", 0)
    BY <1>1, <1>2, <1>3, AzureRecordStays, AzureAnswers
<1>4. CASE Azure!Condemns(c)
    BY <1>1, <1>4, AzureCondemnsNext
<1> QED BY <1>3, <1>4 DEF Azure!ProbeInquires

\* Every step of a probe.
LEMMA AzureProbingNext ==
    ASSUME AzureApart, AzureBytes, NEW c \in Calls, Azure!Probing(c)
    PROVE  AzureBytes'
    BY AzureProbeReadsNext, AzureProbeListsNext, AzureProbeInquiresNext DEF Azure!Probing

\* A discard begins, or finds the record gone.
LEMMA AzureDiscardReadsNext ==
    ASSUME AzureApart, AzureBytes, NEW c \in Calls, Azure!DiscardReads(c)
    PROVE  AzureBytes'
<1>1. UNCHANGED <<info, fresh, staged, key>> /\ Azure!MayBegin(c, "discard")
    BY AzureCloud DEF Azure!DiscardReads, Azure!upload
<1>2. /\ "discarded" \in Settled \ {"idle"} /\ 0 \in 0..AzureLength /\ "discard" \in Kinds
    BY AzureSame DEF Settled, Kinds
<1>3. CASE Ends(c, "discard", "discarded", 0)
    BY <1>1, <1>2, <1>3, AzureRecordStays, AzureSettles
<1>4. ASSUME NEW pc \in {"emptying", "forgetting"},
             Begins(c, [Idle EXCEPT !.kind = "discard", !.pc = pc])
      PROVE  AzureBytes'
  <2> DEFINE r == [Idle EXCEPT !.kind = "discard", !.pc = pc]
  <2>1. Idle \in AzureCalls /\ Idle.size = 0 /\ Idle.offset = 0
    <3>1. "none" \in Kinds \cup {"none"} /\ "idle" \in AzurePcs
        BY DEF AzurePcs, Settled
    <3> QED BY <1>2, <3>1, AzureIdle DEF Idle
  <2>2. /\ "discard" \in Kinds \cup {"none"} /\ pc \in AzurePcs
      BY DEF Kinds, AzurePcs
  <2>3. r \in AzureCalls /\ r.kind = "discard" /\ r.pc = pc /\ r.offset = 0 /\ r.size = 0
    <3> HIDE DEF Idle
    <3> QED BY <2>1, <2>2 DEF AzureCalls
  <2>4. call' = [call EXCEPT ![c] = r]
      BY <1>4 DEF Begins
  <2> HIDE DEF r
  <2> QED BY <1>1, <2>3, <2>4, AzureBegins
<1> QED BY <1>3, <1>4, AzureCloud DEF Azure!DiscardReads

\* A step that leaves no more of the bytes than there were, and nothing new of
\* the upload's at the key.
LEMMA AzureShrinks ==
    ASSUME AzureApart, AzureBytes, UNCHANGED <<info, fresh, published>>,
           staged' \in [sentinel : BOOLEAN, blocks : AzureBlocks],
           \/ staged' = staged
           \/ /\ ~staged'.sentinel /\ DOMAIN staged'.blocks \subseteq DOMAIN staged.blocks
              /\ \A i \in DOMAIN staged'.blocks : staged'.blocks[i] = staged.blocks[i],
           editions' \in Nat,
           \/ object' \in {object, None}
           \/ object' = [edition |-> editions', publication |-> None, body |-> <<>>],
           call' \in [Calls -> AzureCalls], \A d \in Calls : End(d)' <= AzureLength,
           AzureAlone', AzureAll',
           published # {} => \A d \in Calls : call'[d].kind = "append" => ~Running(d)',
           \A d \in Calls : call'[d] = call[d] \/ AzureStands(d)'
    PROVE  AzureBytes'
<1>1. AzureTypes /\ AzureHolds
    BY DEF AzureBytes
<1>2. AzureRecordGoes
    BY AzureRecordStays
<1>3. ASSUME NEW d \in Calls PROVE AzureStands(d)'
    BY <1>2, AzureKept DEF AzureRecordGoes
<1>4. object' \in [edition : Nat, publication : Calls \cup {None}, body : Azure!Bodies] \cup {None}
  <2>1. <<>> \in Azure!Bodies
    <3>1. <<>> \in [1..0 -> 1..AzureLength] /\ 0 \in 0..AzureLength
        BY AzureSame
    <3> QED BY <3>1, AzureSame
  <2> QED BY <1>1, <2>1 DEF AzureTypes
<1>5. AzureTypes'
    BY <1>1, <1>4 DEF AzureTypes
<1>6. AzureHolds'
  <2>1. object' # None /\ object'.publication # None => object' = object
      OBVIOUS
  <2>2. staged'.sentinel => published' = {} /\ AzureWhole(staged'.blocks)
      BY <1>1 DEF AzureHolds
  <2>3. published' # {} => Azure!Bar' # "none"
      BY <1>1, <1>2 DEF AzureHolds, AzureRecordGoes
  <2> QED BY <1>1, <2>1, <2>2, <2>3 DEF AzureHolds
<1> QED BY <1>3, <1>5, <1>6 DEF AzureBytes

\* The same of a step of one call,
LEMMA AzureShrinksOf ==
    ASSUME AzureApart, AzureBytes, UNCHANGED <<info, fresh, published>>,
           staged' = staged \/ staged' = Azure!Nothing, editions' \in Nat,
           \/ object' \in {object, None}
           \/ object' = [edition |-> editions', publication |-> None, body |-> <<>>],
           NEW c \in Calls, NEW r, AzureFits(c, r), call' = [call EXCEPT ![c] = r], AzureStands(c)'
    PROVE  AzureBytes'
<1>1. /\ call' \in [Calls -> AzureCalls] /\ (\A d \in Calls : End(d)' <= AzureLength)
      /\ AzureAlone' /\ AzureAll'
      /\ published' # {} => \A d \in Calls : call'[d].kind = "append" => ~Running(d)'
    BY AzureCallsFit
<1>2. \A d \in Calls : call'[d] = call[d] \/ AzureStands(d)'
    BY AzureParts
<1>3. staged \in [sentinel : BOOLEAN, blocks : AzureBlocks]
    BY AzureParts DEF AzureTypes
<1>4. Azure!Nothing \in [sentinel : BOOLEAN, blocks : AzureBlocks] /\ ~Azure!Nothing.sentinel
      /\ DOMAIN Azure!Nothing.blocks = {}
  <2>1. <<>> \in [{} -> Azure!Bodies] /\ {} \in SUBSET Azure!Indices
      OBVIOUS
  <2>2. <<>> \in AzureBlocks
      BY <2>1 DEF AzureBlocks
  <2> QED BY <2>2 DEF Azure!Nothing
<1> QED BY <1>1, <1>2, <1>3, <1>4, AzureShrinks

\* and of one that none takes.
LEMMA AzureShrinksBeside ==
    ASSUME AzureApart, AzureBytes, UNCHANGED <<info, fresh, published, call>>,
           staged' \in [sentinel : BOOLEAN, blocks : AzureBlocks],
           \/ staged' = staged
           \/ /\ ~staged'.sentinel /\ DOMAIN staged'.blocks \subseteq DOMAIN staged.blocks
              /\ \A i \in DOMAIN staged'.blocks : staged'.blocks[i] = staged.blocks[i],
           editions' \in Nat,
           \/ object' \in {object, None}
           \/ object' = [edition |-> editions', publication |-> None, body |-> <<>>]
    PROVE  AzureBytes'
<1>1. AzureTypes /\ AzureHolds /\ AzureAlone /\ AzureAll
    BY DEF AzureBytes
<1>2. call' \in [Calls -> AzureCalls] /\ \A d \in Calls : End(d)' <= AzureLength
    BY <1>1 DEF AzureTypes, End
<1>3. AzureAlone' /\ AzureAll'
    BY <1>1 DEF AzureAlone, AzureAll, Running
<1>4. published # {} => \A d \in Calls : call'[d].kind = "append" => ~Running(d)'
    BY <1>1 DEF AzureHolds, Running
<1> QED BY <1>2, <1>3, <1>4, AzureShrinks

\* What an emptied target leads to.
LEMMA AzureEmptiedFits ==
    ASSUME AzureBytes, NEW c \in Calls, call[c].pc \in {"emptying", "removing"}, Azure!Emptied(c)
    PROVE  \E r : AzureFits(c, r) /\ call' = [call EXCEPT ![c] = r] /\ AzureStands(c)'
<1>1. /\ call[c] \in AzureCalls /\ call \in [Calls -> AzureCalls] /\ End(c) <= AzureLength
      /\ AzureKindOf(call[c])
    BY AzureParts
<1>2. Running(c) /\ call[c].offset + call[c].size <= AzureLength
    BY <1>1 DEF Running, Settled, End
<1>3. CASE call[c].kind = "discard"
  <2> DEFINE r == [call[c] EXCEPT !.pc = "forgetting"]
  <2>1. "forgetting" \in AzurePcs /\ "forgetting" \notin Settled
      BY DEF AzurePcs, Settled
  <2>2. call' = [call EXCEPT ![c] = r]
      BY <1>1, <1>3, AzureCloud DEF Azure!Emptied, Goes
  <2>3. /\ r \in AzureCalls /\ r.pc = "forgetting" /\ r.kind = "discard"
        /\ r.offset = call[c].offset /\ r.size = call[c].size
      BY <1>1, <1>3, <2>1 DEF AzureCalls
  <2> HIDE DEF r
  <2>4. call'[c] = r
      BY <1>1, <2>2
  <2>5. AzureStands(c)'
      BY <2>3, <2>4 DEF AzureStands, AzureKindOf, AzureStages, AzurePlans, AzureClaims, Sealed
  <2>6. AzureFits(c, r)
      BY <1>2, <1>3, <2>3 DEF AzureFits
  <2> QED BY <2>2, <2>5, <2>6
<1>4. CASE call[c].kind = "append" /\ call[c].ending = "not-found"
  <2> DEFINE r == [Idle EXCEPT !.kind = "append", !.pc = "not-found", !.told = 0]
  <2>1. Ends(c, "append", "not-found", 0)
      BY <1>4, AzureCloud DEF Azure!Emptied, Answers
  <2>2. call' = [call EXCEPT ![c] = r]
      BY <2>1 DEF Ends
  <2>3. "append" \in Kinds \cup {"none"} /\ "not-found" \in AzurePcs /\ 0 \in 0..AzureLength
        /\ "not-found" \in Settled
      BY AzureSame DEF Kinds, AzurePcs, Settled
  <2>4. r \in AzureCalls
      BY <2>3, AzureIdle
  <2>5. r.kind = "append" /\ r.pc = "not-found" /\ r.offset = 0 /\ r.size = 0
      BY DEF Idle
  <2> HIDE DEF r
  <2>6. call'[c] = r
      BY <1>1, <2>2
  <2>7. AzureStands(c)'
      BY <2>5, <2>6 DEF AzureStands, AzureKindOf, AzureStages, AzurePlans, AzureClaims, Sealed
  <2>8. AzureFits(c, r)
      BY <2>3, <2>4, <2>5, AzureSame DEF AzureFits
  <2> QED BY <2>2, <2>7, <2>8
<1> QED BY <1>1, <1>3, <1>4 DEF AzureKindOf

\* discardUncommittedTarget: the empty commit that drops what is staged,
LEMMA AzureDiscardEmptiesNext ==
    ASSUME AzureApart, AzureBytes, NEW c \in Calls, Azure!DiscardEmpties(c)
    PROVE  AzureBytes'
<1>1. /\ UNCHANGED <<info, fresh, published>> /\ call[c].pc = "emptying"
      /\ call[c].pc \in {"emptying", "removing"}
    BY DEF Azure!DiscardEmpties
<1>2. /\ call[c] \in AzureCalls /\ call \in [Calls -> AzureCalls] /\ End(c) <= AzureLength
      /\ AzureKindOf(call[c]) /\ editions \in Nat
    BY AzureParts DEF AzureTypes
<1>3. Running(c) /\ call[c].offset + call[c].size <= AzureLength
    BY <1>1, <1>2 DEF Running, Settled, End
<1>4. CASE object = None /\ staged # Azure!Nothing
  <2> DEFINE r == [call[c] EXCEPT !.pc = "removing", !.destination = editions']
  <2>1. /\ editions' = editions + 1 /\ staged' = Azure!Nothing
        /\ object' = [edition |-> editions', publication |-> None, body |-> <<>>]
        /\ call' = [call EXCEPT ![c].pc = "removing", ![c].destination = editions']
      BY <1>4 DEF Azure!DiscardEmpties
  <2>2. editions' \in Nat /\ "removing" \in AzurePcs /\ "removing" \notin Settled
      BY <1>2, <2>1 DEF AzurePcs, Settled
  <2>3. call' = [call EXCEPT ![c] = r]
      BY <1>2, <2>1
  <2>4. /\ r \in AzureCalls /\ r.pc = "removing" /\ r.kind = call[c].kind /\ r.ending = call[c].ending
        /\ r.offset = call[c].offset /\ r.size = call[c].size
      BY <1>2, <2>2 DEF AzureCalls
  <2> HIDE DEF r
  <2>5. call'[c] = r
      BY <1>2, <2>3
  <2>6. AzureStands(c)'
      BY <1>1, <1>2, <2>4, <2>5 DEF AzureStands, AzureKindOf, AzureStages, AzurePlans, AzureClaims, Sealed
  <2>7. AzureFits(c, r)
      BY <1>3, <2>4 DEF AzureFits
  <2> QED BY <1>1, <2>1, <2>2, <2>3, <2>6, <2>7, AzureShrinksOf
<1>5. CASE Azure!Emptied(c) /\ UNCHANGED <<object, editions, staged>>
  <2>1. PICK r : AzureFits(c, r) /\ call' = [call EXCEPT ![c] = r] /\ AzureStands(c)'
      BY <1>1, <1>5, AzureEmptiedFits
  <2> QED BY <1>1, <1>2, <1>5, <2>1, AzureShrinksOf
<1> QED BY <1>4, <1>5 DEF Azure!DiscardEmpties

\* and its removal.
LEMMA AzureDiscardRemovesNext ==
    ASSUME AzureApart, AzureBytes, NEW c \in Calls, Azure!DiscardRemoves(c)
    PROVE  AzureBytes'
<1>1. /\ UNCHANGED <<info, fresh, published, staged, editions>> /\ call[c].pc \in {"emptying", "removing"}
      /\ object' \in {object, None} /\ Azure!Emptied(c)
    BY DEF Azure!DiscardRemoves, Azure!upload
<1>2. PICK r : AzureFits(c, r) /\ call' = [call EXCEPT ![c] = r] /\ AzureStands(c)'
    BY <1>1, AzureEmptiedFits
<1>3. editions' \in Nat
    BY <1>1, AzureParts DEF AzureTypes
<1> QED BY <1>1, <1>2, <1>3, AzureShrinksOf

\* The record goes last.
LEMMA AzureDiscardForgetsNext ==
    ASSUME AzureApart, AzureBytes, NEW c \in Calls, Azure!DiscardForgets(c)
    PROVE  AzureBytes'
<1>1. /\ UNCHANGED <<staged, key>> /\ call[c].pc # "idle" /\ info' = None /\ fresh' = {}
      /\ Azure!Answers(c, "discarded", 0)
    BY AzureCloud DEF Azure!DiscardForgets
<1>2. "discarded" \in Settled \ {"idle", "wrote", "state", "complete"} /\ 0 \in 0..AzureLength
    BY AzureSame DEF Settled
<1> QED BY <1>1, <1>2, AzureRecordDropped, AzureAnswers

\* Every step of a discard.
LEMMA AzureDiscardingNext ==
    ASSUME AzureApart, AzureBytes, NEW c \in Calls, Azure!Discarding(c)
    PROVE  AzureBytes'
    BY AzureDiscardReadsNext, AzureDiscardEmptiesNext, AzureDiscardRemovesNext, AzureDiscardForgetsNext
    DEF Azure!Discarding

-------------------------------------------------------------------------------
(* The service and other writers                                           *)

\* The service lets go of a block, or of the sentinel.
LEMMA AzureAgesOutNext ==
    ASSUME AzureApart, AzureBytes, Azure!AgesOut
    PROVE  AzureBytes'
<1>1. UNCHANGED <<info, fresh, object, editions, published, call>>
    BY DEF Azure!AgesOut
<1>2. staged \in [sentinel : BOOLEAN, blocks : AzureBlocks] /\ editions \in Nat
    BY DEF AzureBytes, AzureTypes
<1>3. CASE staged.sentinel /\ staged' = [staged EXCEPT !.sentinel = FALSE]
  <2>1. staged' = [sentinel |-> FALSE, blocks |-> staged.blocks]
      BY <1>2, <1>3
  <2> QED BY <1>1, <1>2, <2>1, AzureShrinksBeside
<1>4. CASE /\ ~staged.sentinel
           /\ staged' = [staged EXCEPT !.blocks = [i \in DOMAIN @ \ {Azure!Min(DOMAIN @)} |-> @[i]]]
  <2> DEFINE rest == [i \in DOMAIN staged.blocks \ {Azure!Min(DOMAIN staged.blocks)} |-> staged.blocks[i]]
  <2>1. staged' = [sentinel |-> FALSE, blocks |-> rest]
      BY <1>2, <1>4
  <2>2. PICK I \in SUBSET Azure!Indices : staged.blocks \in [I -> Azure!Bodies]
      BY <1>2 DEF AzureBlocks
  <2>3. /\ DOMAIN rest \in SUBSET Azure!Indices /\ rest \in [DOMAIN rest -> Azure!Bodies]
        /\ DOMAIN rest \subseteq DOMAIN staged.blocks /\ \A i \in DOMAIN rest : rest[i] = staged.blocks[i]
      BY <2>2
  <2> HIDE DEF rest
  <2>4. rest \in AzureBlocks
      BY <2>3 DEF AzureBlocks
  <2> QED BY <1>1, <1>2, <2>1, <2>3, <2>4, AzureShrinksBeside
<1> QED BY <1>3, <1>4 DEF Azure!AgesOut

\* Another writer at the key, which takes what is staged with it.
LEMMA AzureStrangerNext ==
    ASSUME AzureApart, AzureBytes,
           \/ Azure!StrangerWrites /\ staged' = Azure!Nothing
           \/ Azure!StrangerDeletes /\ staged' \in {staged, Azure!Nothing}
    PROVE  AzureBytes'
<1>1. /\ UNCHANGED <<info, fresh, published, call>> /\ editions' \in {editions, editions + 1}
      /\ \/ object' \in {object, None}
         \/ object' = [edition |-> editions', publication |-> None, body |-> <<>>]
    BY AzureCloud DEF StrangerWrites, StrangerDeletes
<1>2. staged \in [sentinel : BOOLEAN, blocks : AzureBlocks] /\ editions' \in Nat
    BY <1>1 DEF AzureBytes, AzureTypes
<1>3. /\ Azure!Nothing \in [sentinel : BOOLEAN, blocks : AzureBlocks] /\ ~Azure!Nothing.sentinel
      /\ DOMAIN Azure!Nothing.blocks = {}
  <2>1. <<>> \in [{} -> Azure!Bodies] /\ {} \in SUBSET Azure!Indices
      OBVIOUS
  <2>2. <<>> \in AzureBlocks
      BY <2>1 DEF AzureBlocks
  <2> QED BY <2>2 DEF Azure!Nothing
<1> QED BY <1>1, <1>2, <1>3, AzureShrinksBeside

\* Every step of the azure store.
LEMMA AzureBytesNext ==
    ASSUME AzureApart, AzureBytes, Azure!Next
    PROVE  AzureBytes'
    BY AzureAgesOutNext, AzureStrangerNext, AzureAppendingNext, AzureCompletingNext, AzureCondemnNext,
       AzureProbingNext, AzureDiscardingNext, AzureCrashNext
    DEF Azure!Next

\* Nothing happens.
LEMMA AzureBytesStay ==
    ASSUME AzureBytes, UNCHANGED vars
    PROVE  AzureBytes'
<1>1. /\ UNCHANGED <<info, fresh, staged, object, editions, published, call>>
    BY DEF vars, upload, key
<1>2. AzureTypes' /\ AzureAlone' /\ AzureAll'
    BY <1>1 DEF AzureBytes, AzureTypes, AzureAlone, AzureAll, Running, End
<1>3. AzureHolds' /\ Azure!Bar' = Azure!Bar
    BY <1>1 DEF AzureBytes, AzureHolds, Running, Azure!Bar, Azure!Unwritable
<1>4. ASSUME NEW c \in Calls PROVE AzureStands(c)'
    BY <1>1, <1>3, AzureKept
<1> QED BY <1>2, <1>3, <1>4 DEF AzureBytes

\* An upload that was just created.
LEMMA AzureBytesInit == Azure!Init => AzureBytes
<1> SUFFICES ASSUME Azure!Init PROVE AzureBytes
    OBVIOUS
<1> DEFINE record == [seal |-> None, invalid |-> FALSE, complete |-> FALSE, blocks |-> 0, bytes |-> 0]
<1>1. Created(record, [sentinel |-> TRUE, blocks |-> <<>>])
    BY AzureCloud DEF Azure!Init
<1>2. /\ info = record /\ fresh = {} /\ staged = [sentinel |-> TRUE, blocks |-> <<>>]
      /\ object \in {None, [edition |-> 1, publication |-> None, body |-> <<>>]}
      /\ editions = 1 /\ call = [c \in Calls |-> Idle] /\ published = {}
    BY <1>1 DEF Created
<1>3. 0 \in 0..AzureLength /\ AzureLength \in Nat
    BY AzureSame
<1>4. record \in AzureRecords /\ record.complete = FALSE
    BY <1>3 DEF AzureRecords
<1>5. Idle \in AzureCalls /\ Idle.pc = "idle" /\ Idle.kind = "none" /\ Idle.offset = 0 /\ Idle.size = 0
  <2>1. "none" \in Kinds \cup {"none"} /\ "idle" \in AzurePcs
      BY DEF AzurePcs, Settled
  <2> QED BY <1>3, <2>1, AzureIdle DEF Idle
<1>6. <<>> \in AzureBlocks /\ DOMAIN <<>> = {}
  <2>1. <<>> \in [{} -> Azure!Bodies] /\ {} \in SUBSET Azure!Indices
      OBVIOUS
  <2> QED BY <2>1 DEF AzureBlocks
<1>7. <<>> \in Azure!Bodies
  <2>1. <<>> \in [1..0 -> 1..AzureLength]
      OBVIOUS
  <2> QED BY <1>3, <2>1, AzureSame
<1>8. AzureWhole(<<>>)
  <2> DEFINE cut == [i \in 0..AzureLength |-> 0]
  <2>1. cut \in [0..AzureLength -> 0..AzureLength] /\ cut[0] = 0
      BY <1>3
  <2>2. \A i \in 1..AzureLength : i \in 0..AzureLength /\ i - 1 \in 0..AzureLength
      BY <1>3
  <2>3. \A i \in (0 + 1)..AzureLength : cut[i] = cut[i - 1]
      BY <2>2
  <2> HIDE DEF cut
  <2>4. DOMAIN <<>> = 1..0 /\ \A i \in 1..0 : FALSE
      BY <1>6
  <2>5. AzureTiled(<<>>, 0, cut)
      BY <2>1, <2>3, <2>4 DEF AzureTiled
  <2> QED BY <1>3, <2>1, <2>5 DEF AzureWhole
<1>9. ASSUME NEW c \in Calls PROVE call[c] = Idle /\ ~Running(c) /\ End(c) = 0 /\ AzureStands(c)
  <2>1. call[c] = Idle
      BY <1>2
  <2>2. ~Running(c) /\ End(c) = 0
      BY <1>5, <2>1 DEF Running, Settled, End
  <2> HIDE DEF Idle
  <2>3. AzureStands(c)
      BY <1>5, <2>1 DEF AzureStands, AzureKindOf, AzureStages, AzurePlans, AzureClaims, Sealed
  <2> QED BY <2>1, <2>2, <2>3
<1>10. AzureTypes
  <2>1. call \in [Calls -> AzureCalls]
      BY <1>2, <1>5
  <2>2. object \in [edition : Nat, publication : Calls \cup {None}, body : Azure!Bodies] \cup {None}
      BY <1>2, <1>7
  <2>3. staged \in [sentinel : BOOLEAN, blocks : AzureBlocks]
      BY <1>2, <1>6
  <2>4. \A c \in Calls : End(c) <= AzureLength
      BY <1>3, <1>9
  <2> QED BY <1>2, <1>4, <2>1, <2>2, <2>3, <2>4 DEF AzureTypes
<1>11. AzureHolds
    BY <1>2, <1>4, <1>8 DEF AzureHolds
<1>12. AzureAlone /\ AzureAll
    BY <1>5, <1>9 DEF AzureAlone, AzureAll
<1> QED BY <1>9, <1>10, <1>11, <1>12 DEF AzureBytes

-------------------------------------------------------------------------------
(* What that comes to                                                      *)

\* The first bytes of the first bytes.
LEMMA PrefixCut ==
    ASSUME NEW n \in Nat, NEW k \in 0..n
    PROVE  SubSeq(Prefix(n), 1, k) = Prefix(k)
<1>1. Prefix(n) \in Seq(Nat) /\ Len(Prefix(n)) = n
  <2>1. Prefix(n) \in [1..n -> Nat]
      BY DEF Prefix
  <2> QED BY <2>1
<1>2. SubSeq(Prefix(n), 1, k) = [i \in 1..k |-> Prefix(n)[i]]
    BY <1>1
<1>3. \A i \in 1..k : Prefix(n)[i] = i
    BY DEF Prefix
<1> QED BY <1>2, <1>3 DEF Prefix

\* What is whole holds what was acknowledged.
LEMMA AzureStandsBy ==
    ASSUME AzureBytes, store = "azure"
    PROVE  AcknowledgedBytesStand
<1> SUFFICES ASSUME InProgress, NEW c \in Answered("wrote") \cup Answered("state")
             PROVE  /\ Len(Content) >= call[c].told
                    /\ SubSeq(Content, 1, call[c].told) = Prefix(call[c].told)
    BY DEF AcknowledgedBytesStand, TellsOfBytes
<1>1. c \in Calls /\ call[c].pc \in {"wrote", "state"} /\ staged.sentinel
    BY DEF Answered, InProgress, Intact
<1>2. Content = AzureContent(staged.blocks)
    BY AzureJoins DEF Content
<1>3. AzureWhole(staged.blocks) /\ call[c] \in AzureCalls /\ call[c].told <= AzureExtent(staged.blocks)
    BY <1>1, AzureParts DEF AzureHolds, AzureClaims
<1>4. call[c].told \in Nat
    BY <1>3, AzureSame DEF AzureCalls
<1>5. /\ Content = Prefix(AzureExtent(staged.blocks)) /\ AzureExtent(staged.blocks) \in 0..AzureLength
      /\ Len(Content) = AzureExtent(staged.blocks)
    BY <1>2, <1>3, AzureWholeIs DEF AzureExtent
<1>6. AzureExtent(staged.blocks) \in Nat /\ call[c].told \in 0..AzureExtent(staged.blocks)
    BY <1>3, <1>4, <1>5, AzureSame
<1> QED BY <1>3, <1>5, <1>6, PrefixCut

\* What is published is what was planned.
LEMMA AzurePublishesThePlan ==
    ASSUME AzureBytes
    PROVE  PublishedIsThePlan
<1>1. AzureHolds /\ \A c \in Calls : AzureClaims(c)
    BY DEF AzureBytes, AzureStands
<1>2. ASSUME NEW body \in published PROVE body = Prefix(Len(body))
  <2>1. PICK n \in 0..AzureLength : body = Prefix(n)
      BY <1>1 DEF AzureHolds
  <2> QED BY <2>1, AzurePrefixes
<1>3. \A c \in Answered("wrote") : \A body \in published : call[c].told <= Len(body)
    BY <1>1 DEF Answered, AzureClaims
<1>4. /\ Answered("complete") # {} \/ (info # None /\ info.complete) => published # {}
      /\ \A c \in Answered("complete") : call[c].told > 0 => Prefix(call[c].told) \in published
    BY <1>1 DEF Answered, AzureClaims, AzureHolds
<1> QED BY <1>2, <1>3, <1>4 DEF PublishedIsThePlan

\* What the invariant says of the types is what the module says.
LEMMA AzureTypesOK ==
    ASSUME AzureBytes, store = "azure"
    PROVE  Inv
<1>1. AzureTypes /\ AzureHolds
    BY DEF AzureBytes
<1>2. AzureLength = LengthIn["azure"] /\ AzureLength \in Nat
    BY AzureSame DEF AzureLength
<1>3. AzureSeals \subseteq Azure!Seals
    BY <1>2 DEF AzureSeals, Azure!Seals, Azure!Ids
<1>4. AzureRecords \subseteq Azure!Records
    BY <1>2, <1>3 DEF AzureRecords, Azure!Records
<1>5. object \in Azure!Objects \cup {None}
    BY <1>1 DEF AzureTypes, Azure!Objects, Azure!Ids
<1>6. ASSUME NEW c \in Calls
      PROVE  /\ call[c].kind \in Azure!Kinds \cup {"none"}
             /\ Azure!End(c) \in 0..AzureLength /\ call[c].expected \in 0..AzureLength
             /\ call[c].told \in 0..AzureLength
             /\ call[c].plan \subseteq Azure!Indices /\ call[c].seal \in Azure!Seals \cup {None}
  <2>1. call[c] \in AzureCalls /\ End(c) \in 0..AzureLength
      BY AzureParts
  <2>2. /\ call[c].kind \in Kinds \cup {"none"} /\ call[c].expected \in 0..AzureLength
        /\ call[c].told \in 0..AzureLength /\ call[c].plan \in SUBSET Azure!Indices
        /\ call[c].seal \in AzureSeals \cup {None}
      BY <2>1 DEF AzureCalls
  <2> QED BY <1>3, <2>1, <2>2, AzureSame
<1>7. published \subseteq Azure!Bodies
    BY <1>1, AzurePrefixes DEF AzureHolds
<1>8. Azure!CloudTypeOK
    BY <1>1, <1>2, <1>5, <1>6, <1>7 DEF Azure!CloudTypeOK, AzureTypes
<1>9. /\ staged.sentinel \in BOOLEAN /\ DOMAIN staged.blocks \subseteq Azure!Indices
      /\ \A i \in DOMAIN staged.blocks : staged.blocks[i] \in Azure!Bodies
  <2>1. staged.sentinel \in BOOLEAN /\ staged.blocks \in AzureBlocks
      BY <1>1 DEF AzureTypes
  <2>2. PICK I \in SUBSET Azure!Indices : staged.blocks \in [I -> Azure!Bodies]
      BY <2>1 DEF AzureBlocks
  <2> QED BY <2>1, <2>2
<1>10. Azure!TypeOK
    BY <1>1, <1>4, <1>6, <1>8, <1>9 DEF Azure!TypeOK, AzureTypes
<1>11. NothingStranded
    BY DEF NothingStranded
<1> QED BY <1>10, <1>11 DEF Inv

(***************************************************************************)
(* The invariant of the azure store's bytes: the staged blocks lie end to  *)
(* end up to the offset the one append at work holds, what completions     *)
(* plan and publish is a prefix as long as every append was told, and the  *)
(* record bars whoever would write under that.                             *)
(***************************************************************************)
THEOREM AzureBytesHold ==
    ASSUME AzureApart
    PROVE  Spec => [](store = "azure" => AzureBytes)
<1>1. Init => (store = "azure" => AzureBytes)
    BY AzureBytesInit DEF Init
<1>2. (store = "azure" => AzureBytes) /\ [Next]_<<vars, store>> => (store = "azure" => AzureBytes)'
  <2> SUFFICES ASSUME store = "azure" => AzureBytes, [Next]_<<vars, store>>, store' = "azure"
               PROVE  AzureBytes'
      OBVIOUS
  <2>1. store' = store
      BY DEF Next
  <2>2. CASE Next
    <3>1. Azure!Next
        BY <2>1, <2>2 DEF Next
    <3> QED BY <2>1, <3>1, AzureBytesNext
  <2>3. CASE UNCHANGED <<vars, store>>
      BY <2>1, <2>3, AzureBytesStay
  <2> QED BY <2>2, <2>3
<1> QED BY <1>1, <1>2, PTL DEF Spec

(***************************************************************************)
(* What the azure store acknowledged stays while the upload goes on, where *)
(* appends and completions keep apart: whatever probes, cancels and the    *)
(* sweep do beside them, a holder that lost its lock, a crash at any       *)
(* request, an answer that was lost, another writer of the key.            *)
(***************************************************************************)
THEOREM AzureAcknowledgedBytesStand ==
    ASSUME AzureApart
    PROVE  Spec => [](store = "azure" => AcknowledgedBytesStand)
<1>1. (store = "azure" => AzureBytes) => (store = "azure" => AcknowledgedBytesStand)
    BY AzureStandsBy
<1> QED BY <1>1, AzureBytesHold, PTL

(***************************************************************************)
(* publishPlan commits the representation up to the length asked for, with *)
(* every byte an append was told of, and no completion is answered or      *)
(* recorded before.                                                        *)
(***************************************************************************)
THEOREM AzurePublishedIsThePlan ==
    ASSUME AzureApart
    PROVE  Spec => [](store = "azure" => PublishedIsThePlan)
<1>1. (store = "azure" => AzureBytes) => (store = "azure" => PublishedIsThePlan)
    BY AzurePublishesThePlan
<1> QED BY <1>1, AzureBytesHold, PTL

(***************************************************************************)
(* The record, the blocks and the calls of the azure store are as it       *)
(* writes them.                                                            *)
(***************************************************************************)
THEOREM AzureInv ==
    ASSUME AzureApart
    PROVE  Spec => [](store = "azure" => Inv)
<1>1. (store = "azure" => AzureBytes) => (store = "azure" => Inv)
    BY AzureTypesOK
<1> QED BY <1>1, AzureBytesHold, PTL

===============================================================================

----------------------------- MODULE FsUploadStore -----------------------------
(***************************************************************************)
(* One upload of fsUploadStore (src/fs.ts): a directory in which every     *)
(* fact is a file of its own, most of them created once, and the object at *)
(* the key it publishes to.  A step is one operation on the file system;   *)
(* between two of them other calls on the upload, the sweep, other writers *)
(* of the key, or a crash may come.                                        *)
(*                                                                         *)
(* The orchestrator's lock keeps calls apart, except that a holder that    *)
(* lost it may run on beside its successor: Overlaps says which kinds may. *)
(* fsync is part of the write it follows.  A directory that was renamed    *)
(* fails every path into it; an open data file does not notice.            *)
(***************************************************************************)
EXTENDS Naturals, Sequences, FiniteSets

CONSTANTS Calls,       \* calls of the store's methods
          Overlaps,    \* sets of kinds of which two calls may overlap
          None,        \* no record, no file, no object
          Stranger,    \* whoever else writes the key
          Hole,        \* a byte nobody wrote
          MaxLength,   \* bound: bytes of the upload
          MaxEditions, \* bound: how often a stranger writes the key
          Sweeps       \* bound: how often the sweep comes by

Kinds == {"append", "complete", "probe", "abort"}

ASSUME FsAssumption ==
    /\ Overlaps \subseteq SUBSET Kinds
    /\ MaxLength \in Nat /\ MaxEditions \in Nat /\ Sweeps \in Nat
    /\ None \notin Calls /\ Stranger \notin Calls /\ Hole \notin Calls

VARIABLES dir,       \* the upload's directory: in place, reaped or quarantined
          rec,       \* the records in it
          data,      \* the data file's bytes, each named by the append that wrote it
          named,     \* whether the data file still has its name
          staged,    \* the copy to be published
          displaced, \* the object moved aside
          object,    \* what the key names
          call,      \* call[c]: where a call stands, and its locals
          sweep,     \* where the sweep stands with this upload
          editions,  \* bound: foreign writes so far
          sweeps,    \* bound: sweeps so far
          latest,    \* history: the last foreign object nobody deleted or replaced
          published, \* history: the copies that have been at the key
          reaped     \* history: whether the sweep removed the upload

files == <<dir, rec, data, named, staged, displaced, object>>
others == <<sweep, editions, sweeps, latest, published, reaped>>
vars == <<files, call, others>>

\* A file's identity is the file: copies are told apart by the call that made
\* them, foreign objects by their edition.
Bytes == UNION {[1..n -> Calls \cup {Hole}] : n \in 0..MaxLength}
Copies == [by : Calls, edition : {0}, body : Bytes]
Foreign == [by : {Stranger}, edition : 0..MaxEditions, body : {<<>>}]
Edition(n) == [by |-> Stranger, edition |-> n, body |-> <<>>]
Seals == [length : 0..MaxLength, destination : Copies \cup Foreign \cup {None}]

ASSUME NoneAssumption == None \notin Copies \cup Foreign \cup Seals \cup Nat

\* Where a call waits; the names of the awaits are at their actions.
Awaits == {"draining", "fencing", "truncating", "noting",
           "lifting", "surveying", "sealing", "checking", "restaging", "staging", "copying",
           "measuring", "mislaid", "naming", "verifying", "displacing", "comparing",
           "restoring", "returned", "linking", "unstaging", "clearing", "recording",
           "settling", "dropping", "reclaiming"}

Idle == [kind |-> "none", pc |-> "idle", offset |-> 0, flushed |-> 0, ending |-> "kept",
         expected |-> 0, destination |-> None, seal |-> None, publication |-> None,
         told |-> 0]

TypeOK ==
    /\ dir \in {"live", "gone", "penned"}
    /\ rec \in [cancelled : BOOLEAN, invalidated : BOOLEAN, seal : Seals \cup {None},
                publication : Copies \cup {None}, completion : 0..MaxLength \cup {None}]
    /\ data \in Bytes
    /\ named \in BOOLEAN
    /\ staged \in Copies \cup {None}
    /\ {displaced, object} \subseteq Copies \cup Foreign \cup {None}
    /\ \A c \in Calls :
          /\ call[c].kind \in Kinds \cup {"none"}
          /\ call[c].pc \in Awaits \cup {"idle", "crashed", "wrote", "overrun",
                 "conflict", "not-found", "complete", "incomplete", "destination",
                 "mismatch", "failed", "discarded"}
          /\ call[c].offset + call[c].flushed \in 0..MaxLength
          /\ call[c].seal \in Seals \cup {None}
          /\ call[c].publication \in Copies \cup {None}
    /\ sweep \in {"away", "reap", "quarantine", "penned"}
    /\ latest \in Foreign \cup {None}
    /\ published \subseteq Copies

-------------------------------------------------------------------------------
(* Helpers *)

Running(c) == call[c].pc \in Awaits
MayBegin(c, kind) ==
    /\ call[c] = Idle
    /\ \A d \in Calls : Running(d) => {kind, call[d].kind} \in Overlaps

Goes(c, pc) == call' = [call EXCEPT ![c].pc = pc]
Begins(c, kind, pc, offset, expected) ==
    call' = [call EXCEPT ![c] = [Idle EXCEPT !.kind = kind, !.pc = pc, !.offset = offset,
                                             !.expected = expected, !.told = offset]]
Ends(c, kind, pc, offset, n) ==
    call' = [call EXCEPT ![c] = [Idle EXCEPT !.kind = kind, !.pc = pc,
                                             !.offset = offset, !.told = n]]
\* The length an answer carries is kept where the call changed or found what
\* is durable; a conflict's length is left out.
Answers(c, pc, n) == Ends(c, call[c].kind, pc, call[c].offset, n)
AnswersAtOnce(c, kind, pc, n) == Ends(c, kind, pc, 0, n)

\* readUploadRecords finds an upload: its directory is there, and no cancel.
Found == dir = "live" /\ ~rec.cancelled
Published == rec.completion # None
\* refuseSettled: a length that is final.
Settled == Published \/ rec.seal # None

\* What is named in the directory, for a path that leads there.
InDir(file) == IF dir = "live" THEN file ELSE None

\* Bytes written at a position, past a gap if the file has shrunk meanwhile,
\* and ftruncate, which also lengthens.
Written(bytes, at, byte) ==
    [i \in 1..(IF at + 1 > Len(bytes) THEN at + 1 ELSE Len(bytes)) |->
        IF i = at + 1 THEN byte ELSE IF i <= Len(bytes) THEN bytes[i] ELSE Hole]
Truncated(bytes, n) == [i \in 1..n |-> IF i <= Len(bytes) THEN bytes[i] ELSE Hole]

-------------------------------------------------------------------------------
(* createUpload, and the other writers of the key *)

Init ==
    /\ dir = "live"
    /\ rec = [cancelled |-> FALSE, invalidated |-> FALSE, seal |-> None,
              publication |-> None, completion |-> None]
    /\ data = <<>> /\ named = TRUE
    /\ staged = None /\ displaced = None
    /\ object \in {None, Edition(0)}
    /\ call = [c \in Calls |-> Idle]
    /\ sweep = "away" /\ editions = 0 /\ sweeps = 0
    /\ latest = object /\ published = {} /\ reaped = FALSE

StrangerWrites ==
    /\ editions < MaxEditions
    /\ editions' = editions + 1
    /\ object' = Edition(editions')
    /\ latest' = object'
    /\ UNCHANGED <<dir, rec, data, named, staged, displaced, call, sweep, sweeps, published, reaped>>

StrangerDeletes ==
    /\ object # None
    /\ editions < MaxEditions
    /\ editions' = editions + 1
    /\ object' = None
    /\ latest' = IF latest = object THEN None ELSE latest
    /\ UNCHANGED <<dir, rec, data, named, staged, displaced, call, sweep, sweeps, published, reaped>>

\* The process dies, or the call throws at an await (an aborted signal, an
\* error of the file system) with nothing to undo what it did.
Crash(c) ==
    /\ Running(c)
    /\ Ends(c, "none", "crashed", 0, 0)
    /\ UNCHANGED <<files, others>>

-------------------------------------------------------------------------------
(* appendChunk *)

\* Records, open and stat, up to the offset check.  Only the answer could
\* tell them apart: whatever lands between them, the fence reads again.
ClaimHolds(offset) == ~rec.invalidated /\ offset = Len(data)

AppendBegins(c, offset) ==
    /\ MayBegin(c, "append")
    /\ Found /\ ~Settled /\ named
    /\ ClaimHolds(offset)
    /\ Begins(c, "append", "draining", offset, 0)
    /\ UNCHANGED <<files, others>>

AppendRefused(c, offset) ==
    /\ MayBegin(c, "append")
    /\ \/ ~Found /\ AnswersAtOnce(c, "append", "not-found", 0)
       \/ Found /\ Settled /\ AnswersAtOnce(c, "append", "conflict", 0)
       \/ Found /\ ~Settled /\ ~named /\ AnswersAtOnce(c, "append", "not-found", 0)
       \/ /\ Found /\ ~Settled /\ named /\ ~ClaimHolds(offset)
          /\ AnswersAtOnce(c, "append", "conflict", 0)
    /\ UNCHANGED <<files, others>>

\* A chunk of one byte, written at its position through the open file.
ChunkArrives(c) ==
    LET at == call[c].offset + call[c].flushed IN
    /\ call[c].pc = "draining"
    /\ at < MaxLength
    /\ data' = Written(data, at, c)
    /\ call' = [call EXCEPT ![c].flushed = @ + 1]
    /\ UNCHANGED <<dir, rec, named, staged, displaced, object, others>>

\* The body ends, is cut off by a yield, reaches the request's ceiling, all of
\* which keep what landed, or overruns the representation.  A file that lost
\* its last name is the gone upload.
BodyEnds(c, ending) ==
    /\ call[c].pc = "draining"
    /\ call' = [call EXCEPT ![c] = [@ EXCEPT !.ending = ending,
                                             !.pc = IF named THEN "fencing" ELSE "not-found"]]
    /\ UNCHANGED <<files, others>>

\* FENCE, once the bytes are durable.  The slip checks before the write alone.
Unfenced(c) == FALSE
SealedMeanwhile(c) == Settled

\* Bytes this call wrote past the sealed length are taken back, none before
\* its own start.
Kept(c) == IF rec.seal.length > call[c].offset THEN rec.seal.length ELSE call[c].offset
End(c) == call[c].offset + call[c].flushed
TakesBack(c) == ~Published /\ Kept(c) < End(c)

Fence(c) ==
    /\ call[c].pc = "fencing"
    /\ \/ ~Found /\ Answers(c, "not-found", 0)
       \/ /\ Found /\ SealedMeanwhile(c)
          /\ IF TakesBack(c)
             THEN call' = [call EXCEPT ![c].pc = "truncating", ![c].told = Kept(c),
                                       ![c].seal = rec.seal]
             ELSE Answers(c, "conflict", 0)
       \/ Found /\ ~SealedMeanwhile(c) /\ rec.invalidated /\ Answers(c, "conflict", 0)
       \/ Found /\ ~SealedMeanwhile(c) /\ ~rec.invalidated /\ Goes(c, "noting")
    /\ UNCHANGED <<files, others>>

Truncate(c) ==
    /\ call[c].pc = "truncating"
    /\ data' = Truncated(data, call[c].told)
    /\ Answers(c, "conflict", 0)
    /\ UNCHANGED <<dir, rec, named, staged, displaced, object, others>>

\* The invalidation, the declared length and progress.json, created in a
\* directory that is still there, and the answer.
Note(c) ==
    /\ call[c].pc = "noting"
    /\ \/ dir # "live" /\ Answers(c, "not-found", 0) /\ UNCHANGED files
       \/ /\ dir = "live"
          /\ \/ /\ call[c].ending = "overrun"
                /\ rec' = [rec EXCEPT !.invalidated = TRUE]
                /\ Answers(c, "overrun", End(c))
             \/ /\ call[c].ending # "overrun"
                /\ Answers(c, "wrote", End(c))
                /\ UNCHANGED rec
          /\ UNCHANGED <<dir, data, named, staged, displaced, object>>
    /\ UNCHANGED others

-------------------------------------------------------------------------------
(* completeUpload *)

\* The records of the upload, and what they leave to do.
CompleteBegins(c, expected) ==
    /\ MayBegin(c, "complete")
    /\ \/ ~Found /\ AnswersAtOnce(c, "complete", "not-found", 0)
       \/ Found /\ Published /\ AnswersAtOnce(c, "complete", "complete", rec.completion)
       \/ Found /\ ~Published /\ rec.invalidated /\ AnswersAtOnce(c, "complete", "failed", 0)
       \/ /\ Found /\ ~Published /\ ~rec.invalidated
          /\ rec.seal # None /\ rec.seal.length # expected
          /\ \/ rec.publication # None /\ AnswersAtOnce(c, "complete", "conflict", 0)
             \/ rec.publication = None /\ Begins(c, "complete", "lifting", 0, expected)
       \/ /\ Found /\ ~Published /\ ~rec.invalidated
          /\ rec.seal # None => rec.seal.length = expected
          /\ call' = [call EXCEPT ![c] = [Idle EXCEPT
                !.kind = "complete", !.expected = expected,
                !.pc = IF rec.seal = None THEN "surveying" ELSE "checking",
                !.seal = rec.seal, !.publication = rec.publication]]
    /\ UNCHANGED <<files, others>>

\* liftSeal, to seal at another length.
LiftSeal == rec' = IF dir = "live" THEN [rec EXCEPT !.seal = None] ELSE rec
Lift(c) ==
    /\ call[c].pc = "lifting"
    /\ LiftSeal
    /\ Goes(c, "surveying")
    /\ UNCHANGED <<dir, data, named, staged, displaced, object, others>>

\* destinationAt
Survey(c) ==
    /\ call[c].pc = "surveying"
    /\ call' = [call EXCEPT ![c].pc = "sealing", ![c].destination = object]
    /\ UNCHANGED <<files, others>>

\* SEAL, created once; a concurrent one is adopted if it is the same plan.
SealCreated(c) ==
    LET seal == [length |-> call[c].expected, destination |-> call[c].destination] IN
    /\ call[c].pc = "sealing"
    /\ dir = "live" /\ rec.seal = None
    /\ rec' = [rec EXCEPT !.seal = seal]
    /\ call' = [call EXCEPT ![c].pc = "checking", ![c].seal = seal]
    /\ UNCHANGED <<dir, data, named, staged, displaced, object, others>>

SealExists(c) ==
    /\ call[c].pc = "sealing"
    /\ dir = "live" => rec.seal # None
    /\ IF ~Found THEN Answers(c, "not-found", 0)
       ELSE IF rec.seal.length # call[c].expected THEN Answers(c, "conflict", 0)
       ELSE call' = [call EXCEPT ![c].pc = "checking", ![c].seal = rec.seal,
                                 ![c].publication = rec.publication]
    /\ UNCHANGED <<files, others>>

\* An earlier attempt's publish is at the key: only its record is missing.
AtKey(copy) == copy # None /\ object = copy

CheckKey(c) ==
    /\ call[c].pc = "checking"
    /\ Goes(c, IF AtKey(call[c].publication) THEN "recording"
               ELSE IF call[c].publication = None THEN "staging" ELSE "restaging")
    /\ UNCHANGED <<files, others>>

\* A copy already staged must be the one recorded.
CheckStaged(c) ==
    /\ call[c].pc = "restaging"
    /\ IF InDir(staged) = call[c].publication
       THEN Goes(c, "verifying") ELSE Answers(c, "destination", 0)
    /\ UNCHANGED <<files, others>>

\* SNAPSHOT (stagePublication): clear what an earlier attempt left, copy the
\* data file, measure the copy, record its identity.
ClearStage(c) ==
    /\ call[c].pc = "staging"
    /\ staged' = IF dir = "live" THEN None ELSE staged
    /\ Goes(c, "copying")
    /\ UNCHANGED <<dir, rec, data, named, displaced, object, others>>

Copy(c) ==
    /\ call[c].pc = "copying"
    /\ \/ ~(dir = "live" /\ named) /\ Answers(c, "not-found", 0) /\ UNCHANGED staged
       \/ dir = "live" /\ named /\ staged # None /\ Answers(c, "failed", 0) /\ UNCHANGED staged
       \/ /\ dir = "live" /\ named /\ staged = None
          /\ staged' = [by |-> c, edition |-> 0, body |-> data]
          /\ Goes(c, "measuring")
    /\ UNCHANGED <<dir, rec, data, named, displaced, object, others>>

\* A copy of another length than the sealed one gives up the plan.
AnyLength(c) == TRUE
AsSealed(c) == Len(staged.body) = call[c].seal.length

Measure(c) ==
    /\ call[c].pc = "measuring"
    /\ \/ InDir(staged) = None /\ Answers(c, "failed", 0) /\ UNCHANGED staged
       \/ /\ InDir(staged) # None /\ AsSealed(c)
          /\ call' = [call EXCEPT ![c].pc = "naming", ![c].publication = staged]
          /\ UNCHANGED staged
       \/ /\ InDir(staged) # None /\ ~AsSealed(c)
          /\ staged' = None
          /\ Goes(c, "mislaid")
    /\ UNCHANGED <<dir, rec, data, named, displaced, object, others>>

Mislaid(c) ==
    /\ call[c].pc = "mislaid"
    /\ LiftSeal
    /\ Goes(c, "conflict")
    /\ UNCHANGED <<dir, data, named, staged, displaced, object, others>>

\* publication.json, before anything is linked.  The slip leaves it to later.
NotYet(copy) == rec
Recorded(copy) == [rec EXCEPT !.publication = copy]

Name(c) ==
    /\ call[c].pc = "naming"
    /\ \/ dir # "live" /\ Answers(c, "not-found", 0) /\ UNCHANGED rec
       \/ /\ dir = "live" /\ rec.publication # None
          /\ Answers(c, "conflict", 0) /\ UNCHANGED rec
       \/ /\ dir = "live" /\ rec.publication = None
          /\ rec' = Recorded(call[c].publication)
          /\ Goes(c, "verifying")
    /\ UNCHANGED <<dir, data, named, staged, displaced, object, others>>

\* verifyDigests: a mismatch publishes nothing.
Verify(c) ==
    /\ call[c].pc = "verifying"
    /\ \/ Answers(c, "mismatch", 0)
       \/ Goes(c, IF call[c].seal.destination = None THEN "linking" ELSE "displacing")
    /\ UNCHANGED <<files, others>>

\* PUBLISH (publishStaged) over exactly the sealed destination.  Moving the
\* object aside overwrites what was there, and does nothing if that already
\* is the same file.
Displace(c) ==
    /\ call[c].pc = "displacing"
    /\ IF dir = "live" /\ object # None /\ object # displaced
       THEN displaced' = object /\ object' = None
       ELSE UNCHANGED <<displaced, object>>
    /\ Goes(c, "comparing")
    /\ UNCHANGED <<dir, rec, data, named, staged, others>>

\* What was moved aside is proven to be the sealed object.
Unproven(c) == TRUE
Proven(c) == InDir(displaced) = call[c].seal.destination
Compare(c) ==
    /\ call[c].pc = "comparing"
    /\ Goes(c, IF Proven(c) THEN "linking" ELSE "restoring")
    /\ UNCHANGED <<files, others>>

\* restoreDisplaced, here and in a cancel: link it back unless the key is
\* taken, then unlink it.
LinksBack == InDir(displaced) # None /\ object = None
Resumes(c) == Goes(c, IF call[c].kind = "abort" THEN "reclaiming" ELSE "destination")
Restore(c) ==
    /\ call[c].pc = "restoring"
    /\ IF LinksBack THEN object' = displaced /\ Goes(c, "returned")
       ELSE Resumes(c) /\ UNCHANGED object
    /\ UNCHANGED <<dir, rec, data, named, staged, displaced, others>>
Returned(c) ==
    /\ call[c].pc = "returned"
    /\ displaced' = IF dir = "live" THEN None ELSE displaced
    /\ Resumes(c)
    /\ UNCHANGED <<dir, rec, data, named, staged, object, others>>

\* link refuses an existing name: this same copy there is a peer's publish.
Link(c) ==
    /\ call[c].pc = "linking"
    /\ \/ /\ InDir(staged) # None /\ object = None
          /\ object' = staged
          /\ published' = published \cup {staged}
          /\ latest' = IF latest = call[c].seal.destination THEN None ELSE latest
          /\ Goes(c, "unstaging")
       \/ /\ InDir(staged) # None /\ object # None
          /\ IF object = call[c].publication
             THEN Goes(c, "unstaging") ELSE Answers(c, "destination", 0)
          /\ UNCHANGED <<object, latest, published>>
       \/ /\ InDir(staged) = None /\ Answers(c, "failed", 0)
          /\ UNCHANGED <<object, latest, published>>
    /\ UNCHANGED <<dir, rec, data, named, staged, displaced, sweep, editions, sweeps, reaped>>

Unstage(c) ==
    /\ call[c].pc = "unstaging"
    /\ staged' = IF dir = "live" THEN None ELSE staged
    /\ Goes(c, "clearing")
    /\ UNCHANGED <<dir, rec, data, named, displaced, object, others>>
Clear(c) ==
    /\ call[c].pc = "clearing"
    /\ displaced' = IF dir = "live" THEN None ELSE displaced
    /\ Goes(c, "recording")
    /\ UNCHANGED <<dir, rec, data, named, staged, object, others>>

\* RECORD (recordCompletion): the key names the copy, the record is created
\* once, and nobody needs the data file any more.
Record(c) ==
    /\ call[c].pc = "recording"
    /\ IF AtKey(call[c].publication) THEN Goes(c, "settling") ELSE Answers(c, "destination", 0)
    /\ UNCHANGED <<files, others>>
Settle(c) ==
    /\ call[c].pc = "settling"
    /\ \/ dir # "live" /\ Answers(c, "not-found", 0) /\ UNCHANGED rec
       \/ dir = "live" /\ Published /\ Answers(c, "complete", rec.completion) /\ UNCHANGED rec
       \/ /\ dir = "live" /\ ~Published
          /\ rec' = [rec EXCEPT !.completion = call[c].seal.length]
          /\ Goes(c, "dropping")
    /\ UNCHANGED <<dir, data, named, staged, displaced, object, others>>
DropData(c) ==
    /\ call[c].pc = "dropping"
    /\ named' = IF dir = "live" THEN FALSE ELSE named
    /\ Answers(c, "complete", call[c].seal.length)
    /\ UNCHANGED <<dir, rec, data, staged, displaced, object, others>>

-------------------------------------------------------------------------------
(* getUploadState under the lock, which may finish a record; abortUpload *)

\* A plan whose copy is at the key is complete, and the read records it.
ProbeBegins(c) ==
    /\ MayBegin(c, "probe")
    /\ \/ ~Found /\ AnswersAtOnce(c, "probe", "not-found", 0)
       \/ Found /\ Published /\ AnswersAtOnce(c, "probe", "complete", rec.completion)
       \/ /\ Found /\ ~Published /\ rec.seal # None /\ rec.publication # None
          /\ \/ /\ AtKey(rec.publication)
                /\ call' = [call EXCEPT ![c] = [Idle EXCEPT
                      !.kind = "probe", !.pc = "recording",
                      !.seal = rec.seal, !.publication = rec.publication]]
             \/ /\ ~AtKey(rec.publication)
                /\ AnswersAtOnce(c, "probe", "incomplete", rec.seal.length)
       \/ /\ Found /\ ~Published /\ (rec.seal = None \/ rec.publication = None)
          /\ AnswersAtOnce(c, "probe", "incomplete", Len(data))
    /\ UNCHANGED <<files, others>>

\* The cancellation record comes first: it stands if the rest is cut short.
AbortBegins(c) ==
    /\ MayBegin(c, "abort")
    /\ IF dir = "live"
       THEN rec' = [rec EXCEPT !.cancelled = TRUE] /\ Begins(c, "abort", "restoring", 0, 0)
       ELSE AnswersAtOnce(c, "abort", "discarded", 0) /\ UNCHANGED rec
    /\ UNCHANGED <<dir, data, named, staged, displaced, object, others>>

\* reclaim: out of its name first, so that what goes on in it afterwards is
\* nobody's business.
Removed == dir' = "gone" /\ named' = FALSE /\ staged' = None /\ displaced' = None

Reclaim(c) ==
    /\ call[c].pc = "reclaiming"
    /\ IF dir = "live" THEN Removed ELSE UNCHANGED <<dir, named, staged, displaced>>
    /\ Goes(c, "discarded")
    /\ UNCHANGED <<rec, data, object, others>>

-------------------------------------------------------------------------------
(* sweepExpired, which holds no lock: a verdict, and later its execution.  *)
(* Any upload may be past the cutoff.                                      *)

Verdict == IF ~rec.cancelled /\ rec.seal # None /\ ~Published THEN "quarantine" ELSE "reap"

SweepJudges ==
    /\ sweep = "away" /\ sweeps < Sweeps /\ dir = "live"
    /\ sweep' = Verdict
    /\ sweeps' = sweeps + 1
    /\ UNCHANGED <<files, call, editions, latest, published, reaped>>

SweepReaps ==
    /\ sweep = "reap"
    /\ sweep' = "away"
    /\ IF dir = "live" THEN Removed /\ reaped' = TRUE
       ELSE UNCHANGED <<dir, named, staged, displaced, reaped>>
    /\ UNCHANGED <<rec, data, object, call, editions, sweeps, latest, published>>

\* The rename takes every path a running completion holds.
SweepPens ==
    /\ sweep = "quarantine"
    /\ IF dir = "live" THEN dir' = "penned" /\ sweep' = "penned"
       ELSE sweep' = "away" /\ UNCHANGED dir
    /\ UNCHANGED <<rec, data, named, staged, displaced, object, call,
                   editions, sweeps, latest, published, reaped>>

\* What was moved aside goes back to an empty key; then the bytes go.
SweepClears ==
    /\ sweep = "penned"
    /\ sweep' = "away"
    /\ object' = IF object = None THEN displaced ELSE object
    /\ named' = FALSE /\ staged' = None /\ displaced' = None
    /\ UNCHANGED <<dir, rec, data, call, editions, sweeps, latest, published, reaped>>

-------------------------------------------------------------------------------

Appending(c) ==
    \/ \E n \in 0..MaxLength : AppendBegins(c, n) \/ AppendRefused(c, n)
    \/ ChunkArrives(c) \/ BodyEnds(c, "kept") \/ BodyEnds(c, "overrun")
    \/ Fence(c) \/ Truncate(c) \/ Note(c)

Sealing(c) ==
    \/ \E n \in 0..MaxLength : CompleteBegins(c, n)
    \/ Lift(c) \/ Survey(c) \/ SealCreated(c) \/ SealExists(c) \/ CheckKey(c)

Staging(c) ==
    \/ CheckStaged(c) \/ ClearStage(c) \/ Copy(c) \/ Measure(c) \/ Mislaid(c)
    \/ Name(c) \/ Verify(c)

Publishing(c) ==
    \/ Displace(c) \/ Compare(c) \/ Restore(c) \/ Returned(c) \/ Link(c)
    \/ Unstage(c) \/ Clear(c) \/ Record(c) \/ Settle(c) \/ DropData(c)

Discarding(c) == AbortBegins(c) \/ Reclaim(c)

Sweeping == SweepJudges \/ SweepReaps \/ SweepPens \/ SweepClears

Next ==
    \/ StrangerWrites \/ StrangerDeletes \/ Sweeping
    \/ \E c \in Calls :
          \/ Appending(c) \/ Sealing(c) \/ Staging(c) \/ Publishing(c)
          \/ ProbeBegins(c) \/ Discarding(c) \/ Crash(c)

Spec == Init /\ [][Next]_vars

-------------------------------------------------------------------------------
(* Properties *)

\* A record implies the one before it, and a copy at the key is one a call
\* linked there.
RecordsInOrder ==
    /\ rec.completion # None => rec.seal # None /\ rec.publication # None
    /\ rec.completion # None => rec.seal.length = rec.completion
    /\ rec.publication # None => rec.publication.by \in Calls
    /\ object # None /\ object.by \in Calls => object \in published

Inv == TypeOK /\ RecordsInOrder

\* Where the bytes an append acknowledged may be found: in the data file
\* while it is there, and else in the copy that was published.
Holds(bytes, c) ==
    /\ Len(bytes) >= call[c].told
    /\ \A i \in (call[c].offset + 1)..call[c].told : bytes[i] = c

\* What an append has acknowledged is never lost or overwritten, not by a
\* completion that sealed meanwhile, a peer's truncation or a repair: it is in
\* the data file, and in what the completion published (src/fs.ts:1046, FENCE:
\* an append finished before a completion sealed, and its bytes are in that
\* completion's snapshot, or it acknowledges nothing).
AcknowledgedBytesStand ==
    \A c \in Calls :
        call[c].kind = "append" /\ call[c].pc = "wrote" =>
            /\ dir = "live" => Holds(data, c)
            /\ rec.publication # None => Holds(rec.publication.body, c)

\* Whatever copy of this upload is at the key, the upload's records name it:
\* a crash after the link leaves an upload that a retry or a probe can finish,
\* and what is answered as complete was published at the sealed length.
PublishedIsThePlan ==
    /\ \A copy \in published :
          /\ dir # "gone" => rec.publication = copy
          /\ rec.seal # None => Len(copy.body) = rec.seal.length
    /\ \A c \in Calls : call[c].pc = "complete" =>
          rec.publication \in published /\ call[c].told = Len(rec.publication.body)

\* The object another writer left at the key survives until the upload's own
\* copy replaces the very object the seal recorded: it is at the key, or moved
\* aside in a directory that a retry, a cancel or the quarantine still puts it
\* back from (src/fs.ts:809, restoreDisplacedIn).  An upload the sweep reaped is
\* excepted: see SealedIsNotRemoved.
ObjectSurvives ==
    \/ reaped
    \/ latest \in {None, object}
    \/ latest = displaced /\ (dir = "live" \/ sweep = "penned")

\* "A sealed upload that never recorded its completion is quarantined, not
\* removed" (src/fs.ts:1207).
SealedIsNotRemoved ==
    [][~reaped /\ reaped' /\ ~rec.cancelled => rec.seal = None \/ Published]_vars

===============================================================================

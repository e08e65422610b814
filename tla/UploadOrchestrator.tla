-------------------------- MODULE UploadOrchestrator --------------------------
(***************************************************************************)
(* createUploadOrchestrator (src/upload-orchestrator.ts) over the locker   *)
(* and the store it defaults to in one process: memoryUploadLocker         *)
(* (UploadLocker) and memoryUploadStore (MemoryUploadStore), with the      *)
(* verdicts of the engine (UploadEngine).                                  *)
(*                                                                         *)
(* Any number of requests name one upload.  Each takes the lock, reads the *)
(* state under it, acts on the engine's verdict, and releases; each await  *)
(* is a point where other requests, a preemption, a departing client, the  *)
(* sweep and other writers of the destination may come between.  A request *)
(* handles its answer to its caller only after its lock is released.       *)
(***************************************************************************)
EXTENDS UploadRequest, Sequences

CONSTANTS Requests,    \* requests, each sent once
          Wanted,      \* Wanted[r]: what the request r may be
          Upload,      \* the one upload's token
          Key,         \* and its destination
          Policy,      \* the surface's policy
          Nobody,      \* no lock holder
          Leaving,     \* bound: the requests whose client may leave early
          Stranger,    \* whoever else writes the objects map
          MaxEditions, \* bound: how often strangers write it
          MaxTime,     \* bound of the clock
          Deadline     \* the upload's expiry, or Unset

ASSUME OrchestratorAssumption ==
    /\ Policy \in Policies /\ ValidPolicy(Policy)
    /\ MaxTime \in Nat /\ MaxEditions \in Nat /\ Deadline \in Optional
    /\ Stranger # Upload /\ Unset # Upload /\ Unset \notin Requests

\* What a request asks for, and the body its client has: none, or so many bytes.
Wants ==
    [op : {"create", "append", "probe", "cancel"}, complete : {"yes", "no", "infer"},
     offset : Nat, contentLength : Optional, declaredLength : Optional, body : BOOLEAN,
     sends : Nat, corrupt : BOOLEAN]

ASSUME WantedAssumption ==
    \A r \in Requests :
        Wanted[r] \subseteq Wants /\ \A w \in Wanted[r] : ~w.body => w.sends = 0

VARIABLES
    \* the locker's
    holders, aborted, timers, pc, on, elders,
    \* the store's
    minted, stored, record, objects, call, editions, sealedOver,
    \* the orchestrator's
    wants,       \* wants[r]: the request itself
    stage,       \* stage[r]: where its handling is, see Stages
    verdict,     \* verdict[r]: the engine's verdict it acts on
    durable,     \* durable[r]: the length it believes durable
    outcome,     \* outcome[r]: what it will answer, or has answered
    graced,      \* requests whose client left longer ago than the grace window
    located,     \* whether onAllocated has given the location out
    delivered,   \* whether deliveredCompletions holds the token
    reported,    \* history: whether the completion hook ever resolved
    now          \* the clock

lockerVars == <<holders, aborted, timers, pc, on, elders>>
storeVars  == <<minted, stored, record, objects, call, editions, sealedOver>>
clientVars == <<wants, graced, now>>
ownVars    == <<stage, verdict, durable, outcome, located, delivered, reported>>
vars       == <<lockerVars, storeVars, clientVars, ownVars>>

\* What the store sees of a request's signals: the write yields to the lock's
\* signal and to the graced one (linkAbort in streamAppend).
\* The slip links the client's alone.
YieldsToClient == graced
yielding == {r \in Requests : aborted[r]} \cup graced

Locker == INSTANCE UploadLocker WITH
    Tokens <- {Upload}, Attempts <- Requests, NoHolder <- Nobody

Store == INSTANCE MemoryUploadStore WITH
    Uploads <- {Upload}, Keys <- {Key}, KeyOf <- [u \in {Upload} |-> Key],
    Calls <- Requests

ASSUME NobodyAssumption == Nobody \notin Requests \cup Locker!Holder

Stages == {"unsent", "allocated", "locking", "discarding", "peeking", "writing",
           "rereading", "completing", "reporting", "releasing", "answered"}

Outcomes ==
    {"none", "created", "appended", "probed", "cancelled", "already-complete", "contended",
     "not-found", "gone", "offset-mismatch", "length-inconsistent", "limit-violation",
     "digest-mismatch", "destination-conflict", "store-error", "raised"}
Outcome(kind, offset, complete) == [kind |-> kind, offset |-> offset, complete |-> complete]
NoOutcome == Outcome("none", 0, FALSE)
NoVerdict == [kind |-> "none"]

TypeOK ==
    /\ wants \in [Requests -> UNION {Wanted[r] : r \in Requests}]
    /\ stage \in [Requests -> Stages]
    /\ durable \in [Requests -> Nat]
    /\ outcome \in [Requests -> [kind : Outcomes, offset : Nat, complete : BOOLEAN]]
    /\ graced \subseteq Requests
    /\ located \in BOOLEAN /\ delivered \in BOOLEAN /\ reported \in BOOLEAN
    /\ now \in 0..MaxTime
    /\ Locker!TypeOK
    /\ Store!TypeOK

\* getUploadState, as the engine reads it.
State ==
    [offset |-> record[Upload].size, length |-> record[Upload].length,
     status |-> IF record[Upload].isInvalidated THEN "invalidated"
                ELSE IF record[Upload].isComplete THEN "complete" ELSE "incomplete",
     createdAt |-> 0, expiresAt |-> Deadline]
Found == Upload \in stored

\* The steps of a request are named by where it goes next.
Goes(r, to) == stage' = [stage EXCEPT ![r] = to]
Answers(r, kind, offset, complete) ==
    outcome' = [outcome EXCEPT ![r] = Outcome(kind, offset, complete)]
Holding(r) == pc[r] = "holding"

-------------------------------------------------------------------------------
Init ==
    /\ wants \in {w \in [Requests -> UNION {Wanted[r] : r \in Requests}] :
                     \A r \in Requests : w[r] \in Wanted[r]}
    /\ stage = [r \in Requests |-> "unsent"]
    /\ verdict = [r \in Requests |-> NoVerdict]
    /\ durable = [r \in Requests |-> 0]
    /\ outcome = [r \in Requests |-> NoOutcome]
    /\ graced = {}
    /\ Locker!Init
    /\ Store!Init
    /\ located = FALSE
    /\ delivered = FALSE
    /\ reported = FALSE
    /\ now = 0

-------------------------------------------------------------------------------
(* Taking the lock *)

\* A creation: the engine's verdict first, then the allocation, then the lock.
RefuseCreation(r) ==
    LET v == EvaluateUploadCreation(CreateIntent(wants[r]), Policy) IN
    /\ stage[r] = "unsent" /\ wants[r].op = "create"
    /\ v.kind # "create-accepted"
    /\ Answers(r, v.kind, 0, FALSE)
    /\ Goes(r, "answered")
    /\ UNCHANGED <<lockerVars, storeVars, clientVars, verdict, durable, located, delivered, reported>>

Allocate(r) ==
    LET v == EvaluateUploadCreation(CreateIntent(wants[r]), Policy) IN
    /\ stage[r] = "unsent" /\ wants[r].op = "create" /\ now = 0
    /\ v.kind = "create-accepted"
    /\ Store!CreateUpload(Upload, v.declaredLength)
    /\ verdict' = [verdict EXCEPT ![r] = v]
    /\ Goes(r, "allocated")
    /\ UNCHANGED <<lockerVars, clientVars, durable, outcome, located, delivered, reported>>

\* Any other request comes once onAllocated has given the location out.
Acquire(r) ==
    /\ \/ stage[r] = "allocated"
       \/ stage[r] = "unsent" /\ wants[r].op # "create" /\ located
    /\ Locker!AcquireFree(r, Upload) \/ Locker!AcquireQueued(r, Upload)
    /\ Goes(r, "locking")
    /\ UNCHANGED <<storeVars, clientVars, verdict, durable, outcome, located, delivered, reported>>

\* UploadLockTimeoutError.
LockTimesOut(r) ==
    /\ stage[r] = "locking"
    /\ Locker!Timeout(r)
    /\ Answers(r, "contended", 0, FALSE)
    /\ Goes(r, "answered")
    /\ UNCHANGED <<storeVars, clientVars, verdict, durable, located, delivered, reported>>

\* withLock's finally; the answer goes out behind it.
Release(r) ==
    /\ stage[r] = "releasing"
    /\ Locker!ReleaseLast(r) \/ Locker!ReleaseHandOver(r)
    /\ Goes(r, "answered")
    /\ UNCHANGED <<storeVars, clientVars, verdict, durable, outcome, located, delivered, reported>>

-------------------------------------------------------------------------------
(* What a write, or none, leads to *)

\* The tail of create and append under the verdict v, once the durable length is
\* known.
Concludes(r, v, offset, interrupted) ==
    LET w == wants[r]
        kind == IF w.op = "create" THEN "created" ELSE "appended"
    IN
    /\ durable' = [durable EXCEPT ![r] = offset]
    /\ IF StatedShort(w, interrupted, v.completesAt, offset)
       THEN Goes(r, "releasing") /\ Answers(r, "length-inconsistent", offset, FALSE)
       ELSE IF ~CompletionDue(v, interrupted, offset)
       THEN Goes(r, "releasing") /\ Answers(r, kind, offset, FALSE)
       ELSE IF BelowMinSize(Policy, offset)
       THEN Goes(r, "releasing") /\ Answers(r, "limit-violation", offset, FALSE)
       ELSE Goes(r, "completing") /\ UNCHANGED outcome

Ends(r, kind, offset) ==
    Goes(r, "releasing") /\ Answers(r, kind, offset, FALSE) /\ UNCHANGED durable

\* The creation's first turn under its lock.
BeginCreation(r) ==
    /\ stage[r] = "locking" /\ wants[r].op = "create" /\ Holding(r)
    /\ located' = TRUE
    /\ IF wants[r].body
       THEN Goes(r, "writing") /\ UNCHANGED <<durable, outcome>>
       ELSE Concludes(r, verdict[r], 0, FALSE)
    /\ UNCHANGED <<lockerVars, storeVars, clientVars, verdict, delivered, reported>>

-------------------------------------------------------------------------------
(* Reading the state under the lock, and the engine's verdict on it *)

\* Whether a repeat of a completed request still has to show that it carries
\* no byte: its size was not declared.
MustPeek(w) == w.body /\ w.contentLength = Unset

\* Completed uploads are reported again before they are answered for, by
\* probes and by repeats alike; the slip answers at once.
AnsweredAtOnce(r, kind, s) ==
    Goes(r, "releasing") /\ Answers(r, kind, s.offset, TRUE)
ReportsFirst(r, kind, s) ==
    Goes(r, "reporting") /\ Answers(r, kind, s.offset, TRUE)

ActOn(r, v, s) ==
    LET w == wants[r] IN
    CASE v.kind = "gone" -> Goes(r, "discarding") /\ Answers(r, "gone", 0, FALSE)
                            /\ UNCHANGED durable
      [] v.kind = "probe-result" ->
            /\ IF v.complete THEN ReportsFirst(r, "probed", s)
               ELSE Goes(r, "releasing") /\ Answers(r, "probed", s.offset, FALSE)
            /\ UNCHANGED durable
      [] v.kind = "already-complete" ->
            /\ IF MustPeek(w)
               THEN Goes(r, "peeking") /\ Answers(r, "already-complete", s.offset, TRUE)
               ELSE ReportsFirst(r, "already-complete", s)
            /\ UNCHANGED durable
      [] v.kind = "append-allowed" ->
            IF Writes(w, v) THEN Goes(r, "writing") /\ UNCHANGED <<outcome, durable>>
            ELSE Concludes(r, v, s.offset, FALSE)
      [] OTHER -> Ends(r, v.kind, s.offset)

Intent(r) ==
    IF wants[r].op = "probe" THEN [kind |-> "probe"] ELSE AppendIntent(wants[r], State)

\* A departed client's signal fails the read.  A cancel acts whatever it reads.
Read(r) ==
    LET v == EvaluateUploadIntent(Intent(r), State, Policy, now) IN
    /\ stage[r] = "locking" /\ wants[r].op # "create" /\ Holding(r)
    /\ IF r \in graced THEN Ends(r, "store-error", 0) /\ UNCHANGED verdict
       ELSE IF ~Found THEN Ends(r, "not-found", 0) /\ UNCHANGED verdict
       ELSE IF wants[r].op = "cancel"
       THEN /\ Goes(r, "discarding") /\ Answers(r, "cancelled", 0, FALSE)
            /\ UNCHANGED <<durable, verdict>>
       ELSE /\ verdict' = [verdict EXCEPT ![r] = v]
            /\ ActOn(r, v, State)
    /\ UNCHANGED <<lockerVars, storeVars, clientVars, located, delivered, reported>>

\* Whether a departed client's signal fails the abort: discardResource is
\* unsignalled, the cancel's own abort is not.  The slip signals both.
DiscardSignalled(r) == r \in graced
DiscardFails(r) == wants[r].op = "cancel" /\ r \in graced

\* The answer is decided before a discardResource, whether it fails or not.
Discard(r) ==
    /\ stage[r] = "discarding"
    /\ IF DiscardFails(r) THEN UNCHANGED storeVars ELSE Store!AbortUpload(Upload)
    /\ IF DiscardFails(r) /\ wants[r].op = "cancel"
       THEN Answers(r, "store-error", 0, FALSE) ELSE UNCHANGED outcome
    /\ Goes(r, "releasing")
    /\ UNCHANGED <<lockerVars, clientVars, verdict, durable, located, delivered, reported>>

\* carriesContent: a byte found refuses the repeat; an end, a torn body or a
\* preemption before the first byte answers it.
PeekFindsContent(r) ==
    /\ stage[r] = "peeking" /\ wants[r].sends > 0
    /\ Ends(r, "length-inconsistent", 0)
    /\ UNCHANGED <<lockerVars, storeVars, clientVars, verdict, located, delivered, reported>>

PeekFindsNothing(r) ==
    /\ stage[r] = "peeking"
    /\ ReportsFirst(r, "already-complete", State)
    /\ UNCHANGED <<lockerVars, storeVars, clientVars, verdict, durable, located, delivered, reported>>

-------------------------------------------------------------------------------
(* streamAppend *)

At(r) == IF wants[r].op = "create" THEN 0 ELSE wants[r].offset

StartWrite(r) ==
    LET v == verdict[r]
        length == IF wants[r].op = "create" THEN Unset ELSE v.declaredLength
    IN
    /\ stage[r] = "writing"
    /\ \/ Store!AppendRefused(r, Upload, At(r))
       \/ /\ wants[r].body
          /\ Store!AppendBegins(r, Upload, At(r), v.bound.maxBytes, v.bound.maxBytesFatal,
                                length)
       \/ ~wants[r].body /\ Store!AppendBuffer(r, Upload, At(r), 0, length)
    /\ UNCHANGED <<lockerVars, clientVars, ownVars>>

\* What the connection delivers: the body the client has, or a torn part of
\* it.  yieldableBody makes the body error, and never end, once asked to yield.
BodyArrives(r) ==
    /\ call[r].flushed < wants[r].sends
    /\ Store!ChunkArrives(r, 1)
    /\ UNCHANGED <<lockerVars, clientVars, ownVars>>

BodyEnds(r) ==
    /\ call[r].flushed = wants[r].sends
    /\ Store!BodyEnds(r)
    /\ UNCHANGED <<lockerVars, clientVars, ownVars>>

BodyTorn(r) ==
    /\ Store!BodyTorn(r)
    /\ UNCHANGED <<lockerVars, clientVars, ownVars>>

\* representationBoundOutcome: which bound a body ran past.
PastBound(r) ==
    Ends(r, IF verdict[r].bound.fatalReason = "size" THEN "limit-violation"
            ELSE "length-inconsistent", 0)

\* The store's answer; appendFailure maps its errors.
Written(r) ==
    LET a == call[r].answer IN
    /\ stage[r] = "writing"
    /\ Store!Collect(r)
    /\ CASE a.kind = "wrote" /\ a.interrupted ->
              Goes(r, "rereading") /\ UNCHANGED <<durable, outcome>>
         [] a.kind = "wrote" /\ ~a.interrupted ->
              Concludes(r, verdict[r], At(r) + a.bytes, FALSE)
         [] a.kind = "overrun" -> PastBound(r)
         [] a.kind = "bound" /\ verdict[r].bound.fatalReason # Unset -> PastBound(r)
         [] a.kind = "bound" /\ verdict[r].bound.fatalReason = Unset ->
              Ends(r, "limit-violation", a.bytes)
         [] a.kind = "conflict" -> Ends(r, "offset-mismatch", a.bytes)
         [] OTHER -> Ends(r, "not-found", 0)
    /\ UNCHANGED <<lockerVars, clientVars, verdict, located, delivered, reported>>

\* An interruption re-reads what became durable; the slip takes the write's
\* start for it.
RereadsNothing(r) == At(r)
Reconciled(r) == State.offset

Reread(r) ==
    /\ stage[r] = "rereading"
    /\ IF Found THEN Concludes(r, verdict[r], Reconciled(r), TRUE)
       ELSE Ends(r, "not-found", 0)
    /\ UNCHANGED <<lockerVars, storeVars, clientVars, verdict, located, delivered, reported>>

-------------------------------------------------------------------------------
(* publish and reportComplete *)

StartCompletion(r) ==
    /\ stage[r] = "completing"
    /\ IF r \in graced
       THEN call[r].pc = "idle" /\ Ends(r, "store-error", 0) /\ UNCHANGED storeVars
       ELSE /\ \/ Store!CompleteRefused(r, Upload, durable[r])
               \/ Store!CompleteSeals(r, Upload, durable[r])
            /\ UNCHANGED <<stage, outcome, durable>>
    /\ UNCHANGED <<lockerVars, clientVars, verdict, located, delivered, reported>>

\* Hashing ends: the asserted digest decides.
Hashed(r) ==
    /\ IF wants[r].corrupt THEN Store!DigestMismatch(r)
       ELSE Store!PublishRefused(r) \/ Store!Publish(r)
    /\ UNCHANGED <<lockerVars, clientVars, ownVars>>

\* The store's answer; completeFailure and mapStoreError map its errors.
Completed(r) ==
    LET a == call[r].answer IN
    /\ stage[r] = "completing"
    /\ Store!Collect(r)
    /\ CASE a.kind = "completed" ->
              /\ Goes(r, "reporting")
              /\ Answers(r, IF wants[r].op = "create" THEN "created" ELSE "appended",
                         durable[r], TRUE)
              /\ UNCHANGED durable
         [] a.kind = "digest-mismatch" ->
              /\ Goes(r, "discarding")
              /\ Answers(r, "digest-mismatch", 0, FALSE)
              /\ UNCHANGED durable
         [] a.kind = "conflict" -> Ends(r, "offset-mismatch", a.bytes)
         [] a.kind \in {"not-found", "destination-conflict"} -> Ends(r, a.kind, 0)
         [] OTHER -> Ends(r, "store-error", 0)
    /\ UNCHANGED <<lockerVars, clientVars, verdict, located, delivered, reported>>

\* The hook resolves and is remembered, or throws and is not; a token it was
\* delivered for is not reported again.
ReportKnown(r) ==
    /\ stage[r] = "reporting" /\ delivered
    /\ Goes(r, "releasing")
    /\ UNCHANGED <<lockerVars, storeVars, clientVars, verdict, durable, outcome, located, delivered, reported>>

HookResolves(r) ==
    /\ stage[r] = "reporting" /\ ~delivered
    /\ delivered' = TRUE /\ reported' = TRUE
    /\ Goes(r, "releasing")
    /\ UNCHANGED <<lockerVars, storeVars, clientVars, verdict, durable, outcome, located>>

\* The repeat of a completed append lets the error through, the others map it.
HookThrows(r) ==
    /\ stage[r] = "reporting" /\ ~delivered
    /\ Ends(r, IF outcome[r].kind = "already-complete" THEN "raised" ELSE "store-error", 0)
    /\ UNCHANGED <<lockerVars, storeVars, clientVars, verdict, located, delivered, reported>>

-------------------------------------------------------------------------------
(* Everyone else *)

\* The client leaves, and its grace window ends.
ClientLeaves(r) ==
    /\ r \in Leaving \ graced /\ stage[r] \notin {"unsent", "answered"}
    /\ graced' = graced \cup {r}
    /\ UNCHANGED <<lockerVars, storeVars, wants, now, ownVars>>

\* The operator's sweep takes no lock.
Sweep ==
    /\ Store!SweepExpired({Upload})
    /\ UNCHANGED <<lockerVars, clientVars, ownVars>>

StrangerTouches ==
    /\ Store!StrangerWrites(Key) \/ Store!StrangerDeletes(Key)
    /\ UNCHANGED <<lockerVars, clientVars, ownVars>>

Tick ==
    /\ now < MaxTime
    /\ now' = now + 1
    /\ UNCHANGED <<lockerVars, storeVars, wants, graced, ownVars>>

\* deliveredCompletions forgets its oldest token.
Forgets ==
    /\ delivered
    /\ delivered' = FALSE
    /\ UNCHANGED <<lockerVars, storeVars, clientVars, stage, verdict, durable, outcome, located, reported>>

-------------------------------------------------------------------------------
Handles(r) ==
    \/ RefuseCreation(r) \/ Allocate(r) \/ Acquire(r) \/ LockTimesOut(r) \/ Release(r)
    \/ BeginCreation(r) \/ Read(r) \/ Discard(r)
    \/ PeekFindsContent(r) \/ PeekFindsNothing(r)
    \/ StartWrite(r) \/ Written(r) \/ Reread(r)
    \/ StartCompletion(r) \/ Hashed(r) \/ Completed(r)
    \/ ReportKnown(r) \/ HookResolves(r) \/ HookThrows(r)

Next ==
    \/ \E r \in Requests : Handles(r)
    \/ \E r \in Requests : BodyArrives(r) \/ BodyEnds(r) \/ BodyTorn(r)
    \/ \E r \in Requests : ClientLeaves(r)
    \/ Sweep \/ StrangerTouches \/ Tick \/ Forgets

Spec == Init /\ [][Next]_vars

\* The event loop runs every handler that can go on, and the completion hook
\* settles.  Nobody has to send a request, the lock's timer may never fire, and
\* a body may stall for ever, under a write as under the peek, unless it is asked
\* to yield: then yieldableBody makes it error.  A write is asked by the lock's
\* signal or the graced one, the peek by the lock's alone.
GoesOn(r) ==
    /\ stage[r] \notin {"unsent", "peeking"}
    /\ Handles(r)
    /\ pc'[r] # "timedOut"
BodyYields(r) ==
    \/ r \in yielding /\ BodyTorn(r)
    \/ aborted[r] /\ (PeekFindsContent(r) \/ PeekFindsNothing(r))
FairSpec == Spec /\ \A r \in Requests : WF_vars(GoesOn(r)) /\ WF_vars(BodyYields(r))

-------------------------------------------------------------------------------
(* Properties *)

Decided(r) == stage[r] \in {"releasing", "answered"}

\* Nobody is told an upload is complete before its completion report has been
\* delivered: not by the request that published it, not by a repeat of that
\* request, not by a probe, however often the hook threw before and whatever
\* the orchestrator has forgotten since.
CompleteMeansReported ==
    \A r \in Requests : Decided(r) /\ outcome[r].complete => reported

\* An offset told to a client is durable, and exact when it is told: every
\* byte below it stays for as long as the upload does, through interruptions,
\* preemptions and the requests that followed.
ToldOffsetIsDurable ==
    \A r \in Requests :
        /\ outcome[r].kind \in {"created", "appended", "probed", "already-complete"}
        /\ Decided(r) /\ Found
        => /\ record[Upload].size >= outcome[r].offset
           /\ stage[r] = "releasing" => record[Upload].size = outcome[r].offset

\* A request that is told it completed the upload delivered its whole body: a
\* body cut by a preemption, a departing client or a broken connection is
\* never taken for the end of the representation.
WholeBodyPublished ==
    \A r \in Requests :
        outcome[r].complete /\ outcome[r].kind \in {"created", "appended"} =>
            outcome[r].offset = At(r) + wants[r].sends

\* The state every request finds is one the engine accepts, and a complete
\* upload holds exactly the length it is known to have.
EngineNeverThrows ==
    Found => /\ SaneState(State)
             /\ State.status = "complete" => State.length \in {Unset, State.offset}

Inv == TypeOK /\ EngineNeverThrows

\* An upload whose end has been announced is gone when the answer goes out:
\* expired, invalidated, corrupt or cancelled, nothing of it is left for a
\* sweep that may never come, whether or not the client stayed for the answer.
CondemnedIsFreed ==
    \A r \in Requests :
        Decided(r) /\ outcome[r].kind \in {"gone", "digest-mismatch", "cancelled"} => ~Found

\* Preemption reaches whoever holds the upload: a waiting request gets its
\* turn without any deadline, even behind a body that never ends.
WaiterProceeds ==
    \A r \in Requests : pc[r] = "waiting" ~> pc[r] # "waiting"

\* A client that left keeps nothing: its request ends and releases the lock,
\* though its body was cut off, stalls for ever, or was never read at all.  The
\* exception is a repeat of a completed append whose body stalls under the peek:
\* no signal of the client's reaches that read, and the request keeps the lock
\* until somebody else comes for it, and no longer.
DepartedIsAnswered ==
    \A r \in Requests :
        r \in graced ~> stage[r] = "answered" \/ (stage[r] = "peeking" /\ ~aborted[r])

\* Neither a waiting request nor one whose client has left hangs.
NobodyHangs == WaiterProceeds /\ DepartedIsAnswered

-------------------------------------------------------------------------------
(* The inductive invariant that the safety properties follow from *)

Begun(r) == stage[r] \notin {"unsent", "answered"}
Creating(r) == wants[r].op = "create" /\ Begun(r)
Queueing(r) == stage[r] \in {"allocated", "locking"}
Working(r) == Begun(r) /\ ~Queueing(r)

\* Whoever works on the upload has its lock, and every lock is somebody's who
\* waits for his turn or works.
LockSound(r) ==
    /\ stage[r] \in {"unsent", "allocated"} => pc[r] = "idle"
    /\ stage[r] = "locking" => pc[r] \in {"waiting", "holding"}
    /\ Working(r) => Holding(r)
    /\ stage[r] = "answered" => pc[r] \notin {"waiting", "holding"}

\* Nobody comes before the one creation has had its first turn.
CreationSound ==
    /\ (\E r \in Requests : Begun(r)) \/ located => Upload \in minted
    /\ \A r, q \in Requests : Creating(r) /\ Creating(q) => r = q
    /\ \A r \in Requests :
          /\ stage[r] = "allocated" => Creating(r)
          /\ Creating(r) /\ Queueing(r) => ~located
          /\ Begun(r) /\ ~located => Creating(r) /\ Queueing(r)
    /\ ~located => record[Upload].size = 0 /\ ~record[Upload].isComplete

RecordSound ==
    LET R == record[Upload] IN
    /\ ~Over(R.size, R.length)
    /\ R.isComplete => R.length \in {Unset, R.size}

\* The length the upload has once r's verdict has been acted on.
Total(r) == Or(record[Upload].length, verdict[r].declaredLength)

\* The verdict a request is going to write by, or is writing by, still fits what
\* the store has.
VerdictSound(r) ==
    stage[r] = "writing" \/ (Creating(r) /\ Queueing(r)) =>
        LET v == verdict[r] IN
        /\ v.declaredLength \in Optional /\ v.bound.maxBytes \in Optional
        /\ v.bound.maxBytesFatal \in BOOLEAN
        /\ v.completes => v.completesAt = Total(r)
        /\ Total(r) # Unset =>
              v.bound.maxBytes # Unset /\ At(r) + v.bound.maxBytes <= Total(r)
        /\ wants[r].op = "create" => record[Upload].length = v.declaredLength

\* A call is made by a request that writes or completes; it keeps to the bound
\* it was given, and one that was not interrupted wrote what the client had.
CallSound(r) ==
    LET c == call[r]
        placed == stage[r] = "writing" /\ record[Upload].length = Total(r)
    IN
    /\ c.pc # "idle" => c.upload = Upload
    /\ c.pc \in (CASE stage[r] = "writing" -> {"idle", "streaming", "settled"}
                   [] stage[r] = "completing" -> {"idle", "hashing", "settled"}
                   [] OTHER -> {"idle"})
    /\ c.pc = "streaming" =>
          placed /\ c.offset = At(r) /\ c.max = verdict[r].bound.maxBytes
          /\ (c.max # Unset => c.flushed <= c.max)
    /\ c.pc = "settled" /\ c.answer.kind = "wrote" /\ ~c.answer.interrupted =>
          placed /\ c.answer.bytes = wants[r].sends
          /\ record[Upload].size = At(r) + wants[r].sends

\* What is about to be published is the client's whole body, and all there is.
CompletionSound(r) ==
    stage[r] = "completing" =>
        /\ durable[r] = At(r) + wants[r].sends
        /\ record[Upload].size = durable[r]
        /\ record[Upload].length \in {Unset, durable[r]}

Telling == {"created", "appended", "probed", "already-complete"}
Condemning == {"gone", "digest-mismatch", "cancelled"}

\* An outcome is one once it has been decided, and true from then on.
OutcomeSound(r) ==
    LET o == outcome[r] IN
    /\ stage[r] \in {"unsent", "allocated", "locking", "writing", "rereading", "completing"} =>
          o = NoOutcome
    /\ o.complete => stage[r] \in {"peeking", "reporting"} \/ (Decided(r) /\ reported)
    /\ o.kind \in Condemning =>
          Upload \in minted /\ (stage[r] = "discarding" \/ (Decided(r) /\ ~Found))
    /\ o.kind \in Telling =>
          /\ stage[r] \in {"peeking", "reporting", "releasing", "answered"}
          /\ record[Upload].size >= o.offset
          /\ stage[r] # "answered" => record[Upload].size = o.offset

RequestSound(r) ==
    /\ LockSound(r) /\ VerdictSound(r) /\ CallSound(r) /\ CompletionSound(r) /\ OutcomeSound(r)

IInv ==
    /\ TypeOK /\ WholeBodyPublished
    /\ Locker!Inv
    /\ \A r \in Requests : wants[r] \in Wanted[r]
    /\ \A r \in Requests : RequestSound(r)
    /\ CreationSound /\ RecordSound
    /\ delivered => reported
===============================================================================

---------------------------- MODULE UploadDialects ----------------------------
(***************************************************************************)
(* The two dialects of resumable uploads, tus 1.0 (src/tus.ts) and the     *)
(* interop versions of the IETF draft (src/upload.ts): what a handler      *)
(* makes of a request before and after it calls the orchestrator, and what *)
(* it answers.  tus has no completeness on the wire: an upload whose       *)
(* offset is its length is finished to the client, and has to be published *)
(* by then; the draft states completeness, in a header whose name and      *)
(* polarity depend on the version.                                         *)
(*                                                                         *)
(* One call of the orchestrator is one step here (what may come between    *)
(* its awaits is UploadOrchestrator's subject); a handler may make two of  *)
(* them, and other handlings, a crash, or a client that has stopped        *)
(* waiting may come between.  A client (external) sends one representation *)
(* of Size bytes, and believes what it is answered.  Interop 6 differs     *)
(* from 5 in media types and problem details alone and is not told apart.  *)
(***************************************************************************)
EXTENDS UploadRequest

CONSTANTS Dialects,   \* of "tus", "v3", "v5", "v9", "v10"
          Handlings,  \* requests the server is handling
          Surfaces,   \* the policies a surface may have
          Size,       \* the bytes of the client's representation
          None,       \* no upload, nothing published
          MaxFaults   \* bound: what goes wrong, all told

ASSUME DialectsAssumption ==
    /\ Dialects \subseteq {"tus", "v3", "v5", "v9", "v10"}
    /\ \A p \in Surfaces : p \in Policies /\ ValidPolicy(p)
    /\ Size \in Nat \ {0} /\ MaxFaults \in Nat
    /\ Handlings \cap {"idle", "done", "gone", "failed", "stranded"} = {}

VARIABLES dialect,    \* what this client and the server speak
          policy,     \* the surface's
          deferred,   \* whether the client states the length only at the end
          upload,     \* the resource, or None
          published,  \* what readers find at the key, or None
          server,     \* server[h]: where a handling stands
          client,     \* where the client stands, and what it has been told
          faults

vars == <<dialect, policy, deferred, upload, published, server, client, faults>>

tus == dialect = "tus"

\* InteropWireFormat: what "?1" asserts, whether an append must carry the
\* header, whether a completed append may be replayed, and whether content
\* that was cut short must not be answered with success.
Row(asserts, required, replayable, conflict) ==
    [headerAssertsComplete |-> asserts, completenessRequiredOnAppend |-> required,
     completedAppendIsReplayable |-> replayable, interruptedContentIsConflict |-> conflict]
Wires == [v3  |-> Row(FALSE, FALSE, FALSE, FALSE), v5  |-> Row(TRUE, TRUE, FALSE, FALSE),
          v9  |-> Row(TRUE, TRUE, TRUE, FALSE),    v10 |-> Row(TRUE, TRUE, TRUE, TRUE)]
Wire == Wires[dialect]

\* A request, as UploadRequest has it: content is what the client means to
\* send, header the completeness header, sum whether content is checksummed,
\* corrupt whether it is damaged on its way.
Headers == {"?1", "?0", "absent", "malformed"}
Requests ==
    [op : {"create", "append", "probe", "cancel"}, complete : {"yes", "no", "infer"},
     offset : 0..Size, content : 0..Size, contentLength : 0..Size \cup {Unset},
     declaredLength : {Size, Unset}, body : BOOLEAN, header : Headers, sum : BOOLEAN,
     corrupt : BOOLEAN]

\* What the orchestrator answers: at is a durable offset that goes with a
\* refusal, token whether it names the upload it created.
Outcome(kind, offset, length, complete, interrupted, at, token) ==
    [kind |-> kind, offset |-> offset, length |-> length, complete |-> complete,
     interrupted |-> interrupted, at |-> at, token |-> token]
Reject(kind, at, token) == Outcome(kind, 0, Unset, FALSE, FALSE, at, token)

\* And what the handler answers: completeness "none" where it says nothing.
Response(status, offset, length, complete, location) ==
    [status |-> status, offset |-> offset, length |-> length, complete |-> complete,
     location |-> location]

Free == [pc |-> "free"]
Busy(h) == server[h] # Free

\* Resources are made at 0; a deadline that has passed is Now.
Now == 1
Resource == [offset : 0..Size, length : {Size, Unset}, status : Statuses,
             createdAt : {0}, expiresAt : {Unset, Now}, soiled : BOOLEAN]
Publication == [length : 0..Size, soiled : BOOLEAN]
ASSUME NoneAssumption == None \notin Resource \cup Publication

Ended == {"done", "gone", "failed", "stranded"}

TypeOK ==
    /\ upload \in Resource \cup {None}
    /\ published \in Publication \cup {None}
    /\ \A h \in Handlings : Busy(h) =>
          /\ server[h].pc \in {"received", "verified", "healing", "answering"}
          /\ server[h].req \in Requests
    /\ client \in [at : {"idle"} \cup Handlings \cup Ended, located : BOOLEAN,
                   offset : 0..Size \cup {Unset}, quits : BOOLEAN]

Init ==
    /\ dialect \in Dialects
    /\ policy \in Surfaces
    /\ deferred \in BOOLEAN
    /\ upload = None
    /\ published = None
    /\ server = [h \in Handlings |-> Free]
    /\ client = [at |-> "idle", located |-> FALSE, offset |-> Unset, quits |-> FALSE]
    /\ faults = 0

-------------------------------------------------------------------------------
(* The client's requests *)

\* A fault may happen as long as the bound allows it.
Costs(n) == faults + n <= MaxFaults /\ faults' = faults + n

\* handleCreate: whether the content of a tus creation may complete it.
TusCompletes(declared, body, contentLength) ==
    /\ declared # Unset
    /\ IF body THEN contentLength \in {Unset, declared} ELSE declared = 0

\* encodeCompleteness; the client encodes as the server does.
Encoded(complete) ==
    IF complete = Wire.headerAssertsComplete THEN "?1" ELSE "?0"

\* A stated size keeps to the policy's ceiling; a stream may run into it.  Of
\* a creation without content no size is looked at.
Contents(from) == {n \in 0..(Size - from) : n = 0 => from = Size}
SizesOf(op, n) ==
    {Unset} \cup {m \in {n} : ~Over(m, policy.maxAppendSize) /\ ~(op = "create" /\ m = 0)}

\* The parts of a request that the dialect decides; an interop 3 client may
\* leave the header away, which says that more is to come.
Completeness(op, declared, n, contentLength) ==
    IF ~tus THEN "no"
    ELSE IF op = "append" \/ TusCompletes(declared, n > 0, contentLength) THEN "infer" ELSE "no"
HeadersFor(op, last) ==
    IF tus THEN {"absent"}
    ELSE {Encoded(last)} \cup
         (IF dialect = "v3" /\ op = "append" /\ ~last THEN {"absent"} ELSE {})
Declares(op, last) ==
    IF deferred THEN (IF tus /\ last /\ op = "append" THEN Size ELSE Unset)
    ELSE IF op = "create" THEN Size ELSE Unset

Content(op, from, n) ==
    LET last == from + n = Size IN
    {[op |-> op, complete |-> Completeness(op, Declares(op, last), n, size), offset |-> from,
      content |-> n, contentLength |-> size, declaredLength |-> Declares(op, last),
      body |-> n > 0, header |-> header, sum |-> sum, corrupt |-> FALSE] :
        size \in SizesOf(op, n), header \in HeadersFor(op, last),
        sum \in {FALSE, tus /\ n > 0}}
Bare(op) ==
    [op |-> op, complete |-> "no", offset |-> 0, content |-> 0, contentLength |-> Unset,
     declaredLength |-> Unset, body |-> FALSE, header |-> "absent", sum |-> FALSE,
     corrupt |-> FALSE]

\* A checksummed body is damaged on its way, or the header is.
Damaged(req) ==
    (IF req.sum THEN {[req EXCEPT !.corrupt = TRUE]} ELSE {}) \cup
    (IF ~tus /\ req.op \in {"create", "append"}
     THEN {[req EXCEPT !.header = x] : x \in {"absent", "malformed"}} ELSE {})

Sends(req) ==
    \E h \in Handlings :
        /\ ~Busy(h)
        /\ client' = [client EXCEPT !.at = h, !.quits = @ \/ req.op = "cancel"]
        /\ \/ /\ server' = [server EXCEPT ![h] = [pc |-> "received", req |-> req]]
              /\ UNCHANGED faults
           \/ \E damaged \in Damaged(req) :
                 /\ server' = [server EXCEPT ![h] = [pc |-> "received", req |-> damaged]]
                 /\ Costs(1)
        /\ UNCHANGED <<dialect, policy, deferred, upload, published>>

SendCreation ==
    /\ client.at = "idle" /\ ~client.located
    /\ \E n \in 0..Size : \E req \in Content("create", 0, n) : Sends(req)
SendAppend ==
    /\ client.at = "idle" /\ client.located /\ client.offset # Unset /\ ~client.quits
    /\ \E n \in Contents(client.offset) :
          \E req \in Content("append", client.offset, n) : Sends(req)
SendProbe ==
    client.at = "idle" /\ client.located /\ client.offset = Unset /\ Sends(Bare("probe"))
SendCancel == client.at = "idle" /\ client.located /\ Sends(Bare("cancel"))

-------------------------------------------------------------------------------
(* What a handler answers *)

Blank(status) == Response(status, Unset, Unset, "none", FALSE)

\* The offset where a body that was stopped at the request's ceiling ended; the
\* slip names the end of what the client meant to send.
EndClaimed(req, durable) == req.offset + req.content
EndReached(req, durable) == durable

\* tus, rejectResponse; a creation's refusal says where the upload is that it
\* has made.
TusRejects(o) ==
    LET named == [Blank(0) EXCEPT !.location = o.token]
        Says(status) == [named EXCEPT !.status = status]
    IN CASE o.kind = "not-found" -> Says(404)
         [] o.kind = "gone" -> Says(410)
         [] o.kind = "offset-mismatch" -> Says(409)
         [] o.kind = "too-large" -> [Says(413) EXCEPT !.offset = o.at]
         [] o.kind \in {"length-inconsistent", "limit-violation"} -> Says(400)
         [] o.kind = "contended" -> Says(423)
         [] OTHER -> Says(502)

TusAnswers(req, o) ==
    CASE o.kind = "created" ->
            Response(201, IF req.body THEN o.offset ELSE Unset, Unset, "none", TRUE)
      [] o.kind = "appended" -> [Blank(204) EXCEPT !.offset = o.offset]
      [] o.kind = "already-complete" -> [Blank(204) EXCEPT !.offset = req.offset]
      [] o.kind = "probed" -> Response(200, o.offset, o.length, "none", FALSE)
      [] o.kind = "cancelled" -> Blank(204)
      [] OTHER -> TusRejects(o)

\* The draft: progress, and the answers that carry it.
Said(complete) == IF complete THEN "yes" ELSE "no"
Progress(status, offset, complete) == Response(status, offset, Unset, Said(complete), FALSE)

\* conflictResponse: a conflict never reports a completed upload, whatever the
\* resource is.  The slip tells the resource's own state.
ConflictIsTheResources == upload # None /\ upload.status = "complete"
ConflictIsComplete == FALSE

IetfRejects(o) ==
    LET Resumable(status) ==
            IF o.at = Unset THEN Blank(status) ELSE Progress(status, o.at, FALSE)
        Says(response) == [response EXCEPT !.location = o.token]
    IN CASE o.kind \in {"not-found", "gone"} -> Says(Blank(404))
         [] o.kind = "too-large" -> Says(Resumable(413))
         [] o.kind \in {"length-inconsistent", "limit-violation"} -> Says(Resumable(400))
         [] o.kind = "contended" -> Says(Blank(423))
         [] OTHER -> Says(Blank(500))

StoppedShort(o) == o.interrupted /\ Wire.interruptedContentIsConflict
AppendedStatus(o) == IF o.complete THEN 200 ELSE IF StoppedShort(o) THEN 409 ELSE 204
CreatedStatus(o) == IF StoppedShort(o) THEN 409 ELSE 201

IetfAnswers(req, o) ==
    CASE o.kind = "created" ->
            [Progress(CreatedStatus(o), o.offset, o.complete) EXCEPT !.location = TRUE]
      [] o.kind = "appended" -> Progress(AppendedStatus(o), o.offset, o.complete)
      [] o.kind = "already-complete" /\ Wire.completedAppendIsReplayable ->
            Progress(200, req.offset, TRUE)
      [] o.kind = "already-complete" -> Blank(400)
      [] o.kind = "offset-mismatch" /\ req.op = "append" ->
            Progress(409, o.at, ConflictIsComplete)
      [] o.kind = "probed" -> Progress(204, o.offset, o.complete)
      [] o.kind = "cancelled" -> Blank(204)
      [] OTHER -> IetfRejects(o)

Answer(req, o) == IF tus THEN TusAnswers(req, o) ELSE IetfAnswers(req, o)

-------------------------------------------------------------------------------
(* Calls of the orchestrator *)

\* tus, after a creation, an append or a probe: the offset is the length, and
\* nothing was published.  The slip leaves probes alone.
Unpublished(o) == ~o.complete /\ o.length # Unset /\ o.offset = o.length
HealsWrites(o) == tus /\ o.kind \in {"created", "appended"} /\ Unpublished(o)
HealDue(o) == tus /\ o.kind \in {"created", "appended", "probed"} /\ Unpublished(o)

Answers(h, req, response) ==
    server' = [server EXCEPT ![h] = [pc |-> "answering", req |-> req, answer |-> response]]

\* completeImplicitly: an upload that is published by now is answered as the
\* first outcome has it; any other refusal is the handler's own.
Healed(req, first, o) ==
    IF o.kind \in {"appended", "already-complete"}
    THEN TusAnswers(req, [first EXCEPT !.complete = TRUE])
    ELSE [TusRejects(o) EXCEPT !.location = first.token]

Returns(h, req, o) ==
    IF server[h].pc = "healing"
    THEN Answers(h, server[h].req, Healed(server[h].req, server[h].outcome, o))
    ELSE IF HealDue(o)
    THEN server' = [server EXCEPT ![h] = [pc |-> "healing", req |-> req, outcome |-> o]]
    ELSE Answers(h, req, Answer(req, o))
Dies(h) == server' = [server EXCEPT ![h] = Free]

\* How a connection delivers a body: whole, cut off by the client or another
\* request (all of it may have come by then), or ended short of what the
\* client meant, when nothing at all states a size.
Deliveries(req) ==
    {b \in [n : 0..req.content, end : {"whole", "torn", "short"}] :
        /\ b.end = "whole" => b.n = req.content
        /\ b.end = "torn" => req.body
        /\ b.end = "short" => b.n < req.content /\ ~deferred /\ ~req.sum
                                /\ req.contentLength = Unset}

\* What may become of a completion: the store fails it, the hook throws behind
\* it, the lock's lease is lost before it; or the process dies with the bytes
\* on disk.
Fates ==
    {"fine", "died", "unpublished", "unreported", "leaseless"}

Publishes(s) == published' = [length |-> s.offset, soiled |-> s.soiled]

\* The orchestrator's write at s under the verdict v.  What the store keeps of a
\* delivery, and whether that is published:
Lands(req, s, v, b) ==
    LET landed == Tighter(v.bound.maxBytes, b.n) IN
    [s EXCEPT !.offset = @ + landed, !.length = Or(@, v.declaredLength),
              !.soiled = @ \/ (landed > 0 /\ req.corrupt)]
Crosses(v, b) == Over(b.n, v.bound.maxBytes)
Torn(v, b) == b.end = "torn" /\ ~Crosses(v, b)
Reaches(v, b, kept) == ~Crosses(v, b) /\ CompletionDue(v, Torn(v, b), kept.offset)
Due(v, b, kept) == Reaches(v, b, kept) /\ ~BelowMinSize(policy, kept.offset)

\* What the orchestrator answers; created: whether the write is a creation's.
Told(req, v, b, fate, kept, created) ==
    LET Fails(kind) == Reject(kind, Unset, created)
        Stops(kind, at) == Reject(kind, at, created)
    IN CASE fate = "leaseless" -> Reject("contended", Unset, FALSE)
         [] fate \in {"unpublished", "unreported"} -> Fails("store-error")
         [] Crosses(v, b) ->
              IF v.bound.fatalReason = Unset
              THEN Stops("too-large", EndReached(req, kept.offset))
              ELSE IF v.bound.fatalReason = "size" THEN Fails("too-large")
              ELSE Fails("length-inconsistent")
         [] ~Crosses(v, b) /\ StatedShort(req, Torn(v, b), v.completesAt, kept.offset) ->
              Stops("length-inconsistent", kept.offset)
         [] Reaches(v, b, kept) /\ ~Due(v, b, kept) -> Fails("limit-violation")
         [] OTHER ->
              Outcome(IF created THEN "created" ELSE "appended", kept.offset,
                      IF created THEN req.declaredLength ELSE kept.length,
                      Due(v, b, kept), Torn(v, b), Unset, created)

Writing(h, req, s, v, created) ==
    \E b \in Deliveries(req), fate \in Fates :
        /\ Costs((IF b.end = "whole" THEN 0 ELSE 1) + (IF fate = "fine" THEN 0 ELSE 1))
        /\ \E kept \in {Lands(req, s, v, b)} :
              LET publishes == Due(v, b, kept) /\ fate \in {"fine", "unreported"} IN
              /\ fate \in {"unpublished", "unreported", "leaseless"} => Due(v, b, kept)
              /\ upload' = [kept EXCEPT !.status =
                              IF Crosses(v, b) /\ v.bound.maxBytesFatal THEN "invalidated"
                              ELSE IF publishes THEN "complete" ELSE @]
              /\ IF publishes THEN Publishes(kept) ELSE UNCHANGED published
              /\ IF fate = "died" THEN Dies(h)
                 ELSE Returns(h, req, Told(req, v, b, fate, kept, created))

\* An engine's or a store's refusal, which changes nothing.
Refuses(h, req, kind, at) ==
    /\ Returns(h, req, Reject(kind, at, FALSE))
    /\ UNCHANGED <<upload, published, faults>>
Renamed(v) ==
    IF v.kind = "limit-violation" /\ v.reason \in {"size-exceeded", "append-too-large"}
    THEN "too-large" ELSE v.kind

\* orchestrator.append
Appending(h, req) ==
    IF upload = None THEN Refuses(h, req, "not-found", Unset)
    ELSE \E v \in {EvaluateUploadIntent(AppendIntent(req, upload), upload, policy, Now)} :
         CASE v.kind = "append-allowed" -> Writing(h, req, upload, v, FALSE)
           [] v.kind = "already-complete" ->
                 \* carriesContent: of a body of no stated size the first byte
                 \* decides.  A hook that throws here leaves the handler.
                 IF req.content > 0 THEN Refuses(h, req, "length-inconsistent", Unset)
                 ELSE /\ UNCHANGED <<upload, published>>
                      /\ \/ /\ Returns(h, req, Outcome(v.kind, upload.offset, upload.length, TRUE,
                                                       FALSE, Unset, FALSE))
                            /\ UNCHANGED faults
                         \/ Answers(h, server[h].req, Blank(500)) /\ Costs(1)
           [] v.kind = "gone" ->
                 /\ upload' = None
                 /\ Returns(h, req, Reject("gone", Unset, FALSE))
                 /\ UNCHANGED <<published, faults>>
           [] v.kind = "offset-mismatch" -> Refuses(h, req, v.kind, v.correctOffset)
           [] OTHER -> Refuses(h, req, Renamed(v), Unset)

-------------------------------------------------------------------------------
(* The handlers *)

Received(h, op) == Busy(h) /\ server[h].pc \in {"received", "verified"} /\ server[h].req.op = op

\* The draft's completeness header is read before anything else: a creation
\* has to carry it, an append where the version says so, and never garbled.
HeaderRefused(req) ==
    /\ ~tus
    /\ \/ req.header = "malformed"
       \/ req.header = "absent" /\ (req.op = "create" \/ Wire.completenessRequiredOnAppend)
DecodeCompleteness(header) == (header = "?1") = Wire.headerAssertsComplete
Understood(req) ==
    IF tus THEN req
    ELSE [req EXCEPT !.complete =
            IF req.header # "absent" /\ DecodeCompleteness(req.header) THEN "yes" ELSE "no"]

CreationVerdict(req) == EvaluateUploadCreation(CreateIntent(req), policy)

\* verifyChecksum, of a tus request the engine, or the resource's absence, does
\* not refuse: content that is damaged, or ends early, never gets to the store.
Unverified(h) == server[h].pc = "received" /\ server[h].req.sum
Verify(h) ==
    LET req == server[h].req IN
    /\ Busy(h) /\ Unverified(h)
    /\ IF req.op = "create" THEN CreationVerdict(req).kind = "create-accepted"
       ELSE upload # None
    /\ \/ /\ ~req.corrupt
          /\ server' = [server EXCEPT ![h].pc = "verified"]
          /\ UNCHANGED faults
       \/ req.corrupt /\ Answers(h, req, Blank(460)) /\ UNCHANGED faults
       \/ Answers(h, req, Blank(400)) /\ Costs(1)
    /\ UNCHANGED <<dialect, policy, deferred, upload, published, client>>

Fresh(length) ==
    [offset |-> 0, length |-> length, status |-> "incomplete", createdAt |-> 0,
     expiresAt |-> Unset, soiled |-> FALSE]

\* orchestrator.create
Creating(h, req, v) ==
    IF v.kind # "create-accepted" THEN Refuses(h, req, Renamed(v), Unset)
    ELSE /\ ~Unverified(h)
         /\ \/ Writing(h, req, Fresh(v.declaredLength), v, TRUE)
            \/ /\ Costs(1)
               /\ Returns(h, req, Reject("store-error", Unset, FALSE))
               /\ UNCHANGED <<upload, published>>
            \/ /\ Costs(1)
               /\ upload' = Fresh(v.declaredLength)
               /\ Returns(h, req, Reject("contended", Unset, FALSE))
               /\ UNCHANGED published

BadRequest(h, req) == Answers(h, req, Blank(400)) /\ UNCHANGED <<upload, published, faults>>

\* handleCreate, handleCreation
Create(h) ==
    /\ Received(h, "create")
    /\ \E req \in {Understood(server[h].req)} :
          IF HeaderRefused(req) THEN BadRequest(h, req)
          ELSE Creating(h, req, CreationVerdict(req))
    /\ UNCHANGED <<dialect, policy, deferred, client>>

\* handlePatch, handleAppend
Append(h) ==
    /\ Received(h, "append")
    /\ \E req \in {Understood(server[h].req)} :
          IF HeaderRefused(req) THEN BadRequest(h, req)
          ELSE (upload # None => ~Unverified(h)) /\ Appending(h, req)
    /\ UNCHANGED <<dialect, policy, deferred, client>>

\* handleHead, handleProbe
Probing(h, req) ==
    IF upload = None THEN Refuses(h, req, "not-found", Unset)
    ELSE \E v \in {EvaluateUploadIntent([kind |-> "probe"], upload, policy, Now)} :
         IF v.kind = "gone"
         THEN /\ upload' = None
              /\ Returns(h, req, Reject("gone", Unset, FALSE))
              /\ UNCHANGED <<published, faults>>
         ELSE /\ UNCHANGED <<upload, published>>
              /\ \/ /\ Returns(h, req, Outcome("probed", v.offset, v.length, v.complete, FALSE,
                                               Unset, FALSE))
                    /\ UNCHANGED faults
                 \/ /\ v.complete /\ Costs(1)
                    /\ Returns(h, req, Reject("store-error", Unset, FALSE))
Probe(h) ==
    /\ Received(h, "probe")
    /\ Probing(h, server[h].req)
    /\ UNCHANGED <<dialect, policy, deferred, client>>

\* handleDelete, handleCancel: the upload goes, what it published stays.
Cancel(h) ==
    /\ Received(h, "cancel")
    /\ upload' = None
    /\ Returns(h, server[h].req,
          Reject(IF upload = None THEN "not-found" ELSE "cancelled", Unset, FALSE))
    /\ UNCHANGED <<dialect, policy, deferred, published, client, faults>>

\* tus: the append of nothing that completes what has all its bytes.
Heal(h) ==
    /\ Busy(h) /\ server[h].pc = "healing"
    /\ Appending(h, [Bare("append") EXCEPT !.complete = "yes", !.contentLength = 0,
                                           !.offset = server[h].outcome.offset])
    /\ UNCHANGED <<dialect, policy, deferred, client>>

\* Another request holds the lock for longer than this one waits.
Contend(h) ==
    /\ Busy(h)
    /\ \/ server[h].pc = "healing"
       \/ server[h].req.op # "create" /\ server[h].pc # "answering" /\ ~Unverified(h)
    /\ Costs(1)
    /\ Returns(h, server[h].req, Reject("contended", Unset, FALSE))
    /\ UNCHANGED <<dialect, policy, deferred, upload, published, client>>

\* The deadline of an upload that is not finished passes.
Lapse ==
    /\ upload # None /\ upload.status = "incomplete"
    /\ Costs(1)
    /\ upload' = [upload EXCEPT !.expiresAt = Now]
    /\ UNCHANGED <<dialect, policy, deferred, published, server, client>>

\* The process that handles a request dies between two calls.
Die(h) ==
    /\ Busy(h) /\ server[h].pc # "answering"
    /\ Costs(1) /\ Dies(h)
    /\ UNCHANGED <<dialect, policy, deferred, upload, published, client>>

-------------------------------------------------------------------------------
(* What the client makes of it *)

\* A tus client is done at the length; the draft's when it is told so, and
\* gives up over a conflict that is not resumable.
Satisfied(req, a) ==
    /\ a.status < 300
    /\ IF tus THEN a.offset = Size /\ (deferred => Size \in {req.declaredLength, a.length})
       ELSE a.complete = "yes"
GivesUp(a) == ~tus /\ a.status = 409 /\ a.complete # "no"
Vanished(req, a) == a.status \in {404, 410} \/ (req.op = "cancel" /\ a.status < 300)

\* The answer of a creation that did not get its lock, or lost its lease, has
\* no location, though the resource is there.
LeftAlone(req, a) == req.op = "create" /\ a.status = 423

\* The offset an answer leaves the client with; without one it has to probe.
Resumes(req, a) ==
    IF ~tus THEN IF a.complete = "no" THEN a.offset ELSE Unset
    ELSE IF a.status = 201 THEN Or(a.offset, 0)
    ELSE IF a.status < 300 \/ a.status = 413 THEN a.offset ELSE Unset

Believes(req, a) ==
    [client EXCEPT
        !.at = CASE LeftAlone(req, a) -> "stranded" [] Vanished(req, a) -> "gone"
                 [] Satisfied(req, a) -> "done" [] GivesUp(a) -> "failed" [] OTHER -> "idle",
        !.located = @ \/ a.location,
        !.offset = IF LeftAlone(req, a) \/ Vanished(req, a) THEN Unset
                     ELSE Resumes(req, a)]

\* The answer arrives, or nobody waits for it any more.
Deliver(h) ==
    /\ Busy(h) /\ server[h].pc = "answering"
    /\ server' = [server EXCEPT ![h] = Free]
    /\ client' = IF client.at = h THEN Believes(server[h].req, server[h].answer) ELSE client
    /\ UNCHANGED <<dialect, policy, deferred, upload, published, faults>>

\* The client stops waiting: the connection broke, or it lost patience.  A
\* creation that told it no location yet leaves it with nothing to resume.
TimeOut(h) ==
    /\ client.at = h
    /\ client' = [client EXCEPT !.at = IF client.located THEN "idle" ELSE "stranded",
                                !.offset = Unset]
    /\ Costs(IF Busy(h) THEN 1 ELSE 0)
    /\ UNCHANGED <<dialect, policy, deferred, upload, published, server>>

-------------------------------------------------------------------------------
ClientSends == SendCreation \/ SendAppend \/ SendProbe \/ SendCancel
Handles(h) ==
    Verify(h) \/ Create(h) \/ Append(h) \/ Probe(h) \/ Cancel(h) \/ Heal(h) \/ Deliver(h)

Next ==
    \/ ClientSends
    \/ Lapse
    \/ \E h \in Handlings : Handles(h) \/ Contend(h) \/ Die(h) \/ TimeOut(h)

Spec == Init /\ [][Next]_vars

\* Handlers run to their end, and a client goes on until it has what it wants.
FairSpec ==
    /\ Spec
    /\ WF_vars(ClientSends)
    /\ \A h \in Handlings : WF_vars(Handles(h)) /\ WF_vars(~Busy(h) /\ TimeOut(h))

-------------------------------------------------------------------------------
(* Properties *)

\* A client that cancelled nothing is never told more than the upload holds,
\* and that it is gone only where nothing was published; a creation that is
\* refused without a location, other than for its lock, made nothing; and no
\* client is told by a conflict to give up.
NeverAhead ==
    client.offset # Unset /\ ~client.quits /\ upload # None => client.offset <= upload.offset
NothingUnreachable == client.at = "idle" /\ ~client.located => upload = None
NothingVanishes ==
    /\ client.at = "gone" /\ ~client.quits => published = None
    /\ client.at # "failed"
Inv == TypeOK /\ NeverAhead /\ NothingUnreachable /\ NothingVanishes

\* What the client takes for success is one: when it goes away satisfied the
\* representation has been published, whichever request, retry or probe of
\* which dialect told it so.  And nothing else is ever published than all of
\* the representation, undamaged.
DoneMeansWhole ==
    /\ client.at = "done" => published # None
    /\ published # None => published.length = Size /\ ~published.soiled

\* Whatever is lost, torn, damaged, refused or retried on the way, the client
\* ends with its upload finished, unless it cancels it, lets it expire or is left without a
\* location by a creation whose answer, or whose lock, is lost.
Finishes == <>(client.at \in {"done", "gone", "stranded"})
===============================================================================

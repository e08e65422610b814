---------------------------- MODULE UploadDialogue ----------------------------
(***************************************************************************)
(* One upload resource through any sequence of requests, one at a time:    *)
(* the engine's verdicts (src/upload-engine.ts), what the orchestrator     *)
(* makes of them, and a store that truncates a body at the bound it was    *)
(* given.  The policy is any valid one over the values of Limits and Ages; *)
(* requests are any over 0..MaxBytes, also those no sane client would send.*)
(*                                                                         *)
(* Interleavings of requests are UploadOrchestrator's subject; here every  *)
(* request is one step, so that every policy and request can be tried.     *)
(* Some names say Dialogue where UploadDialects has the plain ones:        *)
(* EngineProofs extends both.                                              *)
(***************************************************************************)
EXTENDS UploadRequest

CONSTANTS Limits,        \* the values, Unset among them, of a policy's limits
          Ages,          \* and of its maximum age
          MaxBytes,      \* bound: offsets, lengths and content sizes
          MaxTime,       \* bound of the clock
          NoUpload       \* no resource exists

ASSUME BoundsAssumption ==
    /\ MaxBytes \in Nat /\ MaxTime \in Nat
    /\ Limits \subseteq (0..MaxBytes) \cup {Unset}
    /\ Ages \subseteq Optional

VARIABLES rules,         \* the surface's policy
          resource,      \* the resource as the store reports it, or NoUpload
          now,           \* the clock
          handled        \* history: which request was just handled

dialogueVars == <<rules, resource, now, handled>>

Resources ==
    [offset : Nat, length : Optional, status : Statuses, createdAt : Nat,
     expiresAt : Optional]

\* history: what made the last step; sized and torn describe its body.
Handling(kind, sized, torn) == [kind |-> kind, sized |-> sized, torn |-> torn]

DialogueTypeOK ==
    /\ rules \in Policies
    /\ resource \in Resources \cup {NoUpload}
    /\ now \in 0..MaxTime
    /\ handled \in [kind : {"create", "append", "probe", "discard"}, sized : BOOLEAN,
                 torn : BOOLEAN]

\* The requests, and the bodies a connection can deliver for each: all of a
\* stated size or a torn part of it, anything when none is stated.
Sizes == (0..MaxBytes) \cup {Unset}
DialogueRequests ==
    {r \in [complete : {"yes", "no", "infer"}, offset : 0..MaxBytes,
            contentLength : Sizes, declaredLength : Sizes, body : BOOLEAN] :
        ~r.body => r.contentLength \in {0, Unset}}
Bodies(req) ==
    {b \in [sends : 0..(MaxBytes + 1), torn : BOOLEAN] :
        /\ req.contentLength # Unset =>
              /\ b.sends <= req.contentLength
              /\ b.torn <=> b.sends < req.contentLength
        /\ ~req.body => b.sends = 0 /\ ~b.torn}

-------------------------------------------------------------------------------
(* What one request leaves behind *)

\* The store takes the body up to the verdict's bound.
Landed(bound, sends) == Tighter(bound.maxBytes, sends)
CrossesBound(bound, sends) == bound.maxBytes # Unset /\ sends > bound.maxBytes

\* The status a crossed bound leaves.
CrossedStatus(fatal) == IF fatal THEN "invalidated" ELSE "incomplete"

\* A crossed bound ends the upload when fatal and the request otherwise; the
\* upload is published when its post-condition holds.
StatusAfter(v, b, durable) ==
    IF CrossesBound(v.bound, b.sends)
    THEN CrossedStatus(v.bound.maxBytesFatal)
    ELSE IF CompletionDue(v, b.torn, durable) /\ ~BelowMinSize(rules, durable)
    THEN "complete" ELSE "incomplete"

\* Bound: resources larger than MaxBytes, and lengths past it, are left out.
WithinBounds(s) == s.offset <= MaxBytes /\ ~Over(s.length, MaxBytes)

\* The resource after a permitted write at s.offset.
After(s, v, b) ==
    LET durable == s.offset + Landed(v.bound, b.sends) IN
    [s EXCEPT !.offset = durable,
              !.length = Or(s.length, v.declaredLength),
              !.status = StatusAfter(v, b, durable)]

FreshResource(length) ==
    [offset |-> 0, length |-> length, status |-> "incomplete", createdAt |-> now,
     expiresAt |-> IF rules.maxAge = Unset THEN Unset ELSE now + rules.maxAge]

-------------------------------------------------------------------------------
DialogueInit ==
    /\ rules \in {p \in [maxSize : Limits, minSize : Limits, maxAppendSize : Limits,
                          minAppendSize : Limits, maxAge : Ages] : ValidPolicy(p)}
    /\ resource = NoUpload
    /\ now = 0
    /\ handled = Handling("discard", FALSE, FALSE)

CreateUpload(req) ==
    LET v == EvaluateUploadCreation(CreateIntent(req), rules) IN
    /\ resource = NoUpload
    /\ req.offset = 0
    /\ v.kind = "create-accepted"
    /\ \E b \in Bodies(req) :
          /\ resource' = After(FreshResource(v.declaredLength), v, b)
          /\ handled' = Handling("create", req.contentLength # Unset, b.torn)
    /\ WithinBounds(resource')
    /\ UNCHANGED <<rules, now>>

\* An append the engine allows; a bodiless one with nothing to record or to
\* complete writes nothing.
AppendBody(req) ==
    LET v == EvaluateUploadIntent(AppendIntent(req, resource), resource, rules, now) IN
    /\ resource # NoUpload
    /\ v.kind = "append-allowed"
    /\ Writes(req, v)
    /\ \E b \in Bodies(req) :
          /\ resource' = After(resource, v, b)
          /\ handled' = Handling("append", req.contentLength # Unset, b.torn)
    /\ WithinBounds(resource')
    /\ UNCHANGED <<rules, now>>

\* Any request that finds the resource terminal frees it with the verdict.
Condemn ==
    /\ resource # NoUpload
    /\ EvaluateUploadIntent([kind |-> "probe"], resource, rules, now).kind = "gone"
    /\ resource' = NoUpload
    /\ handled' = Handling("probe", FALSE, FALSE)
    /\ UNCHANGED <<rules, now>>

\* A cancel, whatever the resource's state.
Discard ==
    /\ resource # NoUpload
    /\ resource' = NoUpload
    /\ handled' = Handling("discard", FALSE, FALSE)
    /\ UNCHANGED <<rules, now>>

Tick ==
    /\ now < MaxTime
    /\ now' = now + 1
    /\ UNCHANGED <<rules, resource, handled>>

DialogueNext ==
    \/ \E req \in DialogueRequests : CreateUpload(req)
    \/ \E req \in DialogueRequests : AppendBody(req)
    \/ Condemn
    \/ Discard
    \/ Tick

DialogueSpec == DialogueInit /\ [][DialogueNext]_dialogueVars

-------------------------------------------------------------------------------
(* Properties *)

Live == resource # NoUpload /\ resource.status # "invalidated"

\* However requests and bodies combine, a resource never holds more bytes
\* than a length it is known to have or the policy's maximum: past either it
\* could never be published, and past its length the engine would throw at
\* every later request.
WithinRepresentation ==
    Live => ~Over(resource.offset, resource.length) /\ ~Over(resource.offset, rules.maxSize)

\* What is published is the whole representation: all of a known length, and
\* a size the policy allows.
CompleteIsWhole ==
    resource # NoUpload /\ resource.status = "complete" =>
        /\ resource.length \in {Unset, resource.offset}
        /\ ~Under(resource.offset, rules.minSize)
        /\ ~Over(resource.offset, rules.maxSize)

\* What holds of the upload's record between any two requests.
DialogueInv == DialogueTypeOK /\ WithinRepresentation /\ CompleteIsWhole

\* From at bytes, a client that states its sizes can finish: one more append
\* completes the upload, or one moves it to where it can be finished.
Permits(at, n, complete) ==
    LET s == [resource EXCEPT !.offset = at]
        i == [kind |-> "append", offset |-> at, contentLength |-> n, complete |-> complete,
              completeInferred |-> FALSE, declaredLength |-> Unset]
        v == EvaluateUploadIntent(i, s, rules, s.createdAt)
    IN  /\ v.kind = "append-allowed"
        /\ ~CrossesBound(v.bound, n)
        /\ complete => CompletionDue(v, FALSE, at + n) /\ ~BelowMinSize(rules, at + n)

\* A set of offsets that holds whichever offset one append finishes from, and
\* whichever one moves to an offset of the set.
ClosedUnderFinishing(S) ==
    \A at \in (0..MaxBytes) \ S :
        /\ \A n \in 0..(MaxBytes - at) : ~Permits(at, n, TRUE)
        /\ \A n \in 1..(MaxBytes - at) : at + n \in S => ~Permits(at, n, FALSE)
FinishableFrom(at) ==
    \A S \in SUBSET (0..MaxBytes) : at \in S \/ ~ClosedUnderFinishing(S)

\* No accepted request wedges the resource: whatever was declared, torn or
\* truncated so far, an upload still open can be finished under the policy
\* that admitted it.  A ceiling of zero, which validatePolicy lets pass, is the
\* exception: it admits uploads and refuses every byte of them.
NoWedge ==
    /\ resource # NoUpload /\ resource.status = "incomplete"
    /\ rules.maxAppendSize # 0
    => FinishableFrom(resource.offset)

\* Only a body of undeclared size can end an upload, and only with bytes that
\* landed: a request that states its size is refused beforehand, and a retry
\* at the durable end leaves the upload alone whatever it carries.  A completed
\* one nothing but a cancel ends: no request finds it expired, so the retry
\* that re-delivers its completion report is answered while its record is kept.
OnlyUnsizedOverrunKills ==
    [][/\ resource' # NoUpload /\ resource'.status = "invalidated" /\ resource' # resource =>
             /\ ~handled'.sized
             /\ resource # NoUpload => resource'.offset > resource.offset
       /\ resource # NoUpload /\ resource.status = "complete" /\ resource' # resource =>
             handled'.kind = "discard"]_dialogueVars

\* The per-append limits bind on what lands.  No append adds more than the
\* ceiling; one the connection delivered whole and that leaves the upload
\* open adds no less than the floor, or is a final append that fell below the
\* policy's minimum size.
AppendWithinLimits ==
    [][resource # NoUpload /\ resource' # NoUpload /\ resource'.offset > resource.offset =>
          LET landed == resource'.offset - resource.offset IN
          /\ ~Over(landed, rules.maxAppendSize)
          /\ Under(landed, rules.minAppendSize) /\ ~handled'.torn
             /\ resource'.status = "incomplete" => BelowMinSize(rules, resource'.offset)]_dialogueVars
===============================================================================

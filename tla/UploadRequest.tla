---------------------------- MODULE UploadRequest -----------------------------
(***************************************************************************)
(* What the orchestrator (src/upload-orchestrator.ts) derives from one     *)
(* request and the engine's verdict on it: the intent it evaluates, and    *)
(* whether the bytes that became durable complete the upload.              *)
(*                                                                         *)
(* A request is a record [complete, offset, contentLength, declaredLength, *)
(* body]: complete is "yes", "no" or "infer", body whether it has content. *)
(***************************************************************************)
EXTENDS UploadEngine

CreateIntent(req) ==
    [declaredLength |-> req.declaredLength, contentLength |-> req.contentLength,
     complete |-> req.complete # "no"]

\* An inferred completion: a known total is reached by this append's own
\* arithmetic, or a body of undeclared size streams through it.
Infers(req, known) ==
    /\ req.complete = "infer"
    /\ known # Unset
    /\ IF req.contentLength # Unset THEN req.offset + req.contentLength = known
       ELSE req.body

AppendIntent(req, s) ==
    [kind |-> "append", offset |-> req.offset, contentLength |-> req.contentLength,
     declaredLength |-> req.declaredLength,
     completeInferred |-> req.complete = "infer",
     complete |-> \/ req.complete = "yes"
                  \/ Infers(req, Or(req.declaredLength, s.length))]

\* An append without a body still writes, an empty one, when it has a length
\* to record or an upload to complete.
Writes(req, verdict) ==
    req.body \/ verdict.declaredLength # Unset \/ verdict.completes

\* statedShort: completion was asserted, and the body ended cleanly short of
\* the total fixed in advance.
StatedShort(req, interrupted, total, durable) ==
    /\ req.complete = "yes" /\ req.contentLength = Unset
    /\ ~interrupted /\ total # Unset /\ durable # total

\* shouldComplete: the verdict's post-condition, against what is durable.  The
\* slips publish whatever became durable, or an interrupted body.
DueWhateverLanded(verdict, interrupted, durable) ==
    verdict.completes /\ ~interrupted
DueThoughInterrupted(verdict, interrupted, durable) ==
    verdict.completes /\ verdict.completesAt \in {Unset, durable}
CompletionDue(verdict, interrupted, durable) ==
    verdict.completes /\ ~interrupted /\ verdict.completesAt \in {Unset, durable}

\* belowMinSize
BelowMinSize(p, durable) == Under(durable, p.minSize)
===============================================================================

------------------------- MODULE MCUploadOrchestrator -------------------------
(* Small instances of UploadOrchestrator. *)
EXTENDS UploadOrchestrator, TLC

CONSTANTS creator, other, third  \* requests

\* A limit that only a total above two reaches, and a floor of one.
MCPolicy ==
    [maxSize |-> 2, minSize |-> 1, maxAppendSize |-> Unset, minAppendSize |-> Unset,
     maxAge |-> Unset]

Request(op, complete, offset, contentLength, declaredLength, sends, corrupt) ==
    [op |-> op, complete |-> complete, offset |-> offset, contentLength |-> contentLength,
     declaredLength |-> declaredLength, body |-> sends > 0, sends |-> sends,
     corrupt |-> corrupt]
Probing    == Request("probe", "no", 0, Unset, Unset, 0, FALSE)
Cancelling == Request("cancel", "no", 0, Unset, Unset, 0, FALSE)
\* An append of n bytes from an offset, of no declared size.
Streams(complete, offset, n) == Request("append", complete, offset, Unset, Unset, n, FALSE)

\* A creation with no content, of unknown or of known length; with a first
\* part; with the whole representation; one that the policy refuses.
Creations ==
    {Request("create", "no", 0, 0, 2, 0, FALSE),
     Request("create", "no", 0, Unset, Unset, 1, FALSE),
     Request("create", "yes", 0, Unset, Unset, 2, FALSE),
     Request("create", "yes", 0, 3, Unset, 3, FALSE)}

\* The last append, whole or corrupt; one of a middle part, which
\* may turn out to be the last; one whose body overruns the policy.
Appends ==
    {Streams("yes", 1, 1),
     Request("append", "yes", 2, 0, Unset, 0, TRUE),
     Streams("infer", 0, 1),
     Streams("no", 1, 2)}

\* A first append that came late, one that has nothing to write, a repeat of the
\* last one without content, a probe, a cancel.
Others ==
    {Streams("no", 1, 1), Streams("no", 1, 0), Streams("yes", 2, 0), Probing, Cancelling}

MCWanted ==
    [r \in {creator, other, third} |->
        CASE r = creator -> Creations [] r = other -> Appends [] r = third -> Others]

\* Bodies that may stall, behind which the others wait.
StallWanted ==
    [r \in {creator, other, third} |->
        CASE r = creator -> {Request("create", "no", 0, Unset, Unset, 1, FALSE)}
          [] r = other -> {Streams("yes", 1, 1), Streams("no", 0, 1)}
          [] r = third -> {Probing, Streams("yes", 2, 1)}]
===============================================================================

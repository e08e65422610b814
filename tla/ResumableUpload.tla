---------------------------- MODULE ResumableUpload ----------------------------
(***************************************************************************)
(* What a resumable write store promises, whatever it is built from: the   *)
(* contract of src/upload-store.ts, without a word on how a store keeps it.*)
(*                                                                         *)
(* An upload gathers bytes at its end and only there, until it is          *)
(* published, ended by an overrun, or discarded.  Publishing makes an      *)
(* object of exactly the gathered bytes appear in one step, once.          *)
(***************************************************************************)
EXTENDS Naturals, Sequences

CONSTANTS Uploads, Keys, KeyOf, Bytes, Stranger


VARIABLES phase,     \* phase[u]: where the upload is in its life
          content,   \* content[u]: the bytes acknowledged so far, in order
          object     \* object[k]: who wrote the object at k, and its bytes

vars == <<phase, content, object>>

Init ==
    /\ phase = [u \in Uploads |-> "unborn"]
    /\ content = [u \in Uploads |-> <<>>]
    /\ object = [k \in Keys |-> [writer |-> Stranger, body |-> <<>>]]

Create(u) ==
    /\ phase[u] = "unborn"
    /\ phase' = [phase EXCEPT ![u] = "open"]
    /\ UNCHANGED <<content, object>>

\* Bytes are added at the end; they may be the ones that end the upload.
Accept(u) ==
    /\ phase[u] = "open"
    /\ content'[u] \in Seq(Bytes)
    /\ Len(content[u]) <= Len(content'[u])
    /\ SubSeq(content'[u], 1, Len(content[u])) = content[u]
    /\ content' = [content EXCEPT ![u] = content'[u]]
    /\ phase' \in {phase, [phase EXCEPT ![u] = "dead"]}
    /\ UNCHANGED object

\* All of the content becomes the object, never a part of it, never again; the
\* upload keeps none.
Publish(u) ==
    /\ phase[u] = "open"
    /\ phase' = [phase EXCEPT ![u] = "published"]
    /\ object' = [object EXCEPT ![KeyOf[u]] = [writer |-> u, body |-> content[u]]]
    /\ content' = [content EXCEPT ![u] = <<>>]

\* A discarded upload never comes back; its object, if any, stays.
Discard(gone) ==
    /\ \A u \in gone : phase[u] # "unborn"
    /\ phase' = [u \in Uploads |-> IF u \in gone THEN "discarded" ELSE phase[u]]
    /\ UNCHANGED <<content, object>>

\* Others write the objects too.
StrangerWrites(k) ==
    /\ object' = [object EXCEPT ![k] = [writer |-> Stranger, body |-> <<>>]]
    /\ UNCHANGED <<phase, content>>

Next ==
    \/ \E u \in Uploads : Create(u) \/ Accept(u) \/ Publish(u)
    \/ \E gone \in SUBSET Uploads : Discard(gone)
    \/ \E k \in Keys : StrangerWrites(k)

Spec == Init /\ [][Next]_vars
===============================================================================

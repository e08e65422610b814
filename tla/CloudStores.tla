------------------------------ MODULE CloudStores ------------------------------
(***************************************************************************)
(* The four stores over a cloud service, and what all of them owe a client *)
(* and the owner of the key, whatever they keep and however they keep it.  *)
(* A behaviour is one upload in one of the stores.                         *)
(***************************************************************************)
EXTENDS CloudUpload

CONSTANTS Stores,
          OverlapsIn, LengthIn, UnheardIn,  \* of each store: Overlaps, MaxLength, Unheard
          FoldAt, CommitEmpty, PartSize, Uniform

ASSUME StoresAssumption ==
    /\ Stores \subseteq {"gcs", "azure", "r2", "s3"}
    /\ \A s \in {"gcs", "azure", "r2", "s3"} :
          /\ OverlapsIn[s] \subseteq SUBSET Kinds
          /\ LengthIn[s] \in 0..MaxLength
          /\ UnheardIn[s] \in BOOLEAN
    /\ FoldAt \in Nat /\ FoldAt > 1
    /\ PartSize \in Nat \ {0}
    /\ CommitEmpty \in BOOLEAN /\ Uniform \in BOOLEAN

VARIABLE store

Gcs == INSTANCE GcsUploadStore WITH
          Overlaps <- OverlapsIn["gcs"], MaxLength <- LengthIn["gcs"], Unheard <- UnheardIn["gcs"]
Azure == INSTANCE AzureUploadStore WITH
          Overlaps <- OverlapsIn["azure"], MaxLength <- LengthIn["azure"], Unheard <- UnheardIn["azure"]
R2 == INSTANCE R2UploadStore WITH
          Overlaps <- OverlapsIn["r2"], MaxLength <- LengthIn["r2"], Unheard <- UnheardIn["r2"]
S3 == INSTANCE S3UploadStore WITH
          Overlaps <- OverlapsIn["s3"], MaxLength <- LengthIn["s3"], Unheard <- UnheardIn["s3"]

Init ==
    /\ store \in Stores
    /\ CASE store = "gcs" -> Gcs!Init
         [] store = "azure" -> Azure!Init
         [] store = "r2" -> R2!Init
         [] store = "s3" -> S3!Init

Next ==
    /\ UNCHANGED store
    /\ \/ store = "gcs" /\ Gcs!Next
       \/ store = "azure" /\ Azure!Next
       \/ store = "r2" /\ R2!Next
       \/ store = "s3" /\ S3!Next

Spec == Init /\ [][Next]_<<vars, store>>

-------------------------------------------------------------------------------

\* What the store would publish of the upload as it is.
Content ==
    CASE store = "gcs" -> Gcs!Content
      [] store = "azure" -> Azure!Content
      [] store = "r2" -> R2!Content
      [] store = "s3" -> S3!Content

\* Azure's blocks may go with a sentinel that is missed, and then the record
\* or the blocks tell that they did; S3's parts go with the multipart upload.
Intact ==
    CASE store = "azure" -> staged.sentinel /\ ~Azure!Disagrees(info)
      [] store = "s3" -> staged.live
      [] OTHER -> TRUE
Answered(pc) == {c \in Calls : call[c].pc = pc}
Discarded == \E c \in Calls : call[c].kind = "discard"
\* A discard of gcs that crashed may have cleared the chunks and left the record.
Emptied == store = "gcs" /\ Discarded
\* A completion at a length the upload did not have may lift the seal of one
\* that published and did not get to say so: what is appended then is not in it,
\* and a completion of r2 adopts it.
Lifted == \E c \in Answered("conflict") : call[c].kind = "complete"
InProgress ==
    /\ info # None /\ ~info.complete /\ ~info.invalid /\ Intact
    /\ ~Discarded

\* The answers that tell of bytes.  In S3 a completion may put its last part
\* over one that an append beside it flushed, and go no further.  The append is
\* refused while the seal is there, but its tail tells a probe of the part, and
\* once another completion has lifted the seal it passes the fence.
Halfway == store = "s3" /\ \E c \in Calls :
              call[c].kind = "complete" /\ call[c].pc \in {"crashed", "failed", "destination"}
TellsOfBytes ==
    (IF Halfway /\ Lifted THEN {} ELSE Answered("wrote")) \cup (IF Halfway THEN {} ELSE Answered("state"))

(***************************************************************************)
(* What an append was told it wrote, or a probe that there is, stays: the  *)
(* store still has those bytes, in their order, whoever else wrote parts,  *)
(* chunks, blocks or tails of the same upload since, and whatever a call   *)
(* that crashed, was refused or lost its lock left behind or took back.    *)
(***************************************************************************)
AcknowledgedBytesStand ==
    InProgress =>
        \A c \in TellsOfBytes :
            /\ Len(Content) >= call[c].told
            /\ SubSeq(Content, 1, call[c].told) = Prefix(call[c].told)

(***************************************************************************)
(* What is published is the representation up to the length that was       *)
(* asked for, with none missing, doubled or out of its place and none left *)
(* out that an append was told it wrote; and no completion is answered or  *)
(* recorded before something was published.                                *)
(***************************************************************************)
PublishedIsThePlan ==
    /\ Emptied \/ \A body \in published : body = Prefix(Len(body))
    /\ \/ Emptied \/ Lifted
       \/ \A c \in Answered("wrote") : \A body \in published : call[c].told <= Len(body)
    /\ \/ Emptied \/ (store = "r2" /\ Lifted)
       \/ \A c \in Answered("complete") : call[c].told > 0 => Prefix(call[c].told) \in published
    /\ Answered("complete") # {} \/ (info # None /\ info.complete) => published # {}

(***************************************************************************)
(* An upload whose record is gone and that no call works on any more left  *)
(* nothing at the service that is paid for and never found again: of an    *)
(* append that outlived a cancel or the sweep, the chunk is taken back,    *)
(* the part is refused, and the tail is where the sweep looks for tails.   *)
(* (Of a call that crashed a later sweep may find the leavings; Azure lets *)
(* go of uncommitted blocks in a week.)                                    *)
(***************************************************************************)
NothingStranded ==
    info = None /\ (\A c \in Calls : ~Running(c) /\ call[c].pc # "crashed") =>
        CASE store = "gcs" -> staged = <<>>
          [] store \in {"r2", "s3"} -> ~staged.live
          [] OTHER -> TRUE

(***************************************************************************)
(* The record and the bytes are as the store writes them, and nothing is   *)
(* stranded.                                                               *)
(***************************************************************************)
Inv ==
    /\ CASE store = "gcs" -> Gcs!TypeOK
         [] store = "azure" -> Azure!TypeOK
         [] store = "r2" -> R2!TypeOK
         [] store = "s3" -> S3!TypeOK
    /\ NothingStranded

===============================================================================

------------------------------- MODULE FsProofs --------------------------------
(***************************************************************************)
(* One upload of fsUploadStore, for any number of calls, any length, and   *)
(* any number of foreign writes and of sweeps. What the store keeps it     *)
(* keeps by itself, without the lock, but for three overlaps of calls,     *)
(* which each theorem names where it rests on their absence: two           *)
(* completions, a completion and a cancel, two appends.                    *)
(***************************************************************************)
EXTENDS FsUploadStore, SequenceTheorems, TLAPS

\* What a lock that may be lost still has to keep apart.
OneCompletion == {"complete"} \notin Overlaps
NoCancelBeside == {"complete", "abort"} \notin Overlaps
OneAppend == {"append"} \notin Overlaps

-------------------------------------------------------------------------------
(* The invariant *)

Ended == {"idle", "crashed", "wrote", "overrun", "conflict", "not-found", "complete",
          "incomplete", "destination", "mismatch", "failed", "discarded"}
Objects == Copies \cup Foreign \cup {None}
Locals ==
    [kind : Kinds \cup {"none"}, pc : Awaits \cup Ended, offset : 0..MaxLength,
     flushed : 0..MaxLength, ending : {"kept", "overrun"}, expected : 0..MaxLength,
     destination : Objects, seal : Seals \cup {None}, publication : Copies \cup {None},
     told : 0..MaxLength]
Records ==
    [cancelled : BOOLEAN, invalidated : BOOLEAN, seal : Seals \cup {None},
     publication : Copies \cup {None}, completion : 0..MaxLength \cup {None}]

FilesTyped ==
    /\ dir \in {"live", "gone", "penned"}
    /\ rec \in Records
    /\ data \in Bytes
    /\ named \in BOOLEAN
    /\ staged \in Copies \cup {None}
    /\ displaced \in Objects
    /\ object \in Objects
\* The directory the sweep took away is away.
HistorySound ==
    /\ sweep = "penned" => dir = "penned"
    /\ sweep \in {"away", "reap", "quarantine", "penned"}
    /\ editions \in 0..MaxEditions
    /\ latest \in Foreign \cup {None}
    /\ published \subseteq Copies
CallsTyped ==
    /\ call \in [Calls -> Locals]
    /\ \A c \in Calls : call[c].offset + call[c].flushed \in 0..MaxLength

\* Which kind of call waits where.
Copying == {"staging", "copying", "measuring", "mislaid"}
Publishes == {"displacing", "comparing", "linking", "unstaging", "clearing"}
Finishing == {"recording", "settling", "dropping"}
AppendsAt == {"draining", "fencing", "truncating", "noting"}
CompletesAt == {"lifting", "surveying", "sealing", "checking", "restaging", "naming",
                "verifying"} \cup Copying \cup Publishes
KindFits(kind, pc) ==
    /\ pc \in AppendsAt => kind = "append"
    /\ pc \in CompletesAt => kind = "complete"
    /\ pc \in Finishing => kind \in {"complete", "probe"}
    /\ pc \in {"restoring", "returned"} => kind \in {"complete", "abort"}
    /\ pc = "reclaiming" => kind = "abort"
Kinded == \A c \in Calls : KindFits(call[c].kind, call[c].pc)

\* No two calls run beside each other that may not.
Apart ==
    \A c, d \in Calls :
        Running(c) /\ Running(d) /\ c # d => {call[c].kind, call[d].kind} \in Overlaps

CallsSound == CallsTyped /\ Kinded /\ Apart

\* What the records say of each other, and of what has been at the key.
RecordsSound ==
    /\ rec.publication # None =>
          rec.seal # None /\ Len(rec.publication.body) = rec.seal.length
    /\ rec.completion # None =>
          rec.publication \in published /\ rec.completion = rec.seal.length
    /\ displaced # None => rec.publication # None /\ rec.seal.destination # None
    /\ \A copy \in published : copy = rec.publication
    /\ object \in Copies => object \in published
    /\ displaced \in Copies => displaced \in published

\* A call that goes by a seal or by a copy goes by the one in the records, and
\* until it is linked the copy is the one that is staged.
Sealed == {"checking", "restaging", "naming", "verifying"} \cup Copying \cup Publishes
              \cup Finishing
WithCopy == {"restaging", "verifying"} \cup Publishes \cup Finishing
Planned(c) ==
    /\ call[c].pc = "lifting" => rec.publication = None
    /\ call[c].pc \in {"lifting", "surveying", "sealing"} => call[c].publication = None
    /\ call[c].pc \in Sealed => rec.seal # None /\ call[c].seal = rec.seal
    /\ call[c].pc = "checking" => call[c].publication = rec.publication
    /\ call[c].pc \in Copying => rec.publication = None
    /\ call[c].pc = "naming" =>
          /\ rec.publication = None /\ call[c].publication # None
          /\ Len(call[c].publication.body) = rec.seal.length
    /\ call[c].pc \in WithCopy =>
          rec.publication # None /\ call[c].publication = rec.publication
    /\ call[c].pc \in {"naming", "verifying", "displacing", "comparing", "linking"} =>
          (dir = "live" => staged = call[c].publication)
    /\ call[c].pc \in {"displacing", "comparing"} => rec.seal.destination # None
    /\ call[c].pc \in {"settling", "dropping", "complete"} => rec.publication \in published
    /\ call[c].pc = "complete" => call[c].told = Len(rec.publication.body)

IInv ==
    /\ FilesTyped /\ HistorySound
    /\ CallsSound
    /\ RecordsSound
    /\ \A c \in Calls : Planned(c)

-------------------------------------------------------------------------------
(* Files, records and calls *)

\* Constants, and what has the name of no object.
LEMMA Constants ==
    /\ MaxLength \in Nat /\ MaxEditions \in Nat
    /\ None \notin Copies /\ None \notin Foreign /\ None \notin Seals /\ None \notin Nat
    /\ \A copy \in Copies : copy \notin Foreign
    BY FsAssumption, NoneAssumption DEF Copies, Foreign

\* The bytes of a file are a sequence no longer than the bound.
LEMMA BytesAre ==
    ASSUME NEW b \in Bytes
    PROVE  /\ b \in Seq(Calls \cup {Hole}) /\ Len(b) \in 0..MaxLength
           /\ b \in [1..Len(b) -> Calls \cup {Hole}]
<1>1. PICK n \in 0..MaxLength : b \in [1..n -> Calls \cup {Hole}]
    BY DEF Bytes
<1>2. b \in Seq(Calls \cup {Hole})
    BY <1>1, Constants, IsASeq
<1>3. Len(b) = n
    BY <1>1, <1>2, Constants, LenProperties
<1> QED BY <1>1, <1>2, <1>3

\* A function on the numbers up to n, into bytes, is what is in a file.
LEMMA AreBytes ==
    ASSUME NEW n \in 0..MaxLength, NEW b \in [1..n -> Calls \cup {Hole}]
    PROVE  b \in Bytes /\ Len(b) = n
<1>1. b \in Bytes
    BY DEF Bytes
<1>2. b \in Seq(Calls \cup {Hole})
    BY Constants, IsASeq
<1> QED BY <1>1, <1>2, Constants, LenProperties

\* A byte written past the end of a file, over a byte, or beyond a gap.
LEMMA WrittenIs ==
    ASSUME NEW b \in Bytes, NEW at \in Nat, at < MaxLength, NEW c \in Calls
    PROVE  /\ Written(b, at, c) \in Bytes
           /\ at = Len(b) => /\ Len(Written(b, at, c)) = Len(b) + 1
                             /\ Written(b, at, c)[Len(b) + 1] = c
                             /\ \A i \in 1..Len(b) : Written(b, at, c)[i] = b[i]
<1> DEFINE n == IF at + 1 > Len(b) THEN at + 1 ELSE Len(b)
           w == Written(b, at, c)
<1>1. Len(b) \in 0..MaxLength /\ b \in [1..Len(b) -> Calls \cup {Hole}]
    BY BytesAre
<1>2. n \in 0..MaxLength
    BY <1>1, Constants
<1>3. w = [i \in 1..n |-> IF i = at + 1 THEN c ELSE IF i <= Len(b) THEN b[i] ELSE Hole]
    BY DEF Written
<1>4. w \in [1..n -> Calls \cup {Hole}]
    BY <1>1, <1>2, <1>3
<1>5. w \in Bytes /\ Len(w) = n
    BY <1>2, <1>4, AreBytes
<1>6. \A i \in 1..n : w[i] = IF i = at + 1 THEN c ELSE IF i <= Len(b) THEN b[i] ELSE Hole
    BY <1>3
<1>7. at = Len(b) => n = Len(b) + 1 /\ \A i \in 1..Len(b) : i \in 1..n /\ i # at + 1
    BY <1>1
<1> HIDE DEF w, n
<1>8. at = Len(b) => Len(w) = Len(b) + 1 /\ w[Len(b) + 1] = c /\ \A i \in 1..Len(b) : w[i] = b[i]
    BY <1>1, <1>2, <1>5, <1>6, <1>7
<1> QED BY <1>5, <1>8 DEF w

\* A file shortened to n bytes keeps those, and has no others.
LEMMA TruncatedIs ==
    ASSUME NEW b \in Bytes, NEW n \in 0..MaxLength
    PROVE  /\ Truncated(b, n) \in Bytes /\ Len(Truncated(b, n)) = n
           /\ \A i \in 1..n : i <= Len(b) => Truncated(b, n)[i] = b[i]
<1>1. Len(b) \in 0..MaxLength /\ b \in [1..Len(b) -> Calls \cup {Hole}]
    BY BytesAre
<1>2. Truncated(b, n) = [i \in 1..n |-> IF i <= Len(b) THEN b[i] ELSE Hole]
    BY DEF Truncated
<1>3. Truncated(b, n) \in [1..n -> Calls \cup {Hole}]
    BY <1>1, <1>2, Constants
<1> QED BY <1>2, <1>3, AreBytes

\* A copy is told by who made it, a foreign object by its edition.
LEMMA CopiesAre ==
    /\ \A copy \in Copies : copy.by \in Calls /\ copy.body \in Bytes
    /\ \A c \in Calls, b \in Bytes : [by |-> c, edition |-> 0, body |-> b] \in Copies
    /\ \A e \in 0..MaxEditions : Edition(e) \in Foreign
    /\ \A copy \in Foreign : copy.by \notin Calls
    BY FsAssumption DEF Copies, Foreign, Edition

\* A call that has not begun, and has nothing yet.
LEMMA IdleIs ==
    /\ Idle \in Locals /\ Idle.offset = 0 /\ Idle.flushed = 0
    /\ Idle.seal = None /\ Idle.publication = None
    BY Constants DEF Idle, Locals, Awaits, Ended, Objects

\* No call waits where a call ends.
LEMMA EndedIs == \A pc \in Ended : pc \notin Awaits
    BY DEF Ended, Awaits

-------------------------------------------------------------------------------
(* How calls move *)

\* The one call that a step moves.
Moved(c) == call' = [call EXCEPT ![c] = call'[c]]

\* A call that moves keeps to the calls' types, kinds and overlaps, if it runs
\* on as what it was, or begins beside calls it may overlap with, or ends.
LEMMA MovedIsSound ==
    ASSUME CallsSound, NEW c \in Calls, Moved(c), call'[c] \in Locals,
           call'[c].offset + call'[c].flushed <= MaxLength,
           KindFits(call'[c].kind, call'[c].pc),
           \/ call'[c].pc \in Ended
           \/ Running(c) /\ call'[c].kind = call[c].kind
           \/ \A d \in Calls : Running(d) => {call'[c].kind, call[d].kind} \in Overlaps
    PROVE  CallsSound' /\ \A d \in Calls : d # c => call'[d] = call[d]
<1>1. \A d \in Calls : d # c => call'[d] = call[d]
    BY DEF Moved, CallsSound, CallsTyped
<1>2. CallsTyped'
  <2>1. call' \in [Calls -> Locals]
    BY DEF Moved, CallsSound, CallsTyped
  <2>2. \A d \in Calls : call'[d].offset + call'[d].flushed \in 0..MaxLength
    BY <1>1, Constants DEF CallsSound, CallsTyped, Locals
  <2> QED BY <2>1, <2>2 DEF CallsTyped
<1>3. Kinded'
    BY <1>1 DEF CallsSound, Kinded
<1>4. Apart'
  <2> SUFFICES ASSUME NEW d \in Calls, NEW e \in Calls, d # e,
                      call'[d].pc \in Awaits, call'[e].pc \in Awaits
               PROVE  {call'[d].kind, call'[e].kind} \in Overlaps
    BY DEF Apart, Running
  <2>1. CASE d # c /\ e # c
    BY <1>1, <2>1 DEF CallsSound, Apart, Running
  <2>2. \A a, b : {a, b} = {b, a}
    OBVIOUS
  <2>3. ASSUME NEW x \in Calls, x # c, Running(x), call'[c].pc \in Awaits
        PROVE  {call'[c].kind, call[x].kind} \in Overlaps
    BY <2>3, EndedIs DEF CallsSound, Apart
  <2>4. CASE d = c
    BY <1>1, <2>3, <2>4 DEF Running
  <2>5. CASE e = c
    BY <1>1, <2>2, <2>3, <2>5 DEF Running
  <2> QED BY <2>1, <2>4, <2>5
<1> QED BY <1>1, <1>2, <1>3, <1>4 DEF CallsSound

\* A call that goes on to another await, or ends where it was.
LEMMA GoesOn ==
    ASSUME CallsSound, NEW c \in Calls, Running(c), NEW pc \in Awaits \cup Ended,
           KindFits(call[c].kind, pc), Goes(c, pc)
    PROVE  /\ CallsSound' /\ \A d \in Calls : d # c => call'[d] = call[d]
           /\ call'[c] = [call[c] EXCEPT !.pc = pc] /\ call'[c].pc = pc
           /\ call'[c].seal = call[c].seal /\ call'[c].publication = call[c].publication
           /\ call'[c].kind = call[c].kind /\ call'[c].offset = call[c].offset
           /\ call'[c].flushed = call[c].flushed /\ call'[c].told = call[c].told
<1>1. call[c] \in Locals /\ call[c].offset + call[c].flushed <= MaxLength
    BY Constants DEF CallsSound, CallsTyped, Locals
<1>2. /\ call'[c] = [call[c] EXCEPT !.pc = pc] /\ Moved(c)
    BY DEF Goes, Moved, CallsSound, CallsTyped
<1>3. call'[c] \in Locals
    BY <1>1, <1>2 DEF Locals
<1>4. call'[c].pc = pc /\ call'[c].kind = call[c].kind /\ call'[c].offset = call[c].offset
      /\ call'[c].flushed = call[c].flushed /\ call'[c].told = call[c].told
      /\ call'[c].seal = call[c].seal /\ call'[c].publication = call[c].publication
    BY <1>1, <1>2 DEF Locals
<1> QED BY <1>1, <1>2, <1>3, <1>4, MovedIsSound

\* A call that ends.
LEMMA EndsAt ==
    ASSUME CallsSound, NEW c \in Calls, NEW kind \in Kinds \cup {"none"}, NEW pc \in Ended,
           NEW offset \in 0..MaxLength, NEW n \in 0..MaxLength, Ends(c, kind, pc, offset, n)
    PROVE  /\ CallsSound' /\ \A d \in Calls : d # c => call'[d] = call[d]
           /\ call'[c] \in Locals /\ call'[c].pc = pc /\ call'[c].kind = kind
           /\ call'[c].offset = offset /\ call'[c].told = n /\ call'[c].flushed = 0
<1>1. call'[c] = [Idle EXCEPT !.kind = kind, !.pc = pc, !.offset = offset, !.told = n] /\ Moved(c)
    BY DEF Ends, Moved, CallsSound, CallsTyped
<1>2. call'[c] \in Locals /\ call'[c].pc = pc /\ call'[c].kind = kind
      /\ call'[c].offset = offset /\ call'[c].told = n /\ call'[c].flushed = 0
    BY <1>1, IdleIs, ZenonT(60) DEF Locals
<1>3. KindFits(call'[c].kind, call'[c].pc)
    BY <1>2 DEF KindFits, Ended, AppendsAt, CompletesAt, Copying, Publishes, Finishing
<1>4. call'[c].offset + call'[c].flushed <= MaxLength
    BY <1>2, Constants
<1> QED BY <1>1, <1>2, <1>3, <1>4, MovedIsSound

\* A call that begins, where it may.
LEMMA BeginsAt ==
    ASSUME CallsSound, NEW c \in Calls, NEW kind \in Kinds, NEW pc \in Awaits,
           NEW offset \in 0..MaxLength, NEW n \in 0..MaxLength, KindFits(kind, pc),
           MayBegin(c, kind), Begins(c, kind, pc, offset, n)
    PROVE  /\ CallsSound' /\ \A d \in Calls : d # c => call'[d] = call[d]
           /\ call'[c].pc = pc /\ call'[c].kind = kind /\ call'[c].publication = None
           /\ call'[c].offset = offset /\ call'[c].flushed = 0
<1>1. call'[c] = [Idle EXCEPT !.kind = kind, !.pc = pc, !.offset = offset,
                              !.expected = n, !.told = offset] /\ Moved(c)
    BY DEF Begins, Moved, CallsSound, CallsTyped
<1>2. call'[c].pc = pc /\ call'[c].kind = kind
      /\ call'[c].offset = offset /\ call'[c].flushed = 0 /\ call'[c].publication = None
    BY <1>1, IdleIs DEF Locals
<1>3. call'[c] \in Locals
    BY <1>1, IdleIs, ZenonT(60) DEF Locals
<1>4. call'[c].offset + call'[c].flushed <= MaxLength
    BY <1>2, Constants
<1>5. \A d \in Calls : Running(d) => {call'[c].kind, call[d].kind} \in Overlaps
    BY <1>2 DEF MayBegin
<1> QED BY <1>1, <1>2, <1>3, <1>4, <1>5, MovedIsSound

-------------------------------------------------------------------------------
(* What a step leaves alone *)

\* A call that a step does not move goes on by the same seal and copy.
LEMMA OthersPlanned ==
    ASSUME NEW d \in Calls, Planned(d), call'[d] = call[d],
           rec'.seal = rec.seal, rec'.publication = rec.publication,
           published \subseteq published',
           dir' = "live" => dir = "live" /\ staged' = staged
    PROVE  Planned(d)'
    BY DEF Planned

\* Beside a completion no other is under way.
LEMMA CompletesAlone ==
    ASSUME OneCompletion, CallsSound, NEW c \in Calls, NEW d \in Calls, d # c,
           call[c].kind = "complete", Running(c)
    PROVE  /\ call[d].pc \notin CompletesAt
           /\ Running(d) => call[d].kind # "complete"
<1>1. Running(d) => call[d].kind # "complete"
    BY DEF CallsSound, Apart, OneCompletion
<1>2. call[d].pc \in CompletesAt => call[d].kind = "complete" /\ Running(d)
    BY DEF CallsSound, Kinded, KindFits, Running, Awaits, CompletesAt, Copying, Publishes
<1> QED BY <1>1, <1>2

\* What a completion does to the seal, to the name of the copy before there is
\* one, and to what is staged, is no other call's.
LEMMA OthersBeside ==
    ASSUME OneCompletion, IInv, NEW c \in Calls, NEW d \in Calls, d # c,
           call[c].kind = "complete", Running(c), call'[d] = call[d], published' = published,
           \/ rec'.seal = rec.seal /\ rec'.publication = rec.publication
           \/ rec.publication = None
    PROVE  Planned(d)'
<1>1. call[d].pc \notin CompletesAt /\ Planned(d)
    BY CompletesAlone DEF IInv
<1>2. rec.publication = None => call[d].pc \notin Finishing /\ call[d].pc # "complete"
    BY <1>1, Constants DEF Planned, WithCopy, Finishing, IInv, HistorySound
<1> QED BY <1>1, <1>2 DEF Planned, CompletesAt, Sealed, WithCopy, Copying, Publishes, Finishing

\* A step of one call that leaves the records' plan and the copies as they are.
LEMMA StepKeeps ==
    ASSUME IInv, NEW c \in Calls, CallsSound', \A d \in Calls : d # c => call'[d] = call[d],
           rec'.seal = rec.seal, rec'.publication = rec.publication,
           published \subseteq published',
           dir' = "live" => dir = "live" /\ staged' = staged,
           FilesTyped', HistorySound', RecordsSound', Planned(c)'
    PROVE  IInv'
    BY OthersPlanned DEF IInv

\* A step that no call takes, and one that only moves a call.
LEMMA FilesStay ==
    ASSUME IInv, UNCHANGED <<files, others>>
    PROVE  FilesTyped' /\ HistorySound' /\ RecordsSound' /\ rec' = rec /\ published' = published
           /\ dir' = dir /\ staged' = staged
    BY DEF IInv, files, others, FilesTyped, HistorySound, RecordsSound
\* One that only moves a call.
LEMMA CallKeeps ==
    ASSUME IInv, NEW c \in Calls, UNCHANGED <<files, others>>, CallsSound',
           \A d \in Calls : d # c => call'[d] = call[d], Planned(c)'
    PROVE  IInv'
    BY FilesStay, StepKeeps

\* A call that appends or cancels goes by no plan, nor does one that ended,
\* other than as complete.
Planless == AppendsAt \cup {"restoring", "returned", "reclaiming"} \cup (Ended \ {"complete"})
\* So it fits every plan.
LEMMA PlanlessPlanned ==
    ASSUME NEW c \in Calls, call'[c].pc \in Planless
    PROVE  Planned(c)'
    BY DEF Planless, Planned, AppendsAt, Ended, Sealed, WithCopy, Copying, Publishes, Finishing

\* A call that ends so and changes nothing.
LEMMA EndsKeeps ==
    ASSUME IInv, NEW c \in Calls, UNCHANGED <<files, others>>,
           NEW kind \in Kinds \cup {"none"}, NEW pc \in Ended \ {"complete"},
           NEW offset \in 0..MaxLength, NEW n \in 0..MaxLength, Ends(c, kind, pc, offset, n)
    PROVE  IInv'
<1>1. CallsSound' /\ \A d \in Calls : d # c => call'[d] = call[d]
    BY EndsAt DEF IInv
<1>2. call'[c].pc \in Planless
    BY EndsAt DEF IInv, Planless
<1> QED BY <1>1, <1>2, PlanlessPlanned, CallKeeps
\* An answer to a call under way, that changes nothing.
LEMMA AnswersKeeps ==
    ASSUME IInv, NEW c \in Calls, UNCHANGED <<files, others>>,
           NEW pc \in Ended \ {"complete"}, NEW n \in 0..MaxLength, Answers(c, pc, n)
    PROVE  IInv'
<1>1. call[c].kind \in Kinds \cup {"none"} /\ call[c].offset \in 0..MaxLength
    BY DEF IInv, CallsSound, CallsTyped, Locals
<1> QED BY <1>1, EndsKeeps DEF Answers

\* What the calls' types say of one, and where its bytes end.
LEMMA CallIs ==
    ASSUME CallsSound, NEW c \in Calls
    PROVE  /\ call[c] \in Locals /\ call[c].kind \in Kinds \cup {"none"}
           /\ call[c].offset \in 0..MaxLength /\ call[c].flushed \in 0..MaxLength
           /\ call[c].told \in 0..MaxLength /\ call[c].expected \in 0..MaxLength
           /\ End(c) \in 0..MaxLength /\ End(c) = call[c].offset + call[c].flushed
           /\ call[c].seal \in Seals \cup {None}
           /\ call[c].publication \in Copies \cup {None}
           /\ call[c].destination \in Objects
    BY Constants DEF CallsSound, CallsTyped, Locals, End

\* A call under way that answers.
LEMMA AnswersAt ==
    ASSUME CallsSound, NEW c \in Calls, NEW pc \in Ended, NEW n \in 0..MaxLength,
           Answers(c, pc, n)
    PROVE  /\ CallsSound' /\ \A d \in Calls : d # c => call'[d] = call[d]
           /\ call'[c].pc = pc /\ call'[c].told = n
<1>1. call[c].kind \in Kinds \cup {"none"} /\ call[c].offset \in 0..MaxLength
    BY CallIs
<1>2. Ends(c, call[c].kind, pc, call[c].offset, n)
    BY DEF Answers
<1> HIDE DEF Ends, Answers
<1> QED BY ONLY CallsSound, c \in Calls, pc \in Ended, n \in 0..MaxLength, <1>1, <1>2, EndsAt, ZenonT(60)

-------------------------------------------------------------------------------
(* appendChunk *)

\* An append that begins goes by no plan.
LEMMA AppendBeginsKeeps ==
    ASSUME IInv, NEW c \in Calls, NEW n \in 0..MaxLength, AppendBegins(c, n)
    PROVE  IInv'
<1>1. Begins(c, "append", "draining", n, 0) /\ MayBegin(c, "append") /\ UNCHANGED <<files, others>>
    BY DEF AppendBegins
<1>2. KindFits("append", "draining") /\ "append" \in Kinds /\ "draining" \in Awaits
      /\ 0 \in 0..MaxLength
    BY Constants DEF KindFits, Kinds, Awaits, CompletesAt, Copying, Publishes, Finishing
<1>3. CallsSound' /\ (\A d \in Calls : d # c => call'[d] = call[d]) /\ call'[c].pc = "draining"
    BY <1>1, <1>2, BeginsAt DEF IInv
<1>4. call'[c].pc \in Planless
    BY <1>3 DEF Planless, AppendsAt
<1> QED BY <1>1, <1>3, <1>4, PlanlessPlanned, CallKeeps

\* An append that is refused at once changes nothing.
LEMMA AppendRefusedKeeps ==
    ASSUME IInv, NEW c \in Calls, NEW n \in 0..MaxLength, AppendRefused(c, n)
    PROVE  IInv'
<1>1. UNCHANGED <<files, others>>
      /\ \E pc \in {"not-found", "conflict"} : Ends(c, "append", pc, 0, 0)
    BY DEF AppendRefused, AnswersAtOnce
<1>2. {"not-found", "conflict"} \subseteq Ended \ {"complete"} /\ "append" \in Kinds
    BY DEF Ended, Kinds
<1> QED BY <1>1, <1>2, EndsKeeps, Constants

\* A chunk changes the data file alone, which stays within its bound.
LEMMA ChunkArrivesKeeps ==
    ASSUME IInv, NEW c \in Calls, ChunkArrives(c)
    PROVE  IInv'
<1> USE DEF IInv
<1>1. /\ call[c].pc = "draining" /\ End(c) < MaxLength
      /\ data' = Written(data, End(c), c)
      /\ call' = [call EXCEPT ![c].flushed = @ + 1]
      /\ UNCHANGED <<dir, rec, named, staged, displaced, object, others>>
    BY DEF ChunkArrives, End
<1>2. Moved(c) /\ call'[c] \in Locals /\ call'[c].pc = "draining"
      /\ call'[c].kind = call[c].kind /\ call'[c].offset + call'[c].flushed <= MaxLength
  <2>1. call'[c] = [call[c] EXCEPT !.flushed = @ + 1] /\ Moved(c)
    BY <1>1 DEF Moved, CallsSound, CallsTyped
  <2>2. call[c].flushed + 1 \in 0..MaxLength /\ call[c].offset + (call[c].flushed + 1) <= MaxLength
    BY <1>1, CallIs, Constants
  <2>3. call[c] \in Locals
    BY CallIs
  <2>4. call'[c] \in Locals
    BY <2>1, <2>2, <2>3 DEF Locals
  <2>5. call'[c].pc = call[c].pc /\ call'[c].kind = call[c].kind /\ call'[c].offset = call[c].offset
        /\ call'[c].flushed = call[c].flushed + 1
    BY <2>1, <2>3 DEF Locals
  <2> QED BY <1>1, <2>1, <2>2, <2>4, <2>5
<1>3. CallsSound' /\ \A d \in Calls : d # c => call'[d] = call[d]
  <2>1. KindFits(call'[c].kind, call'[c].pc) /\ Running(c)
    BY <1>1, <1>2 DEF CallsSound, Kinded, Running, Awaits
  <2> QED BY <1>2, <2>1, MovedIsSound
<1>4. data' \in Bytes
    BY <1>1, CallIs, WrittenIs DEF FilesTyped
<1>5. FilesTyped' /\ HistorySound' /\ RecordsSound'
    BY <1>1, <1>4 DEF others, FilesTyped, HistorySound, RecordsSound
<1>6. call'[c].pc \in Planless
    BY <1>2 DEF Planless, AppendsAt
<1>7. rec' = rec /\ published' = published /\ dir' = dir /\ staged' = staged
    BY <1>1 DEF others
<1> QED BY <1>3, <1>5, <1>6, <1>7, PlanlessPlanned, StepKeeps

\* A body that ends sends its append to the fence, or ends it.
LEMMA BodyEndsKeeps ==
    ASSUME IInv, NEW c \in Calls, NEW ending \in {"kept", "overrun"}, BodyEnds(c, ending)
    PROVE  IInv'
<1> USE DEF IInv
<1> DEFINE pc == IF named THEN "fencing" ELSE "not-found"
<1>1. /\ call[c].pc = "draining" /\ UNCHANGED <<files, others>>
      /\ call'[c] = [call[c] EXCEPT !.ending = ending, !.pc = pc] /\ Moved(c)
    BY DEF BodyEnds, Moved, CallsSound, CallsTyped
<1>2. call'[c] \in Locals /\ call'[c].pc \in {"fencing", "not-found"}
      /\ call'[c].kind = call[c].kind /\ call'[c].offset + call'[c].flushed <= MaxLength
  <2>1. call[c] \in Locals
    BY CallIs
  <2>2. pc \in Awaits \cup Ended
    BY DEF Awaits, Ended
  <2> HIDE DEF pc
  <2>3. call'[c] \in Locals /\ call'[c].pc = pc /\ call'[c].kind = call[c].kind
        /\ call'[c].offset = call[c].offset /\ call'[c].flushed = call[c].flushed
    BY <1>1, <2>1, <2>2 DEF Locals
  <2> QED BY <2>3, CallIs, Constants DEF pc
<1>3. KindFits(call'[c].kind, call'[c].pc) /\ Running(c) /\ call[c].kind = "append"
    BY <1>1, <1>2 DEF CallsSound, Kinded, KindFits, Running, Awaits, AppendsAt, CompletesAt,
           Copying, Publishes, Finishing
<1>4. CallsSound' /\ \A d \in Calls : d # c => call'[d] = call[d]
    BY <1>1, <1>2, <1>3, MovedIsSound
<1>5. call'[c].pc \in Planless
    BY <1>2 DEF Planless, AppendsAt, Ended
<1> QED BY <1>1, <1>4, <1>5, PlanlessPlanned, CallKeeps

\* At the fence an append takes back, goes on, or ends.
LEMMA FenceKeeps ==
    ASSUME IInv, NEW c \in Calls, Fence(c)
    PROVE  IInv'
<1> USE DEF IInv
<1>1. call[c].pc = "fencing" /\ call[c].kind = "append" /\ Running(c) /\ UNCHANGED <<files, others>>
    BY DEF Fence, CallsSound, Kinded, KindFits, AppendsAt, Running, Awaits
<1>2. ASSUME NEW pc \in {"not-found", "conflict"}, Answers(c, pc, 0) PROVE IInv'
  <2>1. pc \in Ended \ {"complete"}
    BY DEF Ended
  <2> QED BY <1>1, <1>2, <2>1, AnswersKeeps, Constants
<1>3. CASE Settled /\ TakesBack(c)
           /\ call' = [call EXCEPT ![c].pc = "truncating", ![c].told = Kept(c), ![c].seal = rec.seal]
  <2>1. rec.seal \in Seals /\ Kept(c) \in 0..MaxLength
    <3>1. rec.seal # None /\ rec.seal \in Seals
      BY <1>3 DEF TakesBack, Settled, Published, FilesTyped, Records, RecordsSound
    <3> QED BY <3>1, CallIs, Constants DEF Kept, Seals
  <2>2. call'[c] = [call[c] EXCEPT !.pc = "truncating", !.told = Kept(c), !.seal = rec.seal]
        /\ Moved(c)
    BY <1>3 DEF Moved, CallsSound, CallsTyped
  <2>3. call'[c] \in Locals /\ call'[c].pc = "truncating" /\ call'[c].kind = "append"
        /\ call'[c].offset = call[c].offset /\ call'[c].flushed = call[c].flushed
    BY <1>1, <2>1, <2>2, CallIs, ZenonT(60) DEF Locals, Awaits
  <2>4. KindFits(call'[c].kind, call'[c].pc) /\ call'[c].offset + call'[c].flushed <= MaxLength
    BY <2>3, CallIs, Constants DEF KindFits, AppendsAt, CompletesAt, Copying, Publishes, Finishing
  <2>5. CallsSound' /\ \A d \in Calls : d # c => call'[d] = call[d]
    BY <1>1, <2>2, <2>3, <2>4, MovedIsSound
  <2>6. call'[c].pc \in Planless
    BY <2>3 DEF Planless, AppendsAt
  <2> QED BY <1>1, <2>5, <2>6, PlanlessPlanned, CallKeeps
<1>4. CASE Goes(c, "noting")
  <2>1. KindFits(call[c].kind, "noting") /\ "noting" \in Awaits
    BY <1>1 DEF KindFits, Awaits, AppendsAt, CompletesAt, Copying, Publishes, Finishing
  <2>2. CallsSound' /\ (\A d \in Calls : d # c => call'[d] = call[d]) /\ call'[c].pc = "noting"
    BY <1>1, <1>4, <2>1, GoesOn
  <2>3. call'[c].pc \in Planless
    BY <2>2 DEF Planless, AppendsAt
  <2> QED BY <1>1, <2>2, <2>3, PlanlessPlanned, CallKeeps
<1> QED BY <1>2, <1>3, <1>4 DEF Fence, SealedMeanwhile

\* What is taken back leaves a file within its bound.
LEMMA TruncateKeeps ==
    ASSUME IInv, NEW c \in Calls, Truncate(c)
    PROVE  IInv'
<1> USE DEF IInv
<1>1. /\ data' = Truncated(data, call[c].told)
      /\ Answers(c, "conflict", 0)
      /\ UNCHANGED <<dir, rec, named, staged, displaced, object, others>>
    BY DEF Truncate
<1>2. "conflict" \in Ended \ {"complete"} /\ 0 \in 0..MaxLength
    BY Constants DEF Ended
<1>3. CallsSound' /\ (\A d \in Calls : d # c => call'[d] = call[d]) /\ call'[c].pc \in Planless
  <2>1. call'[c].pc = "conflict" /\ CallsSound' /\ \A d \in Calls : d # c => call'[d] = call[d]
    BY <1>1, <1>2, AnswersAt
  <2> QED BY <1>2, <2>1 DEF Planless
<1>4. data' \in Bytes
    BY <1>1, CallIs, TruncatedIs DEF FilesTyped
<1>5. FilesTyped' /\ HistorySound' /\ RecordsSound'
    BY <1>1, <1>4 DEF others, FilesTyped, HistorySound, RecordsSound
<1>6. rec' = rec /\ published' = published /\ dir' = dir /\ staged' = staged
    BY <1>1 DEF others
<1> QED BY <1>3, <1>5, <1>6, PlanlessPlanned, StepKeeps

\* The invalidation is no part of the plan.
LEMMA NoteKeeps ==
    ASSUME IInv, NEW c \in Calls, Note(c)
    PROVE  IInv'
<1> USE DEF IInv
<1>1. /\ \E pc \in {"not-found", "overrun", "wrote"}, n \in {0, End(c)} :
             Ends(c, call[c].kind, pc, call[c].offset, n)
      /\ UNCHANGED <<dir, data, named, staged, displaced, object, others>>
      /\ rec' \in {rec, [rec EXCEPT !.invalidated = TRUE]}
    BY DEF Note, Answers, files
<1>2. {"not-found", "overrun", "wrote"} \subseteq Ended \ {"complete"} /\ 0 \in 0..MaxLength
    BY Constants DEF Ended
<1>3. CallsSound' /\ (\A d \in Calls : d # c => call'[d] = call[d]) /\ call'[c].pc \in Planless
  <2>1. PICK pc \in {"not-found", "overrun", "wrote"}, n \in {0, End(c)} :
             Ends(c, call[c].kind, pc, call[c].offset, n)
    BY <1>1
  <2>2. pc \in Ended \ {"complete"} /\ n \in 0..MaxLength
    BY <1>2, CallIs
  <2> QED BY <2>1, <2>2, CallIs, EndsAt, ZenonT(60) DEF Planless
<1>4. rec' \in Records /\ rec'.seal = rec.seal /\ rec'.publication = rec.publication
      /\ rec'.completion = rec.completion
    BY <1>1 DEF FilesTyped, Records
<1>5. FilesTyped' /\ HistorySound' /\ RecordsSound'
    BY <1>1, <1>4 DEF others, FilesTyped, HistorySound, RecordsSound
<1>6. published' = published /\ dir' = dir /\ staged' = staged
    BY <1>1 DEF others
<1> QED BY <1>3, <1>4, <1>5, <1>6, PlanlessPlanned, StepKeeps

-------------------------------------------------------------------------------
(* completeUpload, up to the copy *)

\* A call of a completion, and what it is at.
LEMMA CompletionAt ==
    ASSUME IInv, NEW c \in Calls, call[c].pc \in CompletesAt
    PROVE  call[c].kind = "complete" /\ Running(c) /\ Planned(c)
    BY DEF IInv, CallsSound, Kinded, KindFits, Running, Awaits, CompletesAt, Copying, Publishes

\* A completion may go on to any of its places.
LEMMA CompletionFits ==
    \A pc \in CompletesAt \cup Finishing \cup {"restoring", "returned"} \cup Ended :
        pc \in Awaits \cup Ended /\ KindFits("complete", pc)
    BY DEF KindFits, Awaits, Ended, AppendsAt, CompletesAt, Copying, Publishes, Finishing

\* A completion begins by what the records say when it reads them.
LEMMA CompleteBeginsKeeps ==
    ASSUME IInv, NEW c \in Calls, NEW n \in 0..MaxLength, CompleteBegins(c, n)
    PROVE  IInv'
<1> USE DEF IInv
<1>1. MayBegin(c, "complete") /\ UNCHANGED <<files, others>> /\ "complete" \in Kinds
      /\ 0 \in 0..MaxLength
    BY Constants DEF CompleteBegins, Kinds
<1>2. ASSUME NEW pc \in {"not-found", "failed", "conflict"}, AnswersAtOnce(c, "complete", pc, 0)
      PROVE  IInv'
  <2>1. pc \in Ended \ {"complete"}
    BY DEF Ended
  <2> QED BY <1>1, <1>2, <2>1, EndsKeeps DEF AnswersAtOnce
<1>3. CASE Published /\ AnswersAtOnce(c, "complete", "complete", rec.completion)
  <2>1. rec.completion \in 0..MaxLength /\ rec.publication \in published
        /\ rec.completion = Len(rec.publication.body) /\ "complete" \in Ended
    BY <1>3, Constants DEF Published, FilesTyped, HistorySound, Records, RecordsSound, Ended
  <2>2. Ends(c, "complete", "complete", 0, rec.completion)
    BY <1>3 DEF AnswersAtOnce
  <2>3. CallsSound' /\ (\A d \in Calls : d # c => call'[d] = call[d])
        /\ call'[c].pc = "complete" /\ call'[c].told = rec.completion
    BY <1>1, <2>1, <2>2, EndsAt
  <2>4. Planned(c)'
    BY <1>1, <2>1, <2>3 DEF files, others, Planned, Sealed, WithCopy, Copying, Publishes, Finishing
  <2> QED BY <1>1, <2>3, <2>4, CallKeeps
<1>4. CASE rec.publication = None /\ Begins(c, "complete", "lifting", 0, n)
  <2>1. KindFits("complete", "lifting") /\ "lifting" \in Awaits
    BY CompletionFits DEF CompletesAt, Awaits
  <2>2. CallsSound' /\ (\A d \in Calls : d # c => call'[d] = call[d])
        /\ call'[c].pc = "lifting" /\ call'[c].publication = None
    BY <1>1, <1>4, <2>1, BeginsAt
  <2>3. Planned(c)'
    BY <1>1, <1>4, <2>2 DEF files, Planned, Sealed, WithCopy, Copying, Publishes, Finishing
  <2> QED BY <1>1, <2>2, <2>3, CallKeeps
<1>5. CASE call' = [call EXCEPT ![c] = [Idle EXCEPT
              !.kind = "complete", !.expected = n,
              !.pc = IF rec.seal = None THEN "surveying" ELSE "checking",
              !.seal = rec.seal, !.publication = rec.publication]]
  <2> DEFINE pc == IF rec.seal = None THEN "surveying" ELSE "checking"
  <2>1. call'[c] = [Idle EXCEPT !.kind = "complete", !.expected = n, !.pc = pc,
                                !.seal = rec.seal, !.publication = rec.publication]
        /\ Moved(c)
    BY <1>5 DEF Moved, CallsSound, CallsTyped
  <2>2. rec.seal \in Seals \cup {None} /\ rec.publication \in Copies \cup {None}
    BY DEF FilesTyped, Records
  <2> HIDE DEF pc
  <2>3. pc \in Awaits /\ KindFits("complete", pc)
    <3>1. pc \in {"surveying", "checking"}
      BY DEF pc
    <3> QED BY <3>1, CompletionFits DEF CompletesAt, Awaits
  <2>4. call'[c] \in Locals /\ call'[c].pc = pc /\ call'[c].kind = "complete"
        /\ call'[c].offset = 0 /\ call'[c].flushed = 0
        /\ call'[c].seal = rec.seal /\ call'[c].publication = rec.publication
    BY <1>1, <2>1, <2>2, <2>3, IdleIs, ZenonT(60) DEF Locals
  <2>5. \A d \in Calls : Running(d) => {call'[c].kind, call[d].kind} \in Overlaps
    BY <1>1, <2>4 DEF MayBegin
  <2>6. CallsSound' /\ \A d \in Calls : d # c => call'[d] = call[d]
    <3>1. KindFits(call'[c].kind, call'[c].pc) /\ call'[c].offset + call'[c].flushed <= MaxLength
      BY <2>3, <2>4, Constants
    <3> QED BY <2>1, <2>4, <2>5, <3>1, MovedIsSound
  <2>7. Planned(c)'
    BY <1>1, <2>4 DEF pc, files, Planned, RecordsSound, Sealed, WithCopy, Copying, Publishes,
           Finishing
  <2> QED BY <1>1, <2>6, <2>7, CallKeeps
<1> QED BY <1>2, <1>3, <1>4, <1>5 DEF CompleteBegins

\* The seal is lifted only before a copy has been named for it.
LEMMA Lifts ==
    ASSUME OneCompletion, IInv, NEW c \in Calls, call[c].kind = "complete", Running(c),
           rec.publication = None, LiftSeal,
           UNCHANGED <<dir, data, named, staged, displaced, object, others>>,
           CallsSound', \A d \in Calls : d # c => call'[d] = call[d], Planned(c)'
    PROVE  IInv'
<1>1. rec' \in Records /\ rec'.publication = None /\ rec'.completion = rec.completion
      /\ rec.completion = None
  <2>1. rec' \in Records /\ rec'.publication = rec.publication /\ rec'.completion = rec.completion
    BY DEF IInv, FilesTyped, Records, LiftSeal
  <2> QED BY <2>1, Constants DEF IInv, HistorySound, RecordsSound
<1>2. FilesTyped' /\ HistorySound'
    BY <1>1 DEF IInv, FilesTyped, HistorySound, others
<1>3. RecordsSound'
    BY <1>1 DEF IInv, RecordsSound, others
<1>4. \A d \in Calls : d # c => Planned(d)'
    BY OthersBeside DEF others
<1> QED BY <1>2, <1>3, <1>4 DEF IInv

\* A seal is lifted where there is no publication, and no other completion.
LEMMA LiftKeeps ==
    ASSUME OneCompletion, IInv, NEW c \in Calls, Lift(c)
    PROVE  IInv'
<1>1. /\ call[c].pc = "lifting" /\ LiftSeal /\ Goes(c, "surveying")
      /\ UNCHANGED <<dir, data, named, staged, displaced, object, others>>
    BY DEF Lift
<1>2. call[c].kind = "complete" /\ Running(c) /\ Planned(c)
    BY <1>1, CompletionAt DEF CompletesAt
<1>3. rec.publication = None /\ call[c].publication = None
    BY <1>1, <1>2 DEF Planned
<1>4. CallsSound' /\ (\A d \in Calls : d # c => call'[d] = call[d])
      /\ call'[c].pc = "surveying" /\ call'[c].publication = None
    BY <1>1, <1>2, <1>3, CompletionFits, GoesOn DEF IInv, CompletesAt
<1>5. Planned(c)'
    BY <1>4 DEF Planned, Sealed, WithCopy, Copying, Publishes, Finishing
<1> QED BY <1>1, <1>2, <1>3, <1>4, <1>5, Lifts

\* A plan that is given up had no publication.
LEMMA MislaidKeeps ==
    ASSUME OneCompletion, IInv, NEW c \in Calls, Mislaid(c)
    PROVE  IInv'
<1>1. /\ call[c].pc = "mislaid" /\ LiftSeal /\ Goes(c, "conflict")
      /\ UNCHANGED <<dir, data, named, staged, displaced, object, others>>
    BY DEF Mislaid
<1>2. call[c].kind = "complete" /\ Running(c) /\ Planned(c)
    BY <1>1, CompletionAt DEF CompletesAt, Copying
<1>3. rec.publication = None
    BY <1>1, <1>2 DEF Planned, Copying
<1>4. CallsSound' /\ (\A d \in Calls : d # c => call'[d] = call[d]) /\ call'[c].pc = "conflict"
  <2>1. "conflict" \in Ended /\ KindFits(call[c].kind, "conflict")
    BY <1>2, CompletionFits DEF Ended
  <2> QED BY <1>1, <1>2, <2>1, GoesOn DEF IInv
<1>5. Planned(c)'
    BY <1>4, PlanlessPlanned DEF Planless, Ended
<1> QED BY <1>1, <1>2, <1>3, <1>4, <1>5, Lifts

\* What the key names is no plan yet.
LEMMA SurveyKeeps ==
    ASSUME IInv, NEW c \in Calls, Survey(c)
    PROVE  IInv'
<1> USE DEF IInv
<1>1. /\ call[c].pc = "surveying" /\ UNCHANGED <<files, others>>
      /\ call'[c] = [call[c] EXCEPT !.pc = "sealing", !.destination = object] /\ Moved(c)
    BY DEF Survey, Moved, CallsSound, CallsTyped
<1>2. call[c].kind = "complete" /\ Running(c) /\ Planned(c)
    BY <1>1, CompletionAt DEF CompletesAt
<1>3. object \in Objects /\ call[c] \in Locals /\ "sealing" \in Awaits
    BY CallIs DEF FilesTyped, Awaits
<1>4. call'[c] \in Locals /\ call'[c].pc = "sealing" /\ call'[c].kind = "complete"
      /\ call'[c].offset = call[c].offset /\ call'[c].flushed = call[c].flushed
      /\ call'[c].publication = call[c].publication
    BY <1>1, <1>2, <1>3 DEF Locals
<1>5. KindFits("complete", "sealing") /\ call'[c].offset + call'[c].flushed <= MaxLength
    BY <1>4, CallIs, Constants, CompletionFits DEF CompletesAt
<1>6. CallsSound' /\ \A d \in Calls : d # c => call'[d] = call[d]
    BY <1>1, <1>2, <1>4, <1>5, MovedIsSound
<1>7. Planned(c)'
    BY <1>1, <1>2, <1>4 DEF files, Planned, Sealed, WithCopy, Copying, Publishes, Finishing
<1> QED BY <1>1, <1>6, <1>7, CallKeeps

\* A completion that takes up a seal, its own or an earlier one's.
LEMMA TakesUp ==
    ASSUME CallsSound, NEW c \in Calls, call[c].kind = "complete", Running(c), Moved(c),
           call'[c] = [call[c] EXCEPT !.pc = "checking", !.seal = call'[c].seal,
                                      !.publication = call'[c].publication],
           call'[c].seal \in Seals, call'[c].publication \in Copies \cup {None}
    PROVE  /\ CallsSound' /\ \A d \in Calls : d # c => call'[d] = call[d]
           /\ call'[c].pc = "checking"
<1> DEFINE seal == call'[c].seal
           copy == call'[c].publication
<1>1. call[c] \in Locals /\ "checking" \in Awaits /\ seal \in Seals \cup {None}
    BY CallIs DEF Awaits
<1>2. call'[c].pc = "checking" /\ call'[c].kind = "complete"
      /\ call'[c].offset = call[c].offset /\ call'[c].flushed = call[c].flushed
    BY <1>1 DEF Locals
<1>3. call'[c] \in Locals
  <2> HIDE DEF seal, copy
  <2>1. \A s \in Seals \cup {None}, p \in Copies \cup {None} :
            [call[c] EXCEPT !.pc = "checking", !.seal = s, !.publication = p] \in Locals
    BY <1>1 DEF Locals
  <2> QED BY <1>1, <2>1, ZenonT(60) DEF seal, copy
<1>4. KindFits(call'[c].kind, call'[c].pc) /\ call'[c].offset + call'[c].flushed <= MaxLength
    BY <1>2, CallIs, Constants, CompletionFits DEF CompletesAt
<1> QED BY <1>2, <1>3, <1>4, MovedIsSound

\* Where there is no seal there is no publication and no call that goes by one.
LEMMA SealCreatedKeeps ==
    ASSUME OneCompletion, IInv, NEW c \in Calls, SealCreated(c)
    PROVE  IInv'
<1> DEFINE seal == [length |-> call[c].expected, destination |-> call[c].destination]
<1>1. /\ call[c].pc = "sealing" /\ dir = "live" /\ rec.seal = None
      /\ rec' = [rec EXCEPT !.seal = seal]
      /\ call' = [call EXCEPT ![c].pc = "checking", ![c].seal = seal]
      /\ UNCHANGED <<dir, data, named, staged, displaced, object, others>>
    BY DEF SealCreated
<1>2. call[c].kind = "complete" /\ Running(c) /\ Planned(c)
    BY <1>1, CompletionAt DEF CompletesAt
<1>3. call[c].publication = None /\ rec.publication = None /\ rec.completion = None
    BY <1>1, <1>2, Constants DEF Planned, IInv, HistorySound, RecordsSound
<1>4. seal \in Seals
    BY CallIs DEF IInv, Seals, Objects
<1> HIDE DEF seal
<1>5. Moved(c) /\ call'[c] = [call[c] EXCEPT !.pc = "checking", !.seal = seal]
    BY <1>1 DEF Moved, IInv, CallsSound, CallsTyped
<1>6. CallsSound' /\ (\A d \in Calls : d # c => call'[d] = call[d])
      /\ call'[c].pc = "checking" /\ call'[c].seal = seal /\ call'[c].publication = None
  <2>1. call[c] \in Locals
    BY CallIs DEF IInv
  <2>2. call'[c].seal = seal /\ call'[c].publication = None
    BY <1>3, <1>5, <2>1 DEF Locals
  <2>3. call'[c] = [call[c] EXCEPT !.pc = "checking", !.seal = seal, !.publication = None]
    BY <1>3, <1>5, <2>1 DEF Locals
  <2> QED BY <1>2, <1>4, <1>5, <2>2, <2>3, TakesUp DEF IInv
<1>7. rec' \in Records /\ rec'.seal = seal /\ rec'.publication = None /\ rec'.completion = None
    BY <1>1, <1>3, <1>4 DEF IInv, FilesTyped, Records
<1>8. FilesTyped' /\ HistorySound'
    BY <1>1, <1>7 DEF IInv, FilesTyped, HistorySound, others
<1>9. RecordsSound'
    BY <1>1, <1>3, <1>7 DEF IInv, RecordsSound, others
<1>10. Planned(c)'
    BY <1>4, <1>6, <1>7, Constants DEF Planned, Sealed, WithCopy, Copying, Publishes, Finishing
<1>11. \A d \in Calls : d # c => Planned(d)'
    BY <1>1, <1>2, <1>3, <1>6, OthersBeside DEF others
<1> QED BY <1>6, <1>8, <1>9, <1>10, <1>11 DEF IInv

\* A seal that is already there is adopted as it is, with its publication.
LEMMA SealExistsKeeps ==
    ASSUME IInv, NEW c \in Calls, SealExists(c)
    PROVE  IInv'
<1>1. call[c].pc = "sealing" /\ (dir = "live" => rec.seal # None) /\ UNCHANGED <<files, others>>
    BY DEF SealExists
<1>2. call[c].kind = "complete" /\ Running(c) /\ Planned(c)
    BY <1>1, CompletionAt DEF CompletesAt
<1>3. ASSUME NEW pc \in {"not-found", "conflict"}, Answers(c, pc, 0) PROVE IInv'
  <2>1. pc \in Ended \ {"complete"}
    BY DEF Ended
  <2> QED BY <1>1, <1>3, <2>1, AnswersKeeps, Constants
<1>4. CASE Found /\ call' = [call EXCEPT ![c].pc = "checking", ![c].seal = rec.seal,
                                          ![c].publication = rec.publication]
  <2>1. rec.seal \in Seals /\ rec.publication \in Copies \cup {None}
    BY <1>1, <1>4 DEF Found, IInv, FilesTyped, Records
  <2>2. CallsSound' /\ (\A d \in Calls : d # c => call'[d] = call[d])
        /\ call'[c].pc = "checking" /\ call'[c].seal = rec.seal
        /\ call'[c].publication = rec.publication
    <3>1. Moved(c) /\ call'[c] = [call[c] EXCEPT !.pc = "checking", !.seal = rec.seal,
                                                  !.publication = rec.publication]
      BY <1>4 DEF Moved, IInv, CallsSound, CallsTyped
    <3>2. call'[c].seal = rec.seal /\ call'[c].publication = rec.publication
      BY <3>1, CallIs DEF IInv, Locals
    <3> QED BY <1>2, <2>1, <3>1, <3>2, TakesUp DEF IInv
  <2>3. Planned(c)'
    BY <1>1, <2>1, <2>2, Constants DEF files, Planned, Sealed, WithCopy, Copying, Publishes, Finishing
  <2> QED BY <1>1, <2>2, <2>3, CallKeeps
<1> QED BY <1>1, <1>3, <1>4 DEF SealExists

\* A completion records what is at the key, or stages what is not.
LEMMA CheckKeyKeeps ==
    ASSUME IInv, NEW c \in Calls, CheckKey(c)
    PROVE  IInv'
<1>1. call[c].pc = "checking" /\ UNCHANGED <<files, others>>
    BY DEF CheckKey
<1>2. call[c].kind = "complete" /\ Running(c) /\ Planned(c)
    BY <1>1, CompletionAt DEF CompletesAt
<1>3. ASSUME NEW pc \in {"recording", "staging", "restaging"}, Goes(c, pc),
             call[c].publication = None <=> pc = "staging"
      PROVE  IInv'
  <2>1. pc \in Awaits \cup Ended /\ KindFits("complete", pc)
    BY CompletionFits DEF CompletesAt, Copying, Finishing
  <2>2. CallsSound' /\ (\A d \in Calls : d # c => call'[d] = call[d]) /\ call'[c].pc = pc
        /\ call'[c].seal = call[c].seal /\ call'[c].publication = call[c].publication
    BY <1>2, <1>3, <2>1, GoesOn DEF IInv
  <2>3. rec.seal # None /\ call[c].seal = rec.seal /\ call[c].publication = rec.publication
    BY <1>1, <1>2 DEF Planned, Sealed
  <2>4. Planned(c)'
    BY <1>1, <1>3, <2>2, <2>3 DEF files, Planned, Sealed, WithCopy, Copying, Publishes, Finishing
  <2> QED BY <1>1, <2>2, <2>4, CallKeeps
<1> QED BY <1>3 DEF CheckKey, AtKey

-------------------------------------------------------------------------------
(* completeUpload, from the copy to the record *)

\* A completion that goes on, or ends where it was.
LEMMA CompletionGoes ==
    ASSUME IInv, NEW c \in Calls, call[c].kind = "complete", Running(c),
           NEW pc \in CompletesAt \cup Finishing \cup {"restoring", "returned"} \cup Ended,
           Goes(c, pc)
    PROVE  /\ CallsSound' /\ \A d \in Calls : d # c => call'[d] = call[d]
           /\ call'[c].pc = pc /\ call'[c].seal = call[c].seal
           /\ call'[c].publication = call[c].publication
<1>1. pc \in Awaits \cup Ended /\ KindFits(call[c].kind, pc)
    BY CompletionFits
<1> QED BY <1>1, GoesOn DEF IInv

\* A completion that changes what is staged, and itself.
LEMMA StagingKeeps ==
    ASSUME OneCompletion, IInv, NEW c \in Calls, call[c].kind = "complete", Running(c),
           staged' \in Copies \cup {None},
           UNCHANGED <<dir, rec, data, named, displaced, object, others>>,
           CallsSound', \A d \in Calls : d # c => call'[d] = call[d], Planned(c)'
    PROVE  IInv'
<1>1. FilesTyped' /\ HistorySound' /\ RecordsSound'
    BY DEF IInv, FilesTyped, HistorySound, RecordsSound, others
<1>2. \A d \in Calls : d # c => Planned(d)'
    BY OthersBeside DEF others
<1> QED BY <1>1, <1>2 DEF IInv

\* What an earlier attempt staged goes on only as the copy recorded.
LEMMA CheckStagedKeeps ==
    ASSUME IInv, NEW c \in Calls, CheckStaged(c)
    PROVE  IInv'
<1>1. call[c].pc = "restaging" /\ UNCHANGED <<files, others>>
    BY DEF CheckStaged
<1>2. call[c].kind = "complete" /\ Running(c) /\ Planned(c)
    BY <1>1, CompletionAt DEF CompletesAt
<1>3. rec.seal # None /\ call[c].seal = rec.seal
      /\ rec.publication # None /\ call[c].publication = rec.publication
    BY <1>1, <1>2 DEF Planned, Sealed, WithCopy
<1>4. CASE InDir(staged) = call[c].publication /\ Goes(c, "verifying")
  <2>1. staged = call[c].publication
    BY <1>3, <1>4 DEF InDir
  <2>2. CallsSound' /\ (\A d \in Calls : d # c => call'[d] = call[d]) /\ call'[c].pc = "verifying"
        /\ call'[c].seal = call[c].seal /\ call'[c].publication = call[c].publication
    BY <1>2, <1>4, CompletionGoes DEF CompletesAt
  <2>3. Planned(c)'
    BY <1>1, <1>3, <2>1, <2>2 DEF files, Planned, Sealed, WithCopy, Copying, Publishes, Finishing
  <2> QED BY <1>1, <2>2, <2>3, CallKeeps
<1>5. CASE Answers(c, "destination", 0)
    BY <1>1, <1>5, AnswersKeeps, Constants DEF Ended
<1> QED BY <1>4, <1>5 DEF CheckStaged

\* What is cleared was staged for no call that is still under way.
LEMMA ClearStageKeeps ==
    ASSUME OneCompletion, IInv, NEW c \in Calls, ClearStage(c)
    PROVE  IInv'
<1>1. /\ call[c].pc = "staging" /\ staged' \in {None, staged} /\ Goes(c, "copying")
      /\ UNCHANGED <<dir, rec, data, named, displaced, object, others>>
    BY DEF ClearStage
<1>2. call[c].kind = "complete" /\ Running(c) /\ Planned(c)
    BY <1>1, CompletionAt DEF CompletesAt, Copying
<1>3. CallsSound' /\ (\A d \in Calls : d # c => call'[d] = call[d]) /\ call'[c].pc = "copying"
      /\ call'[c].seal = call[c].seal
    BY <1>1, <1>2, CompletionGoes DEF CompletesAt, Copying
<1>4. Planned(c)'
    BY <1>1, <1>2, <1>3 DEF Planned, Sealed, WithCopy, Copying, Publishes, Finishing
<1>5. staged' \in Copies \cup {None}
    BY <1>1 DEF IInv, FilesTyped
<1> QED BY <1>1, <1>2, <1>3, <1>4, <1>5, StagingKeeps

\* A copy is made for the one completion under way.
LEMMA CopyKeeps ==
    ASSUME OneCompletion, IInv, NEW c \in Calls, Copy(c)
    PROVE  IInv'
<1>1. /\ call[c].pc = "copying" /\ UNCHANGED <<dir, rec, data, named, displaced, object, others>>
    BY DEF Copy
<1>2. call[c].kind = "complete" /\ Running(c) /\ Planned(c)
    BY <1>1, CompletionAt DEF CompletesAt, Copying
<1>3. ASSUME NEW pc \in {"not-found", "failed"}, Answers(c, pc, 0), staged' = staged PROVE IInv'
  <2>1. pc \in Ended \ {"complete"}
    BY DEF Ended
  <2>2. UNCHANGED <<files, others>>
    BY <1>1, <1>3 DEF files
  <2> QED BY <1>3, <2>1, <2>2, AnswersKeeps, Constants
<1>4. CASE staged' = [by |-> c, edition |-> 0, body |-> data] /\ Goes(c, "measuring")
  <2>1. staged' \in Copies
    BY <1>4, CopiesAre DEF IInv, FilesTyped
  <2>2. CallsSound' /\ (\A d \in Calls : d # c => call'[d] = call[d]) /\ call'[c].pc = "measuring"
        /\ call'[c].seal = call[c].seal
    BY <1>2, <1>4, CompletionGoes DEF CompletesAt, Copying
  <2>3. Planned(c)'
    BY <1>1, <1>2, <2>2 DEF Planned, Sealed, WithCopy, Copying, Publishes, Finishing
  <2> QED BY <1>1, <1>2, <2>1, <2>2, <2>3, StagingKeeps
<1> QED BY <1>3, <1>4 DEF Copy

\* A copy that is named has the sealed length.
LEMMA MeasureKeeps ==
    ASSUME OneCompletion, IInv, NEW c \in Calls, Measure(c)
    PROVE  IInv'
<1>1. call[c].pc = "measuring" /\ UNCHANGED <<dir, rec, data, named, displaced, object, others>>
    BY DEF Measure
<1>2. call[c].kind = "complete" /\ Running(c) /\ Planned(c)
    BY <1>1, CompletionAt DEF CompletesAt, Copying
<1>3. rec.seal # None /\ call[c].seal = rec.seal /\ rec.publication = None
    BY <1>1, <1>2 DEF Planned, Sealed, Copying
<1>4. CASE Answers(c, "failed", 0) /\ staged' = staged
  <2>1. UNCHANGED <<files, others>>
    BY <1>1, <1>4 DEF files
  <2> QED BY <1>4, <2>1, AnswersKeeps, Constants DEF Ended
<1>5. CASE /\ InDir(staged) # None /\ AsSealed(c) /\ staged' = staged
           /\ call' = [call EXCEPT ![c].pc = "naming", ![c].publication = staged]
  <2>1. staged \in Copies /\ call[c] \in Locals /\ "naming" \in Awaits
    BY <1>5, CallIs DEF InDir, IInv, FilesTyped, Awaits
  <2>2. call'[c] = [call[c] EXCEPT !.pc = "naming", !.publication = staged] /\ Moved(c)
    BY <1>5 DEF Moved, IInv, CallsSound, CallsTyped
  <2>3. call'[c] \in Locals /\ call'[c].pc = "naming" /\ call'[c].kind = "complete"
        /\ call'[c].offset = call[c].offset /\ call'[c].flushed = call[c].flushed
        /\ call'[c].seal = call[c].seal /\ call'[c].publication = staged
    BY <1>2, <2>1, <2>2 DEF Locals
  <2>4. KindFits(call'[c].kind, call'[c].pc) /\ call'[c].offset + call'[c].flushed <= MaxLength
    BY <2>3, CallIs, Constants, CompletionFits DEF CompletesAt, IInv
  <2>5. CallsSound' /\ \A d \in Calls : d # c => call'[d] = call[d]
    BY <1>2, <2>2, <2>3, <2>4, MovedIsSound DEF IInv
  <2>6. Len(staged.body) = rec.seal.length
    BY <1>3, <1>5 DEF AsSealed
  <2>7. Planned(c)'
    BY <1>1, <1>3, <1>5, <2>1, <2>3, <2>6, Constants
       DEF Planned, Sealed, WithCopy, Copying, Publishes, Finishing
  <2> QED BY <1>1, <1>2, <1>5, <2>1, <2>5, <2>7, StagingKeeps
<1>6. CASE staged' = None /\ Goes(c, "mislaid")
  <2>1. CallsSound' /\ (\A d \in Calls : d # c => call'[d] = call[d]) /\ call'[c].pc = "mislaid"
        /\ call'[c].seal = call[c].seal
    BY <1>2, <1>6, CompletionGoes DEF CompletesAt, Copying
  <2>2. Planned(c)'
    BY <1>1, <1>3, <2>1 DEF Planned, Sealed, WithCopy, Copying, Publishes, Finishing
  <2> QED BY <1>1, <1>2, <1>6, <2>1, <2>2, StagingKeeps
<1> QED BY <1>4, <1>5, <1>6 DEF Measure

\* The publication is recorded once, under a seal of its length.
LEMMA NameKeeps ==
    ASSUME OneCompletion, IInv, NEW c \in Calls, Name(c)
    PROVE  IInv'
<1>1. call[c].pc = "naming" /\ UNCHANGED <<dir, data, named, staged, displaced, object, others>>
    BY DEF Name
<1>2. call[c].kind = "complete" /\ Running(c) /\ Planned(c)
    BY <1>1, CompletionAt DEF CompletesAt
<1>3. /\ rec.seal # None /\ call[c].seal = rec.seal /\ rec.publication = None
      /\ call[c].publication # None /\ Len(call[c].publication.body) = rec.seal.length
      /\ dir = "live" => staged = call[c].publication
    BY <1>1, <1>2 DEF Planned, Sealed
<1>4. ASSUME NEW pc \in {"not-found", "conflict"}, Answers(c, pc, 0), rec' = rec PROVE IInv'
  <2>1. pc \in Ended \ {"complete"}
    BY DEF Ended
  <2>2. UNCHANGED <<files, others>>
    BY <1>1, <1>4 DEF files
  <2> QED BY <1>4, <2>1, <2>2, AnswersKeeps, Constants
<1>5. CASE rec' = Recorded(call[c].publication) /\ Goes(c, "verifying")
  <2>1. call[c].publication \in Copies
    BY <1>3, CallIs DEF IInv
  <2>2. rec' \in Records /\ rec'.seal = rec.seal /\ rec'.publication = call[c].publication
        /\ rec'.completion = rec.completion
    BY <1>5, <2>1 DEF Recorded, IInv, FilesTyped, Records
  <2>3. published = {}
    BY <1>3, Constants DEF IInv, HistorySound, RecordsSound
  <2>4. FilesTyped' /\ HistorySound'
    BY <1>1, <2>2 DEF IInv, FilesTyped, HistorySound, others
  <2>5. RecordsSound'
    BY <1>1, <1>3, <2>2, <2>3 DEF IInv, RecordsSound, others
  <2>6. CallsSound' /\ (\A d \in Calls : d # c => call'[d] = call[d]) /\ call'[c].pc = "verifying"
        /\ call'[c].seal = call[c].seal /\ call'[c].publication = call[c].publication
    BY <1>2, <1>5, CompletionGoes DEF CompletesAt
  <2>7. Planned(c)'
    BY <1>1, <1>3, <2>2, <2>6 DEF Planned, Sealed, WithCopy, Copying, Publishes, Finishing
  <2>8. \A d \in Calls : d # c => Planned(d)'
    BY <1>1, <1>2, <1>3, <2>6, OthersBeside DEF others
  <2> QED BY <2>4, <2>5, <2>6, <2>7, <2>8 DEF IInv
<1> QED BY <1>4, <1>5 DEF Name

\* A completion displaces only where the seal names an object.
LEMMA VerifyKeeps ==
    ASSUME IInv, NEW c \in Calls, Verify(c)
    PROVE  IInv'
<1>1. call[c].pc = "verifying" /\ UNCHANGED <<files, others>>
    BY DEF Verify
<1>2. call[c].kind = "complete" /\ Running(c) /\ Planned(c)
    BY <1>1, CompletionAt DEF CompletesAt
<1>3. CASE Answers(c, "mismatch", 0)
    BY <1>1, <1>3, AnswersKeeps, Constants DEF Ended
<1>4. ASSUME NEW pc \in {"linking", "displacing"}, Goes(c, pc),
             pc = "displacing" => call[c].seal.destination # None
      PROVE  IInv'
  <2>1. CallsSound' /\ (\A d \in Calls : d # c => call'[d] = call[d]) /\ call'[c].pc = pc
        /\ call'[c].seal = call[c].seal /\ call'[c].publication = call[c].publication
    BY <1>2, <1>4, CompletionGoes DEF CompletesAt, Publishes
  <2>2. Planned(c)'
    BY <1>1, <1>2, <1>4, <2>1 DEF files, Planned, Sealed, WithCopy, Copying, Publishes, Finishing
  <2> QED BY <1>1, <2>1, <2>2, CallKeeps
<1> QED BY <1>3, <1>4 DEF Verify

\* What is moved aside is moved for a plan that stands.
LEMMA DisplaceKeeps ==
    ASSUME IInv, NEW c \in Calls, Displace(c)
    PROVE  IInv'
<1>1. /\ call[c].pc = "displacing" /\ Goes(c, "comparing")
      /\ displaced' \in {displaced, object} /\ object' \in {object, None}
      /\ UNCHANGED <<dir, rec, data, named, staged, others>>
    BY DEF Displace
<1>2. call[c].kind = "complete" /\ Running(c) /\ Planned(c)
    BY <1>1, CompletionAt DEF CompletesAt, Publishes
<1>3. /\ rec.seal # None /\ call[c].seal = rec.seal
      /\ rec.publication # None /\ call[c].publication = rec.publication
      /\ rec.seal.destination # None
    BY <1>1, <1>2 DEF Planned, Sealed, WithCopy, Publishes
<1>4. CallsSound' /\ (\A d \in Calls : d # c => call'[d] = call[d]) /\ call'[c].pc = "comparing"
      /\ call'[c].seal = call[c].seal /\ call'[c].publication = call[c].publication
    BY <1>1, <1>2, CompletionGoes DEF CompletesAt, Publishes
<1>5. Planned(c)'
    BY <1>1, <1>2, <1>3, <1>4 DEF Planned, Sealed, WithCopy, Copying, Publishes, Finishing
<1>6. FilesTyped' /\ HistorySound'
    BY <1>1 DEF IInv, FilesTyped, HistorySound, Objects, others
<1>7. RecordsSound'
    BY <1>1, <1>3, Constants DEF IInv, RecordsSound, others
<1>8. rec' = rec /\ published' = published /\ dir' = dir /\ staged' = staged
    BY <1>1 DEF others
<1> QED BY <1>4, <1>5, <1>6, <1>7, <1>8, StepKeeps

\* Proven or not, the plan stands.
LEMMA CompareKeeps ==
    ASSUME IInv, NEW c \in Calls, Compare(c)
    PROVE  IInv'
<1>1. call[c].pc = "comparing" /\ UNCHANGED <<files, others>>
      /\ \E pc \in {"linking", "restoring"} : Goes(c, pc)
    BY DEF Compare
<1>2. call[c].kind = "complete" /\ Running(c) /\ Planned(c)
    BY <1>1, CompletionAt DEF CompletesAt, Publishes
<1>3. PICK pc \in {"linking", "restoring"} : Goes(c, pc)
    BY <1>1
<1>4. CallsSound' /\ (\A d \in Calls : d # c => call'[d] = call[d]) /\ call'[c].pc = pc
      /\ call'[c].seal = call[c].seal /\ call'[c].publication = call[c].publication
    BY <1>2, <1>3, CompletionGoes DEF CompletesAt, Publishes
<1>5. Planned(c)'
    BY <1>1, <1>2, <1>4 DEF files, Planned, Sealed, WithCopy, Copying, Publishes, Finishing
<1> QED BY <1>1, <1>4, <1>5, CallKeeps

\* A call that puts an object back goes on to where a completion or a cancel does.
LEMMA RestoringGoes ==
    ASSUME IInv, NEW c \in Calls, call[c].pc \in {"restoring", "returned"},
           Goes(c, "returned") \/ Resumes(c)
    PROVE  /\ CallsSound' /\ \A d \in Calls : d # c => call'[d] = call[d]
           /\ call'[c].pc \in Planless
<1>1. Running(c) /\ call[c].kind \in {"complete", "abort"}
    BY DEF IInv, CallsSound, Kinded, KindFits, Running, Awaits
<1>2. PICK pc \in {"returned", "reclaiming", "destination"} :
          Goes(c, pc) /\ (pc = "reclaiming" => call[c].kind = "abort")
    BY DEF Resumes
<1>3. pc \in Awaits \cup Ended /\ pc \in Planless
    BY DEF Awaits, Ended, Planless
<1>4. KindFits(call[c].kind, pc)
    BY <1>1, <1>2 DEF KindFits, AppendsAt, CompletesAt, Copying, Publishes, Finishing
<1> QED BY <1>1, <1>2, <1>3, <1>4, GoesOn DEF IInv

\* What is put back at the key is no copy that was not there before.
LEMMA RestoreKeeps ==
    ASSUME IInv, NEW c \in Calls, Restore(c)
    PROVE  IInv'
<1>1. /\ call[c].pc = "restoring" /\ object' \in {object, displaced}
      /\ UNCHANGED <<dir, rec, data, named, staged, displaced, others>>
      /\ Goes(c, "returned") \/ Resumes(c)
    BY DEF Restore
<1>2. CallsSound' /\ (\A d \in Calls : d # c => call'[d] = call[d]) /\ call'[c].pc \in Planless
    BY <1>1, RestoringGoes
<1>3. FilesTyped' /\ HistorySound' /\ RecordsSound'
    BY <1>1 DEF IInv, FilesTyped, HistorySound, RecordsSound, others
<1>4. rec' = rec /\ published' = published /\ dir' = dir /\ staged' = staged
    BY <1>1 DEF others
<1> QED BY <1>2, <1>3, <1>4, PlanlessPlanned, StepKeeps

\* What was put back is no longer aside.
LEMMA ReturnedKeeps ==
    ASSUME IInv, NEW c \in Calls, Returned(c)
    PROVE  IInv'
<1>1. /\ call[c].pc = "returned" /\ displaced' \in {None, displaced}
      /\ UNCHANGED <<dir, rec, data, named, staged, object, others>> /\ Resumes(c)
    BY DEF Returned
<1>2. CallsSound' /\ (\A d \in Calls : d # c => call'[d] = call[d]) /\ call'[c].pc \in Planless
    BY <1>1, RestoringGoes
<1>3. FilesTyped' /\ HistorySound' /\ RecordsSound'
    BY <1>1, Constants DEF IInv, FilesTyped, Objects, HistorySound, RecordsSound, others
<1>4. rec' = rec /\ published' = published /\ dir' = dir /\ staged' = staged
    BY <1>1 DEF others
<1> QED BY <1>2, <1>3, <1>4, PlanlessPlanned, StepKeeps

\* The copy that is linked is the one the records name.
LEMMA LinkKeeps ==
    ASSUME IInv, NEW c \in Calls, Link(c)
    PROVE  IInv'
<1>1. call[c].pc = "linking"
      /\ UNCHANGED <<dir, rec, data, named, staged, displaced, sweep, editions, sweeps, reaped>>
    BY DEF Link
<1>2. call[c].kind = "complete" /\ Running(c) /\ Planned(c)
    BY <1>1, CompletionAt DEF CompletesAt, Publishes
<1>3. /\ rec.seal # None /\ call[c].seal = rec.seal
      /\ rec.publication # None /\ call[c].publication = rec.publication
      /\ dir = "live" => staged = rec.publication
    BY <1>1, <1>2 DEF Planned, Sealed, WithCopy, Publishes
<1>4. ASSUME NEW pc \in {"destination", "failed"}, Answers(c, pc, 0),
             UNCHANGED <<object, latest, published>>
      PROVE IInv'
  <2>1. pc \in Ended \ {"complete"}
    BY DEF Ended
  <2>2. UNCHANGED <<files, others>>
    BY <1>1, <1>4 DEF files, others
  <2> QED BY <1>4, <2>1, <2>2, AnswersKeeps, Constants
<1>5. ASSUME Goes(c, "unstaging"), latest' \in {None, latest},
             \/ object' = object /\ published' = published
             \/ /\ InDir(staged) # None
                /\ object' = staged /\ published' = published \cup {staged}
      PROVE  IInv'
  <2>1. CallsSound' /\ (\A d \in Calls : d # c => call'[d] = call[d]) /\ call'[c].pc = "unstaging"
        /\ call'[c].seal = call[c].seal /\ call'[c].publication = call[c].publication
    BY <1>2, <1>5, CompletionGoes DEF CompletesAt, Publishes
  <2>2. Planned(c)'
    BY <1>1, <1>3, <2>1 DEF Planned, Sealed, WithCopy, Copying, Publishes, Finishing
  <2>3. InDir(staged) # None => staged = rec.publication /\ staged \in Copies
    BY <1>3 DEF InDir, IInv, FilesTyped
  <2>4. FilesTyped' /\ HistorySound'
    BY <1>1, <1>5, <2>3 DEF IInv, FilesTyped, Objects, HistorySound
  <2>5. RecordsSound'
    BY <1>1, <1>5, <2>3 DEF IInv, RecordsSound
  <2> QED BY <1>1, <1>5, <2>1, <2>2, <2>4, <2>5, StepKeeps
<1> QED BY <1>4, <1>5 DEF Link

\* The names that a completion leaves behind go.
LEMMA TidyKeeps ==
    ASSUME OneCompletion, IInv, NEW c \in Calls, Unstage(c) \/ Clear(c)
    PROVE  IInv'
<1>1. call[c].pc \in {"unstaging", "clearing"}
    BY DEF Unstage, Clear
<1>2. call[c].kind = "complete" /\ Running(c) /\ Planned(c)
    BY <1>1, CompletionAt DEF CompletesAt, Publishes
<1>3. /\ rec.seal # None /\ call[c].seal = rec.seal
      /\ rec.publication # None /\ call[c].publication = rec.publication
    BY <1>1, <1>2 DEF Planned, Sealed, WithCopy, Publishes
<1>4. CASE Unstage(c)
  <2>1. /\ staged' \in {None, staged} /\ Goes(c, "clearing")
        /\ UNCHANGED <<dir, rec, data, named, displaced, object, others>>
    BY <1>4 DEF Unstage
  <2>2. CallsSound' /\ (\A d \in Calls : d # c => call'[d] = call[d]) /\ call'[c].pc = "clearing"
        /\ call'[c].seal = call[c].seal /\ call'[c].publication = call[c].publication
    BY <1>2, <2>1, CompletionGoes DEF CompletesAt, Publishes
  <2>3. Planned(c)'
    BY <1>3, <2>1, <2>2 DEF Planned, Sealed, WithCopy, Copying, Publishes, Finishing
  <2>4. staged' \in Copies \cup {None}
    BY <2>1 DEF IInv, FilesTyped
  <2> QED BY <1>2, <2>1, <2>2, <2>3, <2>4, StagingKeeps
<1>5. CASE Clear(c)
  <2>1. /\ displaced' \in {None, displaced} /\ Goes(c, "recording")
        /\ UNCHANGED <<dir, rec, data, named, staged, object, others>>
    BY <1>5 DEF Clear
  <2>2. CallsSound' /\ (\A d \in Calls : d # c => call'[d] = call[d]) /\ call'[c].pc = "recording"
        /\ call'[c].seal = call[c].seal /\ call'[c].publication = call[c].publication
    BY <1>2, <2>1, CompletionGoes DEF Finishing
  <2>3. Planned(c)'
    BY <1>3, <2>1, <2>2 DEF Planned, Sealed, WithCopy, Copying, Publishes, Finishing
  <2>4. FilesTyped' /\ HistorySound' /\ RecordsSound'
    BY <2>1, Constants DEF IInv, FilesTyped, Objects, HistorySound, RecordsSound, others
  <2>5. rec' = rec /\ published' = published /\ dir' = dir /\ staged' = staged
    BY <2>1 DEF others
  <2> QED BY <2>2, <2>3, <2>4, <2>5, StepKeeps
<1> QED BY <1>4, <1>5

-------------------------------------------------------------------------------
(* The record, of a completion or a read *)

\* A call that records a completion, and the plan it goes by.
LEMMA FinishingAt ==
    ASSUME IInv, NEW c \in Calls, call[c].pc \in Finishing
    PROVE  /\ call[c].kind \in {"complete", "probe"} /\ Running(c)
           /\ rec.seal # None /\ call[c].seal = rec.seal
           /\ rec.publication \in Copies /\ call[c].publication = rec.publication
           /\ Len(rec.publication.body) = rec.seal.length /\ rec.seal.length \in 0..MaxLength
           /\ call[c].pc \in {"settling", "dropping"} => rec.publication \in published
<1>1. call[c].kind \in {"complete", "probe"} /\ Running(c)
    BY DEF IInv, CallsSound, Kinded, KindFits, Running, Awaits, Finishing
<1>2. /\ rec.seal # None /\ call[c].seal = rec.seal
      /\ rec.publication # None /\ call[c].publication = rec.publication
      /\ call[c].pc \in {"settling", "dropping"} => rec.publication \in published
    BY DEF IInv, Planned, Sealed, WithCopy
<1>3. rec.publication \in Copies /\ rec.seal \in Seals
    BY <1>2 DEF IInv, FilesTyped, Records
<1>4. rec.seal.length \in 0..MaxLength
    BY <1>3 DEF Seals
<1> QED BY <1>1, <1>2, <1>3, <1>4 DEF IInv, RecordsSound

\* It goes on to the next of its steps.
LEMMA FinishingGoes ==
    ASSUME IInv, NEW c \in Calls, call[c].pc \in Finishing, NEW pc \in Finishing, Goes(c, pc)
    PROVE  /\ CallsSound' /\ \A d \in Calls : d # c => call'[d] = call[d]
           /\ call'[c].pc = pc /\ call'[c].seal = call[c].seal
           /\ call'[c].publication = call[c].publication
<1>1. KindFits(call[c].kind, pc) /\ pc \in Awaits /\ Running(c)
    BY FinishingAt DEF KindFits, Awaits, AppendsAt, CompletesAt, Copying, Publishes, Finishing
<1> QED BY <1>1, GoesOn DEF IInv

\* A call that answers as complete goes by a copy that has been at the key.
LEMMA AnswersComplete ==
    ASSUME IInv, NEW c \in Calls, NEW n \in 0..MaxLength, Answers(c, "complete", n),
           rec.publication \in published, n = Len(rec.publication.body),
           rec'.publication = rec.publication, published' = published
    PROVE  /\ CallsSound' /\ \A d \in Calls : d # c => call'[d] = call[d]
           /\ Planned(c)'
<1>1. "complete" \in Ended /\ CallsSound
    BY DEF Ended, IInv
<1>2. CallsSound' /\ (\A d \in Calls : d # c => call'[d] = call[d])
      /\ call'[c].pc = "complete" /\ call'[c].told = n
    BY <1>1, AnswersAt
<1> QED BY <1>2 DEF Planned, Sealed, WithCopy, Copying, Publishes, Finishing

\* What is recorded is at the key.
LEMMA RecordKeeps ==
    ASSUME IInv, NEW c \in Calls, Record(c)
    PROVE  IInv'
<1>1. call[c].pc = "recording" /\ call[c].pc \in Finishing /\ UNCHANGED <<files, others>>
    BY DEF Record, Finishing
<1>2. CASE Answers(c, "destination", 0)
    BY <1>1, <1>2, AnswersKeeps, Constants DEF Ended
<1>3. CASE AtKey(call[c].publication) /\ Goes(c, "settling")
  <2>1. rec.publication \in published
    BY <1>1, <1>3, FinishingAt DEF AtKey, IInv, RecordsSound
  <2>2. CallsSound' /\ (\A d \in Calls : d # c => call'[d] = call[d]) /\ call'[c].pc = "settling"
        /\ call'[c].seal = call[c].seal /\ call'[c].publication = call[c].publication
    BY <1>1, <1>3, FinishingGoes DEF Finishing
  <2>3. Planned(c)'
    BY <1>1, <2>1, <2>2, FinishingAt, Constants
       DEF files, others, Planned, Sealed, WithCopy, Copying, Publishes, Finishing
  <2> QED BY <1>1, <2>2, <2>3, CallKeeps
<1> QED BY <1>2, <1>3 DEF Record

\* The completion is recorded once, at the sealed length.
LEMMA SettleKeeps ==
    ASSUME IInv, NEW c \in Calls, Settle(c)
    PROVE  IInv'
<1>1. call[c].pc = "settling" /\ call[c].pc \in Finishing
      /\ UNCHANGED <<dir, data, named, staged, displaced, object, others>>
    BY DEF Settle, Finishing
<1>2. rec.publication \in published
    BY <1>1, FinishingAt
<1>3. CASE Answers(c, "not-found", 0) /\ rec' = rec
  <2>1. UNCHANGED <<files, others>>
    BY <1>1, <1>3 DEF files
  <2> QED BY <1>3, <2>1, AnswersKeeps, Constants DEF Ended
<1>4. CASE Published /\ Answers(c, "complete", rec.completion) /\ rec' = rec
  <2>1. rec.completion \in 0..MaxLength /\ rec.completion = Len(rec.publication.body)
    BY <1>4, Constants DEF Published, IInv, FilesTyped, Records, HistorySound, RecordsSound
  <2>2. UNCHANGED <<files, others>>
    BY <1>1, <1>4 DEF files
  <2>3. CallsSound' /\ (\A d \in Calls : d # c => call'[d] = call[d]) /\ Planned(c)'
    BY <1>2, <1>4, <2>1, <2>2, AnswersComplete DEF files, others
  <2> QED BY <2>2, <2>3, CallKeeps
<1>5. CASE rec' = [rec EXCEPT !.completion = call[c].seal.length] /\ Goes(c, "dropping")
  <2>1. rec' \in Records /\ rec'.seal = rec.seal /\ rec'.publication = rec.publication
        /\ rec'.completion = rec.seal.length
    BY <1>1, <1>5, FinishingAt DEF IInv, FilesTyped, Records
  <2>2. FilesTyped' /\ HistorySound'
    BY <1>1, <2>1 DEF IInv, FilesTyped, HistorySound, others
  <2>3. RecordsSound'
    BY <1>1, <1>2, <2>1 DEF IInv, RecordsSound, others
  <2>4. CallsSound' /\ (\A d \in Calls : d # c => call'[d] = call[d]) /\ call'[c].pc = "dropping"
        /\ call'[c].seal = call[c].seal /\ call'[c].publication = call[c].publication
    BY <1>1, <1>5, FinishingGoes DEF Finishing
  <2>5. Planned(c)'
    BY <1>1, <1>2, <2>1, <2>4, FinishingAt, Constants
       DEF others, Planned, Sealed, WithCopy, Copying, Publishes, Finishing
  <2>6. published' = published /\ dir' = dir /\ staged' = staged
    BY <1>1 DEF others
  <2> QED BY <2>1, <2>2, <2>3, <2>4, <2>5, <2>6, StepKeeps
<1> QED BY <1>3, <1>4, <1>5 DEF Settle

\* The data file's name goes after the record.
LEMMA DropDataKeeps ==
    ASSUME IInv, NEW c \in Calls, DropData(c)
    PROVE  IInv'
<1>1. call[c].pc = "dropping" /\ call[c].pc \in Finishing /\ named' \in {FALSE, named}
      /\ Answers(c, "complete", call[c].seal.length)
      /\ UNCHANGED <<dir, rec, data, staged, displaced, object, others>>
    BY DEF DropData, Finishing
<1>2. rec.publication \in published /\ call[c].seal.length = Len(rec.publication.body)
      /\ call[c].seal.length \in 0..MaxLength
    BY <1>1, FinishingAt
<1>3. CallsSound' /\ (\A d \in Calls : d # c => call'[d] = call[d]) /\ Planned(c)'
    BY <1>1, <1>2, AnswersComplete DEF others
<1>4. FilesTyped' /\ HistorySound' /\ RecordsSound'
    BY <1>1, ZenonT(60) DEF IInv, FilesTyped, HistorySound, RecordsSound, others
<1>5. rec' = rec /\ published' = published /\ dir' = dir /\ staged' = staged
    BY <1>1 DEF others
<1> QED BY <1>3, <1>4, <1>5, StepKeeps

-------------------------------------------------------------------------------
(* Reads, cancels, the sweep, and what needs no call *)

\* A read answers by the records, or takes up the plan they hold.
LEMMA ProbeBeginsKeeps ==
    ASSUME IInv, NEW c \in Calls, ProbeBegins(c)
    PROVE  IInv'
<1> USE DEF IInv
<1>1. MayBegin(c, "probe") /\ UNCHANGED <<files, others>> /\ "probe" \in Kinds /\ 0 \in 0..MaxLength
    BY Constants DEF ProbeBegins, Kinds
<1>2. ASSUME NEW pc \in {"not-found", "incomplete"}, NEW n \in 0..MaxLength,
             AnswersAtOnce(c, "probe", pc, n)
      PROVE  IInv'
  <2>1. pc \in Ended \ {"complete"}
    BY DEF Ended
  <2> QED BY <1>1, <1>2, <2>1, EndsKeeps DEF AnswersAtOnce
<1>3. CASE Published /\ AnswersAtOnce(c, "probe", "complete", rec.completion)
  <2>1. rec.completion \in 0..MaxLength /\ rec.publication \in published
        /\ rec.completion = Len(rec.publication.body) /\ "complete" \in Ended
    BY <1>3, Constants DEF Published, FilesTyped, HistorySound, Records, RecordsSound, Ended
  <2>2. Ends(c, "probe", "complete", 0, rec.completion)
    BY <1>3 DEF AnswersAtOnce
  <2>3. CallsSound' /\ (\A d \in Calls : d # c => call'[d] = call[d])
        /\ call'[c].pc = "complete" /\ call'[c].told = rec.completion
    BY <1>1, <2>1, <2>2, EndsAt
  <2>4. Planned(c)'
    BY <1>1, <2>1, <2>3 DEF files, others, Planned, Sealed, WithCopy, Copying, Publishes, Finishing
  <2> QED BY <1>1, <2>3, <2>4, CallKeeps
<1>4. CASE /\ rec.seal # None /\ rec.publication # None
           /\ call' = [call EXCEPT ![c] = [Idle EXCEPT
                 !.kind = "probe", !.pc = "recording",
                 !.seal = rec.seal, !.publication = rec.publication]]
  <2>1. call'[c] = [Idle EXCEPT !.kind = "probe", !.pc = "recording",
                                !.seal = rec.seal, !.publication = rec.publication]
        /\ Moved(c)
    BY <1>4 DEF Moved, CallsSound, CallsTyped
  <2>2. rec.seal \in Seals \cup {None} /\ rec.publication \in Copies \cup {None}
        /\ "recording" \in Awaits
    BY DEF FilesTyped, Records, Awaits
  <2>3. call'[c] \in Locals /\ call'[c].pc = "recording" /\ call'[c].kind = "probe"
        /\ call'[c].offset = 0 /\ call'[c].flushed = 0
        /\ call'[c].seal = rec.seal /\ call'[c].publication = rec.publication
    BY <1>1, <2>1, <2>2, IdleIs, ZenonT(60) DEF Locals
  <2>4. KindFits(call'[c].kind, call'[c].pc) /\ call'[c].offset + call'[c].flushed <= MaxLength
    BY <2>3, Constants DEF KindFits, AppendsAt, CompletesAt, Copying, Publishes, Finishing
  <2>5. \A d \in Calls : Running(d) => {call'[c].kind, call[d].kind} \in Overlaps
    BY <1>1, <2>3 DEF MayBegin
  <2>6. CallsSound' /\ \A d \in Calls : d # c => call'[d] = call[d]
    BY <2>1, <2>3, <2>4, <2>5, MovedIsSound
  <2>7. Planned(c)'
    BY <1>1, <1>4, <2>3 DEF files, Planned, Sealed, WithCopy, Copying, Publishes, Finishing
  <2> QED BY <1>1, <2>6, <2>7, CallKeeps
<1>5. Len(data) \in 0..MaxLength /\ (rec.seal # None => rec.seal.length \in 0..MaxLength)
  <2>1. rec.seal # None => rec.seal \in Seals
    BY DEF FilesTyped, Records
  <2>2. rec.seal # None => rec.seal.length \in 0..MaxLength
    BY <2>1 DEF Seals
  <2> QED BY <2>2, BytesAre DEF FilesTyped
<1> QED BY <1>1, <1>2, <1>3, <1>4, <1>5 DEF ProbeBegins

\* The cancellation record is no part of the plan.
LEMMA AbortBeginsKeeps ==
    ASSUME IInv, NEW c \in Calls, AbortBegins(c)
    PROVE  IInv'
<1> USE DEF IInv
<1>1. MayBegin(c, "abort") /\ UNCHANGED <<dir, data, named, staged, displaced, object, others>>
      /\ "abort" \in Kinds /\ 0 \in 0..MaxLength
    BY Constants DEF AbortBegins, Kinds
<1>2. CASE AnswersAtOnce(c, "abort", "discarded", 0) /\ rec' = rec
  <2>1. "discarded" \in Ended \ {"complete"} /\ UNCHANGED <<files, others>>
    BY <1>1, <1>2 DEF Ended, files
  <2> QED BY <1>1, <1>2, <2>1, EndsKeeps DEF AnswersAtOnce
<1>3. CASE rec' = [rec EXCEPT !.cancelled = TRUE] /\ Begins(c, "abort", "restoring", 0, 0)
  <2>1. KindFits("abort", "restoring") /\ "restoring" \in Awaits
    BY DEF KindFits, Awaits, AppendsAt, CompletesAt, Copying, Publishes, Finishing
  <2>2. CallsSound' /\ (\A d \in Calls : d # c => call'[d] = call[d]) /\ call'[c].pc = "restoring"
    BY <1>1, <1>3, <2>1, BeginsAt
  <2>3. rec' \in Records /\ rec'.seal = rec.seal /\ rec'.publication = rec.publication
        /\ rec'.completion = rec.completion
    BY <1>3 DEF FilesTyped, Records
  <2>4. FilesTyped' /\ HistorySound' /\ RecordsSound'
    BY <1>1, <2>3 DEF others, FilesTyped, HistorySound, RecordsSound
  <2>5. call'[c].pc \in Planless /\ published' = published /\ dir' = dir /\ staged' = staged
    BY <1>1, <2>2 DEF Planless, others
  <2> QED BY <2>2, <2>3, <2>4, <2>5, PlanlessPlanned, StepKeeps
<1> QED BY <1>2, <1>3 DEF AbortBegins

\* A directory that is gone holds no call to its plan's copy.
LEMMA ReclaimKeeps ==
    ASSUME IInv, NEW c \in Calls, Reclaim(c)
    PROVE  IInv'
<1>1. /\ call[c].pc = "reclaiming" /\ Goes(c, "discarded") /\ UNCHANGED <<rec, data, object, others>>
      /\ \/ dir = "live" /\ Removed
         \/ UNCHANGED <<dir, named, staged, displaced>>
    BY DEF Reclaim
<1>2. CallsSound' /\ (\A d \in Calls : d # c => call'[d] = call[d]) /\ call'[c].pc \in Planless
  <2>1. Running(c) /\ "discarded" \in Ended /\ KindFits(call[c].kind, "discarded")
    BY <1>1 DEF Running, Awaits, Ended, KindFits, AppendsAt, CompletesAt, Copying, Publishes, Finishing
  <2>2. "discarded" \in Planless
    BY DEF Planless, Ended
  <2> QED BY <1>1, <2>1, <2>2, GoesOn DEF IInv
<1>3. FilesTyped' /\ HistorySound' /\ RecordsSound'
    BY <1>1, Constants, ZenonT(60) DEF Removed, IInv, FilesTyped, Objects, HistorySound, RecordsSound, others
<1>4. rec' = rec /\ published' = published /\ (dir' = "live" => dir = "live" /\ staged' = staged)
    BY <1>1 DEF others, Removed
<1> QED BY <1>2, <1>3, <1>4, PlanlessPlanned, StepKeeps

\* A call that crashed goes by nothing.
LEMMA CrashKeeps ==
    ASSUME IInv, NEW c \in Calls, Crash(c)
    PROVE  IInv'
    BY EndsKeeps, Constants DEF Crash, Ended

\* A step that moves no call leaves each to go by what it went by.
LEMMA IdleKeeps ==
    ASSUME IInv, call' = call, rec' = rec, published' = published,
           dir' = "live" => dir = "live" /\ staged' = staged,
           FilesTyped', HistorySound', RecordsSound'
    PROVE  IInv'
<1>1. CallsSound'
    BY DEF IInv, CallsSound, CallsTyped, Kinded, Apart, Running
<1> QED BY <1>1, OthersPlanned DEF IInv

\* Other writers, and the sweep, change no record and move no call.
LEMMA ElsewhereKeeps ==
    ASSUME IInv, StrangerWrites \/ StrangerDeletes \/ Sweeping \/ UNCHANGED vars
    PROVE  IInv'
<1> USE DEF IInv
<1>1. CASE StrangerWrites \/ StrangerDeletes
  <2>1. editions' \in 0..MaxEditions /\ object' \in {None, Edition(editions')}
        /\ latest' \in {None, latest, Edition(editions')}
        /\ UNCHANGED <<dir, rec, data, named, staged, displaced, call, sweep, sweeps, published, reaped>>
    BY <1>1, Constants DEF StrangerWrites, StrangerDeletes, HistorySound
  <2>2. Edition(editions') \in Foreign /\ Edition(editions') \notin Copies
    BY <2>1, CopiesAre, Constants
  <2>3. FilesTyped' /\ HistorySound'
    BY <2>1, <2>2 DEF FilesTyped, Objects, HistorySound
  <2>4. RecordsSound'
    BY <2>1, <2>2, Constants DEF RecordsSound
  <2> QED BY <2>1, <2>3, <2>4, IdleKeeps
<1>2. CASE Sweeping
  <2>1. /\ dir' \in {dir, "gone", "penned"}
        /\ staged' \in {None, staged} /\ (dir' = "live" => dir = "live" /\ staged' = staged)
        /\ displaced' \in {None, displaced} /\ object' \in {object, displaced}
        /\ named' \in {FALSE, named}
        /\ sweep' \in {"away", "reap", "quarantine", "penned"} /\ (sweep' = "penned" => dir' = "penned")
        /\ UNCHANGED <<rec, data, call, editions, latest, published>>
    <3>1. CASE SweepJudges
      BY <3>1 DEF SweepJudges, Verdict, files, HistorySound
    <3>2. CASE SweepReaps
      BY <3>2 DEF SweepReaps, Removed, HistorySound
    <3>3. CASE SweepPens
      BY <3>3 DEF SweepPens, HistorySound
    <3>4. CASE SweepClears
      BY <3>4 DEF SweepClears, HistorySound
    <3> QED BY <1>2, <3>1, <3>2, <3>3, <3>4 DEF Sweeping
  <2>2. FilesTyped'
    BY <2>1 DEF FilesTyped, Objects
  <2>3. HistorySound'
    BY <2>1 DEF HistorySound
  <2>4. RecordsSound'
    BY <2>1, Constants DEF RecordsSound
  <2> QED BY <2>1, <2>2, <2>3, <2>4, IdleKeeps
<1>3. CASE UNCHANGED vars
  <2>1. UNCHANGED <<files, others>> /\ call' = call
    BY <1>3 DEF vars
  <2> QED BY <2>1, FilesStay, IdleKeeps
<1> QED BY <1>1, <1>2, <1>3

-------------------------------------------------------------------------------
(* The records, the copy and the key *)

\* An upload begins with no record, and no call.
LEMMA Beginning == Init => IInv
<1> SUFFICES ASSUME Init PROVE IInv
    OBVIOUS
<1>1. \A c \in Calls : call[c] = Idle
    BY DEF Init
<1>2. Idle.pc = "idle" /\ Idle.kind = "none"
    BY DEF Idle
<1>3. CallsSound
  <2>1. call \in [Calls -> Locals] /\ CallsTyped
    BY IdleIs, Constants DEF Init, CallsTyped
  <2>2. Kinded
    BY <1>1, <1>2 DEF Kinded, KindFits, AppendsAt, CompletesAt, Copying, Publishes, Finishing
  <2>3. Apart
    BY <1>1, <1>2 DEF Apart, Running, Awaits
  <2> QED BY <2>1, <2>2, <2>3 DEF CallsSound
<1>4. FilesTyped
  <2>1. <<>> \in Bytes
    <3>1. <<>> \in [1..0 -> Calls \cup {Hole}] /\ 0 \in 0..MaxLength
      BY Constants
    <3> QED BY <3>1 DEF Bytes
  <2>2. Edition(0) \in Foreign
    BY CopiesAre, Constants
  <2> QED BY <2>1, <2>2 DEF Init, FilesTyped, Records, Objects
<1>5. HistorySound /\ RecordsSound
  <2>1. Edition(0) \in Foreign /\ Edition(0) \notin Copies
    BY CopiesAre, Constants
  <2> QED BY <2>1, Constants DEF Init, HistorySound, RecordsSound
<1>6. \A c \in Calls : Planned(c)
    BY <1>1, <1>2 DEF Planned, Sealed, WithCopy, Copying, Publishes, Finishing
<1> QED BY <1>3, <1>4, <1>5, <1>6 DEF IInv

\* Every step keeps the invariant, with one completion at a time.
LEMMA EveryStepKeeps == OneCompletion /\ IInv /\ [Next]_vars => IInv'
<1> SUFFICES ASSUME OneCompletion, IInv, [Next]_vars PROVE IInv'
    OBVIOUS
<1>1. ASSUME NEW c \in Calls, Appending(c) PROVE IInv'
    BY <1>1, AppendBeginsKeeps, AppendRefusedKeeps, ChunkArrivesKeeps, BodyEndsKeeps,
       FenceKeeps, TruncateKeeps, NoteKeeps DEF Appending
<1>2. ASSUME NEW c \in Calls, Sealing(c) PROVE IInv'
    BY <1>2, CompleteBeginsKeeps, LiftKeeps, SurveyKeeps, SealCreatedKeeps, SealExistsKeeps,
       CheckKeyKeeps DEF Sealing
<1>3. ASSUME NEW c \in Calls, Staging(c) PROVE IInv'
    BY <1>3, CheckStagedKeeps, ClearStageKeeps, CopyKeeps, MeasureKeeps, MislaidKeeps, NameKeeps,
       VerifyKeeps DEF Staging
<1>4. ASSUME NEW c \in Calls, Publishing(c) PROVE IInv'
    BY <1>4, DisplaceKeeps, CompareKeeps, RestoreKeeps, ReturnedKeeps, LinkKeeps, TidyKeeps,
       RecordKeeps, SettleKeeps, DropDataKeeps DEF Publishing
<1>5. ASSUME NEW c \in Calls, ProbeBegins(c) \/ Discarding(c) \/ Crash(c) PROVE IInv'
    BY <1>5, ProbeBeginsKeeps, AbortBeginsKeeps, ReclaimKeeps, CrashKeeps DEF Discarding
<1> QED BY <1>1, <1>2, <1>3, <1>4, <1>5, ElsewhereKeeps DEF Next

\* Whatever happens, with one completion at a time, the invariant holds.
LEMMA Always == ASSUME OneCompletion PROVE Spec => []IInv
<1>1. Init => IInv
    BY Beginning
<1>2. IInv /\ [Next]_vars => IInv'
    BY EveryStepKeeps
<1> QED BY <1>1, <1>2, PTL DEF Spec

\* Every record implies the one before it, and a copy of the upload's at the key
\* is one that its completion linked there.
THEOREM RecordsStandInOrder == ASSUME OneCompletion PROVE Spec => []Inv
<1>1. IInv => Inv
  <2> SUFFICES ASSUME IInv PROVE Inv
    OBVIOUS
  <2>1. TypeOK
    <3>1. \A c \in Calls : call[c] \in Locals /\ call[c].offset + call[c].flushed \in 0..MaxLength
      BY DEF IInv, CallsSound, CallsTyped
    <3>2. \A c \in Calls :
              /\ call[c].kind \in Kinds \cup {"none"} /\ call[c].pc \in Awaits \cup Ended
              /\ call[c].seal \in Seals \cup {None} /\ call[c].publication \in Copies \cup {None}
      BY <3>1 DEF Locals
    <3> QED BY <3>1, <3>2 DEF TypeOK, IInv, FilesTyped, Objects, Records, HistorySound, Ended
  <2>2. RecordsInOrder
    <3>1. rec.completion # None => rec.publication \in Copies
      BY DEF IInv, HistorySound, RecordsSound
    <3>2. rec.publication # None => rec.publication \in Copies
      BY DEF IInv, FilesTyped, Records
    <3>3. object # None /\ object.by \in Calls => object \in Copies
      BY CopiesAre DEF IInv, FilesTyped, Objects
    <3> QED BY <3>1, <3>2, <3>3, CopiesAre, Constants DEF RecordsInOrder, IInv, RecordsSound
  <2> QED BY <2>1, <2>2 DEF Inv
<1> QED BY <1>1, Always, PTL

\* What has been at the key is the one copy that the records name, at the length
\* sealed, and whoever is told that the upload is complete is told of that.
THEOREM PlanIsPublished == ASSUME OneCompletion PROVE Spec => []PublishedIsThePlan
<1>1. IInv => PublishedIsThePlan
  <2> SUFFICES ASSUME IInv PROVE PublishedIsThePlan
    OBVIOUS
  <2>1. \A copy \in published : copy = rec.publication /\ copy # None
    BY Constants DEF IInv, HistorySound, RecordsSound
  <2>2. \A c \in Calls : call[c].pc = "complete" =>
            rec.publication \in published /\ call[c].told = Len(rec.publication.body)
    BY DEF IInv, Planned
  <2> QED BY <2>1, <2>2 DEF PublishedIsThePlan, IInv, RecordsSound
<1> QED BY <1>1, Always, PTL

-------------------------------------------------------------------------------
(* Where steps take calls *)

\* What a step of an append does to it.
LEMMA AppendingMoves ==
    ASSUME CallsSound, NEW c \in Calls
    PROVE  /\ \A n \in 0..MaxLength : AppendBegins(c, n) =>
                  call'[c].pc = "draining" /\ call'[c].offset = n /\ call'[c].flushed = 0
           /\ \A n \in 0..MaxLength : AppendRefused(c, n) =>
                  call'[c].pc \in {"not-found", "conflict"}
           /\ ChunkArrives(c) =>
                  /\ call'[c].pc = "draining" /\ call'[c].offset = call[c].offset
                  /\ call'[c].flushed = call[c].flushed + 1
           /\ \A ending \in {"kept", "overrun"} : BodyEnds(c, ending) =>
                  /\ call'[c].pc \in {"fencing", "not-found"}
                  /\ call'[c].offset = call[c].offset /\ call'[c].flushed = call[c].flushed
           /\ Fence(c) =>
                  \/ call'[c].pc \in {"not-found", "conflict"}
                  \/ /\ call'[c].offset = call[c].offset /\ call'[c].flushed = call[c].flushed
                     /\ \/ /\ call'[c].pc = "truncating" /\ call'[c].told = Kept(c)
                           /\ TakesBack(c) /\ Settled
                        \/ call'[c].pc = "noting" /\ ~Settled
           /\ Truncate(c) => call'[c].pc = "conflict"
           /\ Note(c) =>
                  \/ call'[c].pc \in {"not-found", "overrun"}
                  \/ /\ call'[c].pc = "wrote" /\ call'[c].offset = call[c].offset
                     /\ call'[c].told = End(c)
<1>0. call \in [Calls -> Locals] /\ call[c] \in Locals
    BY DEF CallsSound, CallsTyped
<1>1. ASSUME NEW n \in 0..MaxLength, AppendBegins(c, n)
      PROVE  call'[c].pc = "draining" /\ call'[c].offset = n /\ call'[c].flushed = 0
    BY <1>0, <1>1 DEF AppendBegins, Begins, Idle
<1>2. ASSUME NEW n \in 0..MaxLength, AppendRefused(c, n)
      PROVE  call'[c].pc \in {"not-found", "conflict"}
    BY <1>0, <1>2 DEF AppendRefused, AnswersAtOnce, Ends, Idle
<1>3. ASSUME ChunkArrives(c)
      PROVE  /\ call'[c].pc = "draining" /\ call'[c].offset = call[c].offset
             /\ call'[c].flushed = call[c].flushed + 1
  <2>1. call'[c] = [call[c] EXCEPT !.flushed = call[c].flushed + 1] /\ call[c].pc = "draining"
    BY <1>0, <1>3 DEF ChunkArrives
  <2> QED BY <1>0, <2>1 DEF Locals
<1>4. ASSUME NEW ending \in {"kept", "overrun"}, BodyEnds(c, ending)
      PROVE  /\ call'[c].pc \in {"fencing", "not-found"}
             /\ call'[c].offset = call[c].offset /\ call'[c].flushed = call[c].flushed
  <2>1. PICK pc \in {"fencing", "not-found"} : call'[c] = [call[c] EXCEPT !.ending = ending, !.pc = pc]
    BY <1>0, <1>4 DEF BodyEnds
  <2> QED BY <1>0, <2>1 DEF Locals
<1>5. ASSUME Fence(c)
      PROVE  \/ call'[c].pc \in {"not-found", "conflict"}
             \/ /\ call'[c].offset = call[c].offset /\ call'[c].flushed = call[c].flushed
                /\ \/ /\ call'[c].pc = "truncating" /\ call'[c].told = Kept(c)
                      /\ TakesBack(c) /\ Settled
                   \/ call'[c].pc = "noting" /\ ~Settled
  <2>1. CASE Answers(c, "not-found", 0) \/ Answers(c, "conflict", 0)
    BY <1>0, <2>1 DEF Answers, Ends, Idle
  <2>2. CASE /\ TakesBack(c) /\ Settled
             /\ call' = [call EXCEPT ![c].pc = "truncating", ![c].told = Kept(c),
                                     ![c].seal = rec.seal]
    <3>1. call'[c] = [call[c] EXCEPT !.pc = "truncating", !.told = Kept(c), !.seal = rec.seal]
      BY <1>0, <2>2
    <3> QED BY <1>0, <2>2, <3>1 DEF Locals
  <2>3. CASE ~Settled /\ Goes(c, "noting")
    <3>1. call'[c] = [call[c] EXCEPT !.pc = "noting"]
      BY <1>0, <2>3 DEF Goes
    <3> QED BY <1>0, <2>3, <3>1 DEF Locals
  <2> QED BY <1>5, <2>1, <2>2, <2>3 DEF Fence, SealedMeanwhile
<1>6. Truncate(c) => call'[c].pc = "conflict"
    BY <1>0 DEF Truncate, Answers, Ends, Idle
<1>7. Note(c) => \/ call'[c].pc \in {"not-found", "overrun"}
                 \/ /\ call'[c].pc = "wrote" /\ call'[c].offset = call[c].offset
                    /\ call'[c].told = End(c)
    BY <1>0, ZenonT(60) DEF Note, Answers, Ends, Idle
<1> QED BY <1>1, <1>2, <1>3, <1>4, <1>5, <1>6, <1>7

\* A step that moves a call moves no other.
LEMMA OthersStay ==
    ASSUME CallsSound, NEW c \in Calls,
           \/ Appending(c) \/ Sealing(c) \/ Staging(c) \/ Publishing(c)
           \/ ProbeBegins(c) \/ Discarding(c) \/ Crash(c)
    PROVE  \A d \in Calls : d # c => call'[d] = call[d]
<1> USE DEF Goes, Begins, Ends, Answers, AnswersAtOnce, Resumes
<1>0. call \in [Calls -> Locals]
    BY DEF CallsSound, CallsTyped
<1>1. CASE Appending(c)
    BY <1>0, <1>1 DEF Appending, AppendBegins, AppendRefused, ChunkArrives, BodyEnds, Fence,
           Truncate, Note
<1>2. CASE Sealing(c)
    BY <1>0, <1>2 DEF Sealing, CompleteBegins, Lift, Survey, SealCreated, SealExists, CheckKey
<1>3. CASE Staging(c)
    BY <1>0, <1>3 DEF Staging, CheckStaged, ClearStage, Copy, Measure, Mislaid, Name, Verify
<1>4. CASE Publishing(c)
    BY <1>0, <1>4 DEF Publishing, Displace, Compare, Restore, Returned, Link, Unstage, Clear,
           Record, Settle, DropData
<1>5. CASE ProbeBegins(c) \/ Discarding(c) \/ Crash(c)
    BY <1>0, <1>5 DEF ProbeBegins, Discarding, AbortBegins, Reclaim, Crash
<1> QED BY <1>1, <1>2, <1>3, <1>4, <1>5

\* Where the steps of a completion, a read, a cancel and a crash take a call.
LEMMA CompletionMoves ==
    ASSUME CallsSound, NEW c \in Calls
    PROVE  /\ Sealing(c) => call'[c].pc \in {"lifting", "surveying", "sealing", "checking",
                  "recording", "staging", "restaging"} \cup (Ended \ {"wrote"})
           /\ CheckStaged(c) => call'[c].pc \in {"verifying", "destination"}
           /\ ClearStage(c) => call'[c].pc = "copying"
           /\ Copy(c) => call'[c].pc \in {"not-found", "failed", "measuring"}
           /\ Measure(c) => call'[c].pc \in {"failed", "mislaid", "naming"}
           /\ Mislaid(c) => call'[c].pc = "conflict"
           /\ Name(c) => call'[c].pc \in {"not-found", "conflict", "verifying"}
           /\ Verify(c) =>
                  \/ call'[c].pc \in {"mismatch", "displacing"}
                  \/ call'[c].pc = "linking" /\ call[c].seal.destination = None
           /\ Displace(c) => call'[c].pc = "comparing"
           /\ Compare(c) =>
                  \/ call'[c].pc = "restoring"
                  \/ call'[c].pc = "linking" /\ Proven(c)
           /\ Link(c) => call'[c].pc \in {"unstaging", "destination", "failed"}
           /\ Unstage(c) => call'[c].pc = "clearing"
           /\ Clear(c) => call'[c].pc = "recording"
           /\ Record(c) => call'[c].pc \in {"settling", "destination"}
           /\ Settle(c) => call'[c].pc \in {"not-found", "complete", "dropping"}
           /\ DropData(c) => call'[c].pc = "complete"
           /\ ProbeBegins(c) => call'[c].pc \in {"not-found", "complete", "incomplete", "recording"}
           /\ AbortBegins(c) => call'[c].pc \in {"restoring", "discarded"}
           /\ Restore(c) \/ Returned(c) =>
                  call'[c].pc \in {"returned", "reclaiming", "destination"}
           /\ Reclaim(c) => call'[c].pc = "discarded"
           /\ Crash(c) => call'[c].pc = "crashed"
<1> USE DEF Answers, AnswersAtOnce, Resumes
<1>0. call \in [Calls -> Locals] /\ call[c] \in Locals
    BY DEF CallsSound, CallsTyped
<1>p. \A pc : Goes(c, pc) => call'[c].pc = pc
  <2> SUFFICES ASSUME NEW pc, Goes(c, pc) PROVE call'[c].pc = pc
    OBVIOUS
  <2>1. call'[c] = [call[c] EXCEPT !.pc = pc]
    BY <1>0 DEF Goes
  <2> QED BY <1>0, <2>1 DEF Locals
<1>e. \A kind, pc, offset, n : Ends(c, kind, pc, offset, n) => call'[c].pc = pc
  <2> SUFFICES ASSUME NEW kind, NEW pc, NEW offset, NEW n, Ends(c, kind, pc, offset, n)
               PROVE  call'[c].pc = pc
    OBVIOUS
  <2>1. call'[c] = [Idle EXCEPT !.kind = kind, !.pc = pc, !.offset = offset, !.told = n]
    BY <1>0 DEF Ends
  <2> QED BY IdleIs, <2>1 DEF Locals
<1>b. \A kind, pc, offset, n : Begins(c, kind, pc, offset, n) => call'[c].pc = pc
  <2> SUFFICES ASSUME NEW kind, NEW pc, NEW offset, NEW n, Begins(c, kind, pc, offset, n)
               PROVE  call'[c].pc = pc
    OBVIOUS
  <2>1. call'[c] = [Idle EXCEPT !.kind = kind, !.pc = pc, !.offset = offset, !.expected = n,
                                !.told = offset]
    BY <1>0 DEF Begins
  <2> QED BY IdleIs, <2>1 DEF Locals
<1>1. Sealing(c) => call'[c].pc \in {"lifting", "surveying", "sealing", "checking",
          "recording", "staging", "restaging"} \cup (Ended \ {"wrote"})
  <2>1. ASSUME NEW n \in 0..MaxLength, CompleteBegins(c, n)
        PROVE  call'[c].pc \in {"not-found", "complete", "failed", "conflict", "lifting",
                                "surveying", "checking"}
    <3>1. CASE call' = [call EXCEPT ![c] = [Idle EXCEPT
                  !.kind = "complete", !.expected = n,
                  !.pc = IF rec.seal = None THEN "surveying" ELSE "checking",
                  !.seal = rec.seal, !.publication = rec.publication]]
      <4>1. PICK pc \in {"surveying", "checking"} :
               call'[c] = [Idle EXCEPT !.kind = "complete", !.expected = n, !.pc = pc,
                                       !.seal = rec.seal, !.publication = rec.publication]
        BY <1>0, <3>1
      <4> QED BY <4>1, IdleIs DEF Locals
    <3> QED BY <1>b, <1>e, <2>1, <3>1 DEF CompleteBegins
  <2>2. Lift(c) => call'[c].pc = "surveying"
    BY <1>e, <1>p DEF Lift
  <2>3. Survey(c) => call'[c].pc = "sealing"
    <3>1. Survey(c) => call'[c] = [call[c] EXCEPT !.pc = "sealing", !.destination = object]
      BY <1>0 DEF Survey
    <3> QED BY <1>0, <3>1 DEF Locals
  <2>4. SealCreated(c) => call'[c].pc = "checking"
    <3>1. SealCreated(c) => \E seal : call'[c] = [call[c] EXCEPT !.pc = "checking", !.seal = seal]
      BY <1>0 DEF SealCreated
    <3> QED BY <1>0, <3>1 DEF Locals
  <2>5. SealExists(c) => call'[c].pc \in {"not-found", "conflict", "checking"}
    <3>1. CASE call' = [call EXCEPT ![c].pc = "checking", ![c].seal = rec.seal,
                                    ![c].publication = rec.publication]
      <4>1. call'[c] = [call[c] EXCEPT !.pc = "checking", !.seal = rec.seal,
                                       !.publication = rec.publication]
        BY <1>0, <3>1
      <4> QED BY <1>0, <4>1 DEF Locals
    <3> QED BY <1>e, <3>1 DEF SealExists
  <2>6. CheckKey(c) => call'[c].pc \in {"recording", "staging", "restaging"}
    BY <1>e, <1>p DEF CheckKey
  <2> QED BY <2>1, <2>2, <2>3, <2>4, <2>5, <2>6 DEF Sealing, Ended
<1>2. CheckStaged(c) => call'[c].pc \in {"verifying", "destination"}
    BY <1>e, <1>p DEF CheckStaged
<1>3. ClearStage(c) => call'[c].pc = "copying"
    BY <1>e, <1>p DEF ClearStage
<1>4. Copy(c) => call'[c].pc \in {"not-found", "failed", "measuring"}
    BY <1>e, <1>p DEF Copy
<1>5. Measure(c) => call'[c].pc \in {"failed", "mislaid", "naming"}
  <2>1. CASE call' = [call EXCEPT ![c].pc = "naming", ![c].publication = staged]
    <3>1. call'[c] = [call[c] EXCEPT !.pc = "naming", !.publication = staged]
      BY <1>0, <2>1
    <3> QED BY <1>0, <3>1 DEF Locals
  <2> QED BY <1>e, <1>p, <2>1 DEF Measure
<1>6. Mislaid(c) => call'[c].pc = "conflict"
    BY <1>e, <1>p DEF Mislaid
<1>7. Name(c) => call'[c].pc \in {"not-found", "conflict", "verifying"}
    BY <1>e, <1>p DEF Name
<1>8. Verify(c) =>
          \/ call'[c].pc \in {"mismatch", "displacing"}
          \/ call'[c].pc = "linking" /\ call[c].seal.destination = None
    BY <1>e, <1>p DEF Verify
<1>9. Displace(c) => call'[c].pc = "comparing"
    BY <1>p DEF Displace
<1>16. Compare(c) =>
           \/ call'[c].pc = "restoring"
           \/ call'[c].pc = "linking" /\ Proven(c)
  <2>1. Compare(c) => \/ Goes(c, "linking") /\ Proven(c)
                      \/ Goes(c, "restoring")
    BY DEF Compare
  <2> QED BY <1>p, <2>1
<1>10. Link(c) => call'[c].pc \in {"unstaging", "destination", "failed"}
    BY <1>e, <1>p DEF Link
<1>11. /\ Unstage(c) => call'[c].pc = "clearing"
       /\ Clear(c) => call'[c].pc = "recording"
    BY <1>e, <1>p DEF Unstage, Clear
<1>12. /\ Record(c) => call'[c].pc \in {"settling", "destination"}
       /\ Settle(c) => call'[c].pc \in {"not-found", "complete", "dropping"}
       /\ DropData(c) => call'[c].pc = "complete"
    BY <1>e, <1>p DEF Record, Settle, DropData
<1>13. ProbeBegins(c) => call'[c].pc \in {"not-found", "complete", "incomplete", "recording"}
  <2>1. CASE call' = [call EXCEPT ![c] = [Idle EXCEPT
                !.kind = "probe", !.pc = "recording",
                !.seal = rec.seal, !.publication = rec.publication]]
    <3>1. call'[c] = [Idle EXCEPT !.kind = "probe", !.pc = "recording",
                                  !.seal = rec.seal, !.publication = rec.publication]
      BY <1>0, <2>1
    <3> QED BY <3>1, IdleIs DEF Locals
  <2> QED BY <1>e, <2>1 DEF ProbeBegins
<1>14. /\ AbortBegins(c) => call'[c].pc \in {"restoring", "discarded"}
       /\ Reclaim(c) => call'[c].pc = "discarded"
       /\ Crash(c) => call'[c].pc = "crashed"
    BY <1>b, <1>e, <1>p DEF AbortBegins, Reclaim, Crash
<1>15. Restore(c) \/ Returned(c) => call'[c].pc \in {"returned", "reclaiming", "destination"}
    BY <1>e, <1>p DEF Restore, Returned
<1> QED BY <1>1, <1>2, <1>3, <1>4, <1>5, <1>6, <1>7, <1>8, <1>9, <1>10, <1>11, <1>12, <1>13,
           <1>14, <1>15, <1>16

-------------------------------------------------------------------------------
(* The object another writer left *)

\* The last foreign object is at the key, or aside where it will be put back
\* from, and then the key is empty. What is about to remove what is aside, or
\* to replace it, does so where that is no longer the last foreign object.
AtTheKey == reaped \/ latest \in {None, object}
Aside == latest = displaced /\ object = None /\ (dir = "live" \/ sweep = "penned")
Removing == {"returned", "unstaging", "clearing", "reclaiming"}
Careful(c) ==
    /\ call[c].pc = "linking" /\ dir = "live" /\ rec.seal.destination # None =>
          displaced = rec.seal.destination
    /\ call[c].pc \in Removing /\ dir = "live" => AtTheKey
KeySound ==
    /\ AtTheKey \/ Aside
    /\ \A c \in Calls : Careful(c)

\* Beside a completion or a cancel nobody else publishes or puts back.
LEMMA NoneBeside ==
    ASSUME OneCompletion, NoCancelBeside, CallsSound, NEW c \in Calls, NEW d \in Calls, d # c,
           Running(c)
    PROVE  /\ call[c].kind = "complete" => call[d].pc \notin Removing \cup {"linking"}
           /\ call[c].kind = "abort" => call[d].pc \notin {"linking", "unstaging", "clearing"}
<1>1. Running(d) => {call[c].kind, call[d].kind} \in Overlaps
    BY DEF CallsSound, Apart
<1>2. {"abort", "complete"} = {"complete", "abort"}
    OBVIOUS
<1>3. /\ call[d].pc \in {"linking", "unstaging", "clearing"} => call[d].kind = "complete" /\ Running(d)
      /\ call[d].pc \in {"returned", "reclaiming"} =>
             call[d].kind \in {"complete", "abort"} /\ Running(d)
    BY DEF CallsSound, Kinded, KindFits, Running, Awaits, CompletesAt, Publishes
<1> QED BY <1>1, <1>2, <1>3 DEF OneCompletion, NoCancelBeside, Removing

\* A step that touches neither the key nor what is aside, nor brings a call to
\* where it would.
LEMMA KeyStands ==
    ASSUME IInv, KeySound, NEW c \in Calls, \A d \in Calls : d # c => call'[d] = call[d],
           call'[c].pc \notin Removing \cup {"linking"},
           UNCHANGED <<dir, displaced, object, latest, reaped, sweep>>,
           rec'.seal = rec.seal \/ rec.publication = None
    PROVE  KeySound'
<1>1. (AtTheKey \/ Aside)'
    BY DEF KeySound, AtTheKey, Aside
<1>2. ASSUME NEW d \in Calls PROVE Careful(d)'
  <2>1. CASE d = c
    BY <2>1 DEF Careful
  <2>2. CASE d # c
    <3>1. call[d].pc = "linking" => rec'.seal = rec.seal
      BY DEF IInv, Planned, WithCopy, Publishes
    <3> QED BY <2>2, <3>1 DEF KeySound, Careful, AtTheKey
  <2> QED BY <2>1, <2>2
<1> QED BY <1>1, <1>2 DEF KeySound

\* Most steps are of that kind.
LEMMA QuietKeepsKey ==
    ASSUME IInv, KeySound, NEW c \in Calls,
           \/ Appending(c) \/ Sealing(c) \/ Staging(c)
           \/ Record(c) \/ Settle(c) \/ DropData(c)
           \/ ProbeBegins(c) \/ AbortBegins(c) \/ Crash(c)
    PROVE  KeySound'
<1>0. CallsSound /\ rec \in Records /\ \A d \in Calls : d # c => call'[d] = call[d]
    BY OthersStay DEF IInv, FilesTyped, Publishing, Discarding
<1>1. CASE Appending(c)
  <2>1. call'[c].pc \notin Removing \cup {"linking"}
    BY <1>0, <1>1, AppendingMoves DEF Appending, Removing
  <2>2. UNCHANGED <<dir, displaced, object, latest, reaped, sweep>> /\ rec'.seal = rec.seal
    BY <1>0, <1>1 DEF Appending, AppendBegins, AppendRefused, ChunkArrives, BodyEnds, Fence,
           Truncate, Note, files, others, Records
  <2> QED BY <1>0, <2>1, <2>2, KeyStands
<1>2. CASE Sealing(c)
  <2>1. call'[c].pc \notin Removing \cup {"linking"}
    BY <1>0, <1>2, CompletionMoves, SMTT(60) DEF Removing, Ended
  <2>2. UNCHANGED <<dir, displaced, object, latest, reaped, sweep>>
    BY <1>2, ZenonT(60) DEF Sealing, CompleteBegins, Lift, Survey, SealCreated, SealExists, CheckKey,
           files, others
  <2>3. rec'.seal = rec.seal \/ rec.publication = None
    <3>1. rec.seal = None \/ call[c].pc = "lifting" => rec.publication = None
      BY DEF IInv, RecordsSound, Planned
    <3> QED BY <1>2, <3>1, ZenonT(60) DEF Sealing, CompleteBegins, Lift, Survey, SealCreated, SealExists,
               CheckKey, files
  <2> QED BY <1>0, <2>1, <2>2, <2>3, KeyStands
<1>3. CASE Verify(c)
  <2>1. UNCHANGED <<dir, displaced, object, latest, reaped, sweep, rec>> /\ call[c].pc = "verifying"
    BY <1>3 DEF Verify, files, others
  <2>2. call'[c].pc \notin Removing /\ (call'[c].pc = "linking" => call[c].seal.destination = None)
    BY <1>0, <1>3, CompletionMoves DEF Removing
  <2>3. call[c].seal = rec.seal
    BY <2>1 DEF IInv, Planned, Sealed
  <2>4. Careful(c)'
    BY <2>1, <2>2, <2>3 DEF Careful
  <2>5. \A d \in Calls : d # c => Careful(d)'
    BY <1>0, <2>1 DEF KeySound, Careful, AtTheKey
  <2> QED BY <2>1, <2>4, <2>5 DEF KeySound, AtTheKey, Aside
<1>4. CASE Staging(c) /\ ~Verify(c)
  <2>1. call'[c].pc \notin Removing \cup {"linking"}
    BY <1>0, <1>4, CompletionMoves DEF Staging, Removing
  <2>2. UNCHANGED <<dir, displaced, object, latest, reaped, sweep>>
    BY <1>4 DEF Staging, CheckStaged, ClearStage, Copy, Measure, Mislaid, Name, files, others
  <2>3. rec'.seal = rec.seal \/ rec.publication = None
    <3>1. call[c].pc = "mislaid" => rec.publication = None
      BY DEF IInv, Planned, Copying
    <3> QED BY <1>0, <1>4, <3>1 DEF Staging, CheckStaged, ClearStage, Copy, Measure, Mislaid, Name,
               Recorded, Records, files
  <2> QED BY <1>0, <2>1, <2>2, <2>3, KeyStands
<1>5. CASE \/ Record(c) \/ Settle(c) \/ DropData(c)
           \/ ProbeBegins(c) \/ AbortBegins(c) \/ Crash(c)
  <2>1. call'[c].pc \notin Removing \cup {"linking"}
    BY <1>0, <1>5, CompletionMoves DEF Removing
  <2>2. UNCHANGED <<dir, displaced, object, latest, reaped, sweep>> /\ rec'.seal = rec.seal
    BY <1>0, <1>5 DEF Record, Settle, DropData, ProbeBegins, AbortBegins, Crash, files, others, Records
  <2> QED BY <1>0, <2>1, <2>2, KeyStands
<1> QED BY <1>1, <1>2, <1>3, <1>4, <1>5

\* A step of a completion that touches the key, or what is aside, is alone there.
LEMMA PublishingKeepsKey ==
    ASSUME OneCompletion, NoCancelBeside, IInv, KeySound, NEW c \in Calls,
           \/ Displace(c) \/ Compare(c) \/ Link(c) \/ Unstage(c) \/ Clear(c)
    PROVE  KeySound'
<1>0. CallsSound /\ (\A d \in Calls : d # c => call'[d] = call[d])
      /\ rec' = rec /\ dir' = dir /\ sweep' = sweep /\ reaped' = reaped
  <2>1. CallsSound
    BY DEF IInv
  <2>2. \A d \in Calls : d # c => call'[d] = call[d]
    BY <2>1, OthersStay DEF Publishing
  <2> QED BY <2>1, <2>2 DEF Displace, Compare, Link, Unstage, Clear, files, others
<1>1. call[c].kind = "complete" /\ Running(c) /\ Planned(c)
  <2>1. call[c].pc \in CompletesAt
    BY DEF Displace, Compare, Link, Unstage, Clear, CompletesAt, Publishes
  <2> QED BY <2>1, CompletionAt
<1>2. \A d \in Calls : d # c => Careful(d)'
    BY <1>0, <1>1, NoneBeside DEF Careful
<1>3. CASE Displace(c)
  <2>1. call'[c].pc = "comparing"
    BY <1>0, <1>3, CompletionMoves
  <2>2. CASE dir = "live" /\ object # None /\ displaced' = object /\ object' = None /\ latest' = latest
    BY <1>0, <1>2, <2>1, <2>2 DEF KeySound, Careful, AtTheKey, Aside, Removing
  <2>3. CASE UNCHANGED <<displaced, object, latest>>
    BY <1>0, <1>2, <2>1, <2>3 DEF KeySound, Careful, AtTheKey, Aside, Removing
  <2> QED BY <1>3, <2>2, <2>3 DEF Displace, others
<1>4. CASE Compare(c)
  <2>1. UNCHANGED <<displaced, object, latest>> /\ call[c].seal = rec.seal
    BY <1>1, <1>4 DEF Compare, files, others, Planned, Sealed, Publishes
  <2>2. call'[c].pc = "restoring" \/ (call'[c].pc = "linking" /\ Proven(c))
    BY <1>0, <1>4, CompletionMoves
  <2>3. Careful(c)'
    BY <1>0, <2>1, <2>2 DEF Careful, Proven, InDir, Removing
  <2> QED BY <1>0, <1>2, <2>1, <2>3 DEF KeySound, AtTheKey, Aside
<1>5. CASE Link(c)
  <2>1. call'[c].pc \in {"unstaging", "destination", "failed"}
    BY <1>0, <1>5, CompletionMoves
  <2>2. CASE /\ InDir(staged) # None /\ object = None /\ displaced' = displaced
             /\ latest' = IF latest = call[c].seal.destination THEN None ELSE latest
    <3>1. dir = "live" /\ call[c].pc = "linking" /\ call[c].seal = rec.seal
      BY <1>1, <1>5, <2>2 DEF Link, InDir, Planned, Sealed, Publishes
    <3>2. rec.seal.destination # None => displaced = rec.seal.destination
      BY <3>1 DEF KeySound, Careful
    <3>3. rec.seal.destination = None => displaced = None
      BY DEF IInv, RecordsSound
    <3>4. AtTheKey'
      BY <1>0, <2>2, <3>1, <3>2, <3>3 DEF KeySound, AtTheKey, Aside
    <3> QED BY <1>2, <2>1, <3>4 DEF KeySound, Careful, Removing
  <2>3. CASE object # None /\ UNCHANGED <<displaced, object, latest>>
    <3>1. AtTheKey'
      BY <1>0, <2>3 DEF KeySound, AtTheKey, Aside
    <3> QED BY <1>2, <2>1, <3>1 DEF KeySound, Careful, Removing
  <2>4. CASE Answers(c, "failed", 0) /\ UNCHANGED <<displaced, object, latest>>
    <3>1. call'[c].pc \notin Removing \cup {"linking"}
      <4>1. "failed" \in Ended /\ 0 \in 0..MaxLength
        BY Constants DEF Ended
      <4>2. call'[c].pc = "failed"
        BY <1>0, <2>4, <4>1, AnswersAt
      <4> QED BY <4>2 DEF Removing
    <3> QED BY <1>0, <1>2, <2>4, <3>1 DEF KeySound, Careful, AtTheKey, Aside
  <2> QED BY <1>5, <2>2, <2>3, <2>4 DEF Link
<1>6. CASE Unstage(c)
  <2>1. call'[c].pc = "clearing" /\ call[c].pc = "unstaging" /\ UNCHANGED <<displaced, object, latest>>
    BY <1>0, <1>6, CompletionMoves DEF Unstage, others
  <2> QED BY <1>0, <1>2, <2>1 DEF KeySound, Careful, AtTheKey, Aside, Removing
<1>7. CASE Clear(c)
  <2>1. call'[c].pc = "recording" /\ call[c].pc = "clearing" /\ UNCHANGED <<object, latest>>
        /\ displaced' = IF dir = "live" THEN None ELSE displaced
    BY <1>0, <1>7, CompletionMoves DEF Clear, others
  <2> QED BY <1>0, <1>2, <2>1 DEF KeySound, Careful, AtTheKey, Aside, Removing
<1> QED BY <1>3, <1>4, <1>5, <1>6, <1>7

\* What is put back is put back at an empty key, and removed only where it is
\* not the last foreign object.
LEMMA RestoringKeepsKey ==
    ASSUME OneCompletion, NoCancelBeside, IInv, KeySound, NEW c \in Calls,
           Restore(c) \/ Returned(c) \/ Reclaim(c)
    PROVE  KeySound'
<1>0. CallsSound /\ (\A d \in Calls : d # c => call'[d] = call[d])
      /\ rec' = rec /\ sweep' = sweep /\ reaped' = reaped /\ latest' = latest
  <2>1. CallsSound
    BY DEF IInv
  <2>2. \A d \in Calls : d # c => call'[d] = call[d]
    BY <2>1, OthersStay DEF Publishing, Discarding
  <2> QED BY <2>1, <2>2 DEF Restore, Returned, Reclaim, files, others
<1>1. call[c].kind \in {"complete", "abort"} /\ Running(c)
    BY DEF Restore, Returned, Reclaim, IInv, CallsSound, Kinded, KindFits, Running, Awaits
<1>2. \A d \in Calls : d # c => call[d].pc \notin {"linking", "unstaging", "clearing"}
    BY <1>0, <1>1, NoneBeside DEF Removing
<1>3. CASE Restore(c)
  <2>1. call'[c].pc \in {"returned", "reclaiming", "destination"} /\ dir' = dir /\ displaced' = displaced
    BY <1>0, <1>3, CompletionMoves DEF Restore
  <2>2. CASE object = None /\ object' = displaced
    <3>1. AtTheKey'
      BY <1>0, <2>2 DEF KeySound, AtTheKey, Aside
    <3> QED BY <1>0, <1>2, <2>1, <3>1 DEF KeySound, Careful, Removing
  <2>3. CASE object' = object /\ ~LinksBack
    <3>1. dir = "live" => AtTheKey
      BY <2>3 DEF KeySound, AtTheKey, Aside, LinksBack, InDir
    <3> QED BY <1>0, <1>2, <2>1, <2>3, <3>1 DEF KeySound, Careful, AtTheKey, Aside, Removing
  <2> QED BY <1>3, <2>2, <2>3 DEF Restore, LinksBack
<1>4. CASE Returned(c)
  <2>1. call'[c].pc \in {"returned", "reclaiming", "destination"} /\ dir' = dir /\ object' = object
        /\ call[c].pc = "returned" /\ displaced' = IF dir = "live" THEN None ELSE displaced
    BY <1>0, <1>4, CompletionMoves DEF Returned
  <2> QED BY <1>0, <1>2, <2>1 DEF KeySound, Careful, AtTheKey, Aside, Removing
<1>5. CASE Reclaim(c)
  <2>1. call'[c].pc = "discarded" /\ object' = object /\ call[c].pc = "reclaiming"
        /\ \/ dir = "live" /\ dir' = "gone"
           \/ UNCHANGED <<dir, displaced>>
    BY <1>0, <1>5, CompletionMoves DEF Reclaim, Removed
  <2> QED BY <1>0, <1>2, <2>1 DEF KeySound, Careful, AtTheKey, Aside, Removing
<1> QED BY <1>3, <1>4, <1>5

\* Other writers, and the sweep.
LEMMA ElsewhereKeepsKey ==
    ASSUME IInv, KeySound, StrangerWrites \/ StrangerDeletes \/ Sweeping \/ UNCHANGED vars
    PROVE  KeySound'
<1> USE DEF KeySound, Careful, AtTheKey, Aside
<1>1. CASE StrangerWrites
    BY <1>1 DEF StrangerWrites
<1>2. CASE StrangerDeletes
    BY <1>2 DEF StrangerDeletes
<1>3. CASE SweepJudges
    BY <1>3 DEF SweepJudges, files, Verdict
<1>4. CASE SweepReaps
    BY <1>4 DEF SweepReaps, Removed
<1>5. CASE SweepPens
    BY <1>5 DEF SweepPens
<1>6. CASE SweepClears
    BY <1>6 DEF SweepClears, IInv, HistorySound
<1>7. CASE UNCHANGED vars
    BY <1>7 DEF vars, files, others
<1> QED BY <1>1, <1>2, <1>3, <1>4, <1>5, <1>6, <1>7 DEF Sweeping

\* The object another writer left survives, until the upload's own copy replaces
\* the very object that the seal recorded: with one completion at a time, and
\* no cancel beside it.
THEOREM ForeignObjectSurvives ==
    ASSUME OneCompletion, NoCancelBeside
    PROVE  Spec => []ObjectSurvives
<1>1. Init => KeySound
    BY DEF Init, KeySound, AtTheKey, Careful, Idle, Removing
<1>2. IInv /\ KeySound /\ [Next]_vars => KeySound'
  <2> SUFFICES ASSUME IInv, KeySound, [Next]_vars PROVE KeySound'
    OBVIOUS
  <2>1. ASSUME NEW c \in Calls, Publishing(c) PROVE KeySound'
    BY <2>1, QuietKeepsKey, PublishingKeepsKey, RestoringKeepsKey DEF Publishing
  <2>2. ASSUME NEW c \in Calls, Discarding(c) PROVE KeySound'
    BY <2>2, QuietKeepsKey, RestoringKeepsKey DEF Discarding
  <2> QED BY <2>1, <2>2, QuietKeepsKey, ElsewhereKeepsKey DEF Next
<1>3. KeySound => ObjectSurvives
    BY DEF KeySound, AtTheKey, Aside, ObjectSurvives
<1> QED BY <1>1, <1>2, <1>3, Always, PTL DEF Spec

-------------------------------------------------------------------------------
(* The bytes an append wrote *)

\* How far an append's bytes go: as it was told, or as it has written.
Writing(c) == call[c].pc \in AppendsAt
Due(c) == call[c].pc \in {"noting", "wrote"}
Reach(c) == IF call[c].pc = "wrote" THEN call[c].told ELSE End(c)
Landed(bytes, c) ==
    /\ Len(bytes) >= Reach(c)
    /\ \A i \in (call[c].offset + 1)..Reach(c) : bytes[i] = c

\* An append writes at the end of the file, and takes back no more than that.
AtTheEnd(c) ==
    /\ Writing(c) => End(c) = Len(data) /\ Landed(data, c)
    /\ call[c].pc = "truncating" => call[c].told \in call[c].offset..End(c)
\* Once past the fence its bytes are in the file, below whatever is appended
\* since, and in each copy a completion has made, or is about to name.
Stands(c) ==
    /\ Landed(data, c)
    /\ \A d \in Calls : d # c /\ Writing(d) => Reach(c) <= call[d].offset
    /\ rec.publication # None => Landed(rec.publication.body, c)
    /\ \A d \in Calls : call[d].pc = "measuring" /\ staged # None => Landed(staged.body, c)
    /\ \A d \in Calls : call[d].pc = "naming" => Landed(call[d].publication.body, c)
BytesSound == \A c \in Calls : AtTheEnd(c) /\ (Due(c) => Stands(c))

\* Where a step of an append finds it, and that no other append runs beside it.
LEMMA AppendAt ==
    ASSUME OneAppend, CallsSound, NEW c \in Calls, Writing(c)
    PROVE  /\ call[c].kind = "append" /\ Running(c)
           /\ \A d \in Calls : d # c => ~Writing(d)
<1>1. \A d \in Calls : Writing(d) => call[d].kind = "append" /\ Running(d)
    BY DEF Writing, CallsSound, Kinded, KindFits, Running, Awaits, AppendsAt
<1>2. {"append", "append"} = {"append"}
    OBVIOUS
<1> QED BY <1>1, <1>2 DEF OneAppend, CallsSound, Apart

\* An append that stays where it is keeps what it has in files that stay.
LEMMA OthersAtTheEnd ==
    ASSUME NEW d \in Calls, AtTheEnd(d), call'[d] = call[d], data' = data
    PROVE  AtTheEnd(d)'
    BY DEF AtTheEnd, Writing, Landed, Reach, End
\* Nor does what stands for an append fall by another call's step, which leaves
\* the bytes, and takes its copies of them.
LEMMA OthersStand ==
    ASSUME NEW c \in Calls, NEW d \in Calls, d # c, Due(d) => Stands(d),
           \A e \in Calls : e # c => call'[e] = call[e], data' = data,
           \/ rec'.publication = rec.publication
           \/ call[c].pc = "naming" /\ rec'.publication = call[c].publication,
           \/ staged' \in {staged, None}
           \/ staged'.body = data,
           Writing(c)' => Writing(c) /\ call'[c].offset = call[c].offset,
           call'[c].pc = "measuring" => staged'.body = data,
           call'[c].pc = "naming" =>
               call[c].pc = "measuring" /\ staged # None /\ call'[c].publication = staged
    PROVE  Due(d)' => Stands(d)'
<1> SUFFICES ASSUME Due(d)' PROVE Stands(d)'
    OBVIOUS
<1>1. Stands(d) /\ call'[d] = call[d]
    BY DEF Due
<1>2. \A b : Landed(b, d) => Len(b) >= Reach(d) /\ \A i \in (call[d].offset + 1)..Reach(d) : b[i] = d
    BY DEF Landed
<1>3. Reach(d)' = Reach(d)
    BY <1>1 DEF Reach, End
<1>4. Landed(data, d)'
    BY <1>1, <1>3 DEF Stands, Landed
<1>5. \A e \in Calls : e # d /\ Writing(e)' => Reach(d)' <= call'[e].offset
    BY <1>1, <1>3 DEF Stands, Writing
<1>6. rec'.publication # None => Landed(rec.publication.body, d)'
    BY <1>1, <1>3 DEF Stands, Landed
<1>7. ASSUME NEW e \in Calls, call'[e].pc = "measuring", staged' # None PROVE Landed(staged.body, d)'
    BY <1>1, <1>3, <1>7 DEF Stands, Landed
<1>8. ASSUME NEW e \in Calls, call'[e].pc = "naming" PROVE Landed(call[e].publication.body, d)'
    BY <1>1, <1>3, <1>8 DEF Stands, Landed
<1> QED BY <1>4, <1>5, <1>6, <1>7, <1>8 DEF Stands

\* Nor by a step that writes bytes, where those it wrote are not among them.
LEMMA OthersStandBelow ==
    ASSUME NEW c \in Calls, NEW d \in Calls, d # c, Stands(d), Reach(d)' = Reach(d),
           \A e \in Calls : e # c => call'[e] = call[e], UNCHANGED <<rec, staged>>,
           call'[c].pc \notin {"measuring", "naming"}, Landed(data, d)',
           Writing(c)' => Reach(d) <= call'[c].offset
    PROVE  Stands(d)'
<1>1. \A e \in Calls : e # d /\ Writing(e)' => Reach(d)' <= call'[e].offset
    BY DEF Stands, Writing
<1>2. rec'.publication # None => Landed(rec.publication.body, d)'
    BY DEF Stands, Landed
<1>3. ASSUME NEW e \in Calls, call'[e].pc = "measuring", staged' # None PROVE Landed(staged.body, d)'
    BY <1>3 DEF Stands, Landed
<1>4. ASSUME NEW e \in Calls, call'[e].pc = "naming" PROVE Landed(call[e].publication.body, d)'
    BY <1>4 DEF Stands, Landed
<1> QED BY <1>1, <1>2, <1>3, <1>4 DEF Stands

\* A step that neither writes bytes nor copies them, of a call that is not past
\* the fence after it.
LEMMA BytesStay ==
    ASSUME BytesSound, NEW c \in Calls, \A d \in Calls : d # c => call'[d] = call[d],
           data' = data, rec'.publication = rec.publication, staged' \in {staged, None},
           call'[c].pc \notin AppendsAt \cup {"wrote", "measuring", "naming"}
    PROVE  BytesSound'
<1>1. AtTheEnd(c)' /\ ~Due(c)' /\ ~Writing(c)'
    BY DEF AtTheEnd, Writing, Due, AppendsAt
<1>2. ASSUME NEW d \in Calls, d # c PROVE AtTheEnd(d)' /\ (Due(d)' => Stands(d)')
    BY <1>1, <1>2, OthersAtTheEnd, OthersStand DEF BytesSound
<1> QED BY <1>1, <1>2 DEF BytesSound

-------------------------------------------------------------------------------
(* The steps of an append *)

\* An append begins where the file ends.
LEMMA AppendBeginsKeepsBytes ==
    ASSUME IInv, BytesSound, NEW c \in Calls, NEW n \in 0..MaxLength, AppendBegins(c, n)
    PROVE  BytesSound'
<1>1. /\ call'[c].pc = "draining" /\ call'[c].offset = n /\ call'[c].flushed = 0
      /\ \A d \in Calls : d # c => call'[d] = call[d]
    BY AppendingMoves, OthersStay DEF IInv, Appending
<1>2. UNCHANGED <<data, rec, staged>> /\ n = Len(data)
    BY DEF AppendBegins, files, ClaimHolds
<1>3. AtTheEnd(c)' /\ ~Due(c)'
  <2>1. End(c)' = n /\ Reach(c)' = n
    BY <1>1, Constants DEF End, Reach
  <2> QED BY <1>1, <1>2, <2>1 DEF AtTheEnd, Writing, Landed, Due
<1>4. ASSUME NEW d \in Calls, d # c, Due(d)' PROVE Stands(d)'
  <2>1. Stands(d) /\ call'[d] = call[d] /\ Reach(d)' = Reach(d)
    BY <1>1, <1>4 DEF BytesSound, Due, Reach, End
  <2>2. Reach(d) <= call'[c].offset
    BY <1>1, <1>2, <2>1 DEF Stands, Landed
  <2>3. Landed(data, d)'
    BY <1>1, <1>2, <2>1 DEF Stands, Landed
  <2> QED BY <1>1, <1>2, <1>4, <2>1, <2>2, <2>3, OthersStandBelow
<1>5. \A d \in Calls : d # c => AtTheEnd(d)'
    BY <1>1, <1>2, OthersAtTheEnd DEF BytesSound
<1> QED BY <1>3, <1>4, <1>5 DEF BytesSound

\* A chunk goes behind all that has landed.
LEMMA ChunkArrivesKeepsBytes ==
    ASSUME OneAppend, IInv, BytesSound, NEW c \in Calls, ChunkArrives(c)
    PROVE  BytesSound'
<1>1. /\ call[c].pc = "draining" /\ Writing(c) /\ End(c) < MaxLength
      /\ data' = Written(data, End(c), c) /\ UNCHANGED <<rec, staged>>
    BY DEF ChunkArrives, Writing, AppendsAt, End
<1>2. /\ call'[c].pc = "draining" /\ call'[c].offset = call[c].offset
      /\ call'[c].flushed = call[c].flushed + 1
      /\ \A d \in Calls : d # c => call'[d] = call[d]
    BY AppendingMoves, OthersStay DEF IInv, Appending
<1>3. /\ End(c) = Len(data) /\ End(c) \in Nat /\ call[c].offset \in Nat
      /\ \A i \in (call[c].offset + 1)..End(c) : data[i] = c
      /\ End(c)' = End(c) + 1 /\ Reach(c)' = End(c) + 1
  <2>1. End(c) \in Nat /\ call[c].offset \in Nat /\ call[c].flushed \in Nat
    BY CallIs, Constants DEF IInv
  <2>2. End(c)' = End(c) + 1
    BY <1>2, <2>1 DEF End
  <2>3. Reach(c)' = End(c)' /\ Reach(c) = End(c)
    BY <1>1, <1>2 DEF Reach
  <2>4. End(c) = Len(data) /\ Landed(data, c)
    BY <1>1 DEF BytesSound, AtTheEnd
  <2> QED BY <2>1, <2>2, <2>3, <2>4 DEF Landed
<1>4. /\ Len(data') = Len(data) + 1 /\ data'[Len(data) + 1] = c
      /\ \A i \in 1..Len(data) : data'[i] = data[i]
    BY <1>1, <1>3, WrittenIs DEF IInv, FilesTyped
<1>5. AtTheEnd(c)' /\ ~Due(c)'
  <2>1. \A i \in (call[c].offset + 1)..(End(c) + 1) : data'[i] = c
    BY <1>3, <1>4
  <2>2. Landed(data, c)'
    BY <1>2, <1>3, <1>4, <2>1 DEF Landed
  <2> QED BY <1>2, <1>3, <1>4, <2>2 DEF AtTheEnd, Writing, Due
<1>6. \A d \in Calls : d # c => ~Writing(d)
    BY <1>1, AppendAt DEF IInv
<1>7. ASSUME NEW d \in Calls, d # c, Due(d)' PROVE Stands(d)'
  <2>1. Stands(d) /\ call'[d] = call[d] /\ Reach(d)' = Reach(d)
        /\ call[d].offset \in Nat /\ Reach(d) \in Nat
    BY <1>2, <1>7, CallIs, Constants DEF BytesSound, Due, Reach, End, IInv
  <2>2. Landed(data, d)'
    BY <1>3, <1>4, <2>1 DEF Stands, Landed
  <2>3. Reach(d) <= call'[c].offset
    BY <1>1, <1>2, <1>7, <2>1 DEF Stands
  <2> QED BY <1>1, <1>2, <1>7, <2>1, <2>2, <2>3, OthersStandBelow
<1>8. ASSUME NEW d \in Calls, d # c PROVE AtTheEnd(d)'
  <2>1. ~Writing(d)' /\ call'[d] = call[d]
    BY <1>2, <1>6, <1>8 DEF Writing
  <2> QED BY <2>1 DEF BytesSound, AtTheEnd, Writing, AppendsAt
<1> QED BY <1>5, <1>7, <1>8 DEF BytesSound

\* A body that ends leaves what landed.
LEMMA BodyEndsKeepsBytes ==
    ASSUME IInv, BytesSound, NEW c \in Calls, NEW ending \in {"kept", "overrun"}, BodyEnds(c, ending)
    PROVE  BytesSound'
<1>1. UNCHANGED <<data, rec, staged>> /\ Writing(c) /\ call[c].pc = "draining"
    BY DEF BodyEnds, files, Writing, AppendsAt
<1>2. /\ call'[c].pc \in {"fencing", "not-found"} /\ call'[c].offset = call[c].offset
      /\ call'[c].flushed = call[c].flushed
      /\ \A d \in Calls : d # c => call'[d] = call[d]
    BY AppendingMoves, OthersStay DEF IInv, Appending
<1>3. AtTheEnd(c)' /\ ~Due(c)'
  <2>1. End(c)' = End(c) /\ Reach(c)' = Reach(c)
    BY <1>1, <1>2 DEF End, Reach
  <2> QED BY <1>1, <1>2, <2>1 DEF BytesSound, AtTheEnd, Writing, AppendsAt, Landed, Due
<1>4. ASSUME NEW d \in Calls, d # c PROVE AtTheEnd(d)' /\ (Due(d)' => Stands(d)')
    BY <1>1, <1>2, <1>4, OthersAtTheEnd, OthersStand DEF BytesSound
<1> QED BY <1>3, <1>4 DEF BytesSound

\* Past the fence there is no seal yet, so no copy either.
LEMMA FenceKeepsBytes ==
    ASSUME OneAppend, IInv, BytesSound, NEW c \in Calls, Fence(c)
    PROVE  BytesSound'
<1>0. UNCHANGED <<data, rec, staged>> /\ Writing(c) /\ call[c].pc = "fencing"
      /\ \A d \in Calls : d # c => call'[d] = call[d]
    BY OthersStay DEF Fence, files, Writing, AppendsAt, IInv, Appending
<1>1. CASE call'[c].pc \in {"not-found", "conflict"}
  <2>1. call'[c].pc \notin AppendsAt \cup {"wrote", "measuring", "naming"}
    BY <1>1 DEF AppendsAt
  <2> QED BY <1>0, <2>1, BytesStay
<1>2. CASE /\ call'[c].offset = call[c].offset /\ call'[c].flushed = call[c].flushed
           /\ \/ /\ call'[c].pc = "truncating" /\ call'[c].told = Kept(c)
                 /\ TakesBack(c) /\ Settled
              \/ call'[c].pc = "noting" /\ ~Settled
  <2>1. End(c)' = End(c) /\ Reach(c)' = Reach(c) /\ Reach(c) = End(c)
        /\ End(c) = Len(data) /\ Landed(data, c)
    BY <1>0, <1>2 DEF End, Reach, BytesSound, AtTheEnd
  <2>2. call'[c].pc = "truncating" => call'[c].told \in call'[c].offset..End(c)'
    <3>1. call[c].offset \in Nat /\ End(c) \in Nat
      BY CallIs, Constants DEF IInv
    <3>2. TakesBack(c) /\ Settled =>
              Kept(c) < End(c) /\ Kept(c) >= call[c].offset /\ Kept(c) \in Nat
      <4>1. TakesBack(c) /\ Settled => rec.seal \in Seals
        BY DEF TakesBack, Settled, Published, IInv, FilesTyped, Records
      <4>2. rec.seal \in Seals => rec.seal.length \in Nat
        BY Constants DEF Seals
      <4> QED BY <3>1, <4>1, <4>2 DEF TakesBack, Kept
    <3> QED BY <1>2, <2>1, <3>1, <3>2
  <2>3. AtTheEnd(c)'
    BY <1>0, <1>2, <2>1, <2>2 DEF AtTheEnd, Writing, AppendsAt, Landed
  <2>4. Due(c)' => Stands(c)'
    <3> SUFFICES ASSUME Due(c)' PROVE Stands(c)'
      OBVIOUS
    <3>1. rec.seal = None
      BY <1>2 DEF Due, Settled
    <3>2. rec.publication = None
      BY <3>1 DEF IInv, RecordsSound
    <3>3. \A d \in Calls : call[d].pc \notin {"measuring", "naming"}
      BY <3>1 DEF IInv, Planned, Sealed, Copying
    <3>4. \A d \in Calls : call'[d].pc \notin {"measuring", "naming"}
      BY <1>0, <1>2, <3>3
    <3>5. \A d \in Calls : d # c => ~Writing(d)'
      BY <1>0, AppendAt DEF IInv, Writing
    <3>6. Landed(data, c)'
      BY <1>0, <1>2, <2>1 DEF Landed
    <3> QED BY <1>0, <3>2, <3>4, <3>5, <3>6 DEF Stands
  <2>5. ASSUME NEW d \in Calls, d # c PROVE AtTheEnd(d)' /\ (Due(d)' => Stands(d)')
    BY <1>0, <1>2, <2>5, OthersAtTheEnd, OthersStand DEF BytesSound
  <2> QED BY <2>3, <2>4, <2>5 DEF BytesSound
<1> QED BY <1>1, <1>2, AppendingMoves, SMTT(60) DEF IInv

\* What is taken back is the append's own.
LEMMA TruncateKeepsBytes ==
    ASSUME OneAppend, IInv, BytesSound, NEW c \in Calls, Truncate(c)
    PROVE  BytesSound'
<1>1. /\ call[c].pc = "truncating" /\ Writing(c) /\ call'[c].pc = "conflict"
      /\ data' = Truncated(data, call[c].told) /\ UNCHANGED <<rec, staged>>
      /\ \A d \in Calls : d # c => call'[d] = call[d]
    BY AppendingMoves, OthersStay DEF Truncate, Writing, AppendsAt, IInv, Appending
<1>2. call[c].told \in 0..MaxLength /\ call[c].told \in call[c].offset..Len(data)
      /\ call[c].offset \in Nat /\ Len(data) \in Nat
    BY <1>1, CallIs, BytesAre, Constants DEF BytesSound, AtTheEnd, IInv, FilesTyped
<1>3. /\ Len(data') = call[c].told
      /\ \A i \in 1..call[c].told : data'[i] = data[i]
    BY <1>1, <1>2, TruncatedIs DEF IInv, FilesTyped
<1>4. AtTheEnd(c)' /\ ~Due(c)'
    BY <1>1 DEF AtTheEnd, Writing, AppendsAt, Due
<1>5. ASSUME NEW d \in Calls, d # c, Due(d)' PROVE Stands(d)'
  <2>1. Stands(d) /\ call'[d] = call[d] /\ Reach(d)' = Reach(d)
        /\ call[d].offset \in Nat /\ Reach(d) \in Nat
    BY <1>1, <1>5, CallIs, Constants DEF BytesSound, Due, Reach, End, IInv
  <2>2. Reach(d) <= call[c].told
    BY <1>1, <1>2, <1>5, <2>1 DEF Stands
  <2>3. Landed(data, d)'
    BY <1>2, <1>3, <2>1, <2>2 DEF Stands, Landed
  <2>4. ~Writing(c)'
    BY <1>1 DEF Writing, AppendsAt
  <2> QED BY <1>1, <1>5, <2>1, <2>3, <2>4, OthersStandBelow
<1>6. ASSUME NEW d \in Calls, d # c PROVE AtTheEnd(d)'
  <2>1. ~Writing(d)' /\ call'[d] = call[d]
    BY <1>1, <1>6, AppendAt DEF Writing, IInv
  <2> QED BY <2>1 DEF BytesSound, AtTheEnd, Writing, AppendsAt
<1> QED BY <1>4, <1>5, <1>6 DEF BytesSound

\* What an append is told it wrote is what it wrote.
LEMMA NoteKeepsBytes ==
    ASSUME IInv, BytesSound, NEW c \in Calls, Note(c)
    PROVE  BytesSound'
<1>0. UNCHANGED <<data, staged>> /\ Due(c) /\ call[c].pc = "noting"
      /\ rec'.publication = rec.publication
      /\ \A d \in Calls : d # c => call'[d] = call[d]
    BY OthersStay DEF Note, files, Due, IInv, FilesTyped, Records, Appending
<1>1. CASE call'[c].pc \in {"not-found", "overrun"}
  <2>1. call'[c].pc \notin AppendsAt \cup {"wrote", "measuring", "naming"}
    BY <1>1 DEF AppendsAt
  <2> QED BY <1>0, <2>1, BytesStay
<1>2. CASE call'[c].pc = "wrote" /\ call'[c].offset = call[c].offset /\ call'[c].told = End(c)
  <2>1. Reach(c)' = Reach(c) /\ Stands(c)
    BY <1>0, <1>2 DEF Reach, BytesSound
  <2>2. Stands(c)'
    BY <1>0, <1>2, <2>1 DEF Stands, Landed, Writing
  <2>3. AtTheEnd(c)' /\ ~Writing(c)'
    BY <1>2 DEF AtTheEnd, Writing, AppendsAt
  <2>4. ASSUME NEW d \in Calls, d # c PROVE AtTheEnd(d)' /\ (Due(d)' => Stands(d)')
    BY <1>0, <1>2, <2>3, <2>4, OthersAtTheEnd, OthersStand DEF BytesSound
  <2> QED BY <2>2, <2>3, <2>4 DEF BytesSound
<1> QED BY <1>1, <1>2, AppendingMoves DEF IInv

-------------------------------------------------------------------------------
(* The copy of a completion *)

\* What is copied is all that has landed, and what is named is that copy.
LEMMA CopyingKeepsBytes ==
    ASSUME IInv, BytesSound, NEW c \in Calls, Copy(c) \/ Measure(c) \/ Name(c)
    PROVE  BytesSound'
<1>0. data' = data /\ \A d \in Calls : d # c => call'[d] = call[d]
    BY OthersStay DEF Copy, Measure, Name, IInv, Staging
<1>1. CASE call'[c].pc \notin {"measuring", "naming", "verifying"}
  <2>1. call'[c].pc \notin AppendsAt \cup {"wrote", "measuring", "naming"}
    BY <1>1, CompletionMoves DEF AppendsAt, IInv
  <2>2. rec' = rec /\ staged' \in {staged, None}
    <3>1. CASE Copy(c)
      <4>1. Goes(c, "measuring") => call'[c].pc = "measuring"
        BY DEF Goes, IInv, CallsSound, CallsTyped, Locals
      <4> QED BY <1>1, <3>1, <4>1 DEF Copy
    <3>2. CASE Measure(c)
      BY <3>2 DEF Measure
    <3>3. CASE Name(c)
      <4>1. Goes(c, "verifying") => call'[c].pc = "verifying"
        BY DEF Goes, IInv, CallsSound, CallsTyped, Locals
      <4> QED BY <1>1, <3>3, <4>1 DEF Name
    <3> QED BY <3>1, <3>2, <3>3
  <2> QED BY <1>0, <2>1, <2>2, BytesStay
<1>2. ASSUME call'[c].pc \in {"measuring", "naming", "verifying"},
             \A d \in Calls : d # c => (Due(d)' => Stands(d)')
      PROVE  BytesSound'
  <2>1. AtTheEnd(c)' /\ ~Due(c)'
    BY <1>2 DEF AtTheEnd, Writing, AppendsAt, Due
  <2> QED BY <1>0, <1>2, <2>1, OthersAtTheEnd DEF BytesSound
<1>3. CASE Copy(c) /\ call'[c].pc = "measuring"
  <2>1. rec' = rec /\ staged' = [by |-> c, edition |-> 0, body |-> data]
    <3>1. \A pc \in {"not-found", "failed"} : Answers(c, pc, 0) => call'[c].pc = pc
      BY DEF Answers, Ends, Idle, IInv, CallsSound, CallsTyped
    <3> QED BY <1>3, <3>1 DEF Copy
  <2>2. staged'.body = data /\ ~Writing(c)'
    BY <1>3, <2>1 DEF Writing, AppendsAt
  <2> QED BY <1>0, <1>2, <1>3, <2>1, <2>2, OthersStand DEF BytesSound
<1>4. CASE Measure(c) /\ call'[c].pc = "naming"
  <2>1. rec' = rec /\ staged' = staged /\ staged # None /\ call[c].pc = "measuring"
        /\ call'[c].publication = staged
    <3>1. Answers(c, "failed", 0) => call'[c].pc = "failed"
      BY DEF Answers, Ends, Idle, IInv, CallsSound, CallsTyped
    <3>2. Goes(c, "mislaid") => call'[c].pc = "mislaid"
      BY DEF Goes, IInv, CallsSound, CallsTyped, Locals
    <3>3. call' = [call EXCEPT ![c].pc = "naming", ![c].publication = staged]
              => call'[c] = [call[c] EXCEPT !.pc = "naming", !.publication = staged]
      BY DEF IInv, CallsSound, CallsTyped
    <3>4. call[c] \in Locals
      BY CallIs DEF IInv
    <3> QED BY <1>4, <3>1, <3>2, <3>3, <3>4 DEF Measure, InDir, Locals
  <2>2. ~Writing(c)'
    BY <1>4 DEF Writing, AppendsAt
  <2> QED BY <1>0, <1>2, <1>4, <2>1, <2>2, OthersStand DEF BytesSound
<1>5. CASE Name(c) /\ call'[c].pc = "verifying"
  <2>1. rec'.publication = call[c].publication /\ staged' = staged /\ call[c].pc = "naming"
    <3>1. \A pc \in {"not-found", "conflict"} : Answers(c, pc, 0) => call'[c].pc = pc
      BY DEF Answers, Ends, Idle, IInv, CallsSound, CallsTyped
    <3> QED BY <1>5, <3>1 DEF Name, Recorded, IInv, FilesTyped, Records
  <2>2. ~Writing(c)'
    BY <1>5 DEF Writing, AppendsAt
  <2> QED BY <1>0, <1>2, <1>5, <2>1, <2>2, OthersStand DEF BytesSound
<1>6. /\ Copy(c) => call'[c].pc \notin {"naming", "verifying"}
      /\ Measure(c) => call'[c].pc \notin {"measuring", "verifying"}
      /\ Name(c) => call'[c].pc \notin {"measuring", "naming"}
    BY CompletionMoves DEF IInv
<1> QED BY <1>1, <1>3, <1>4, <1>5, <1>6

\* Every other step of a call leaves the bytes and the copies.
LEMMA QuietKeepsBytes ==
    ASSUME IInv, BytesSound, NEW c \in Calls,
           \/ \E n \in 0..MaxLength : AppendRefused(c, n)
           \/ Sealing(c) \/ CheckStaged(c) \/ ClearStage(c) \/ Mislaid(c) \/ Verify(c)
           \/ Publishing(c) \/ ProbeBegins(c) \/ Discarding(c) \/ Crash(c)
    PROVE  BytesSound'
<1>0. CallsSound /\ rec \in Records /\ \A d \in Calls : d # c => call'[d] = call[d]
    BY OthersStay DEF IInv, FilesTyped, Appending, Staging
<1>1. call'[c].pc \notin AppendsAt \cup {"wrote", "measuring", "naming"}
  <2>1. CASE \E n \in 0..MaxLength : AppendRefused(c, n)
    BY <1>0, <2>1, AppendingMoves DEF AppendsAt
  <2>2. CASE Sealing(c)
    BY <1>0, <2>2, CompletionMoves DEF AppendsAt, Ended
  <2>3. CASE CheckStaged(c) \/ ClearStage(c) \/ Mislaid(c) \/ Verify(c)
    BY <1>0, <2>3, CompletionMoves DEF AppendsAt
  <2>4. CASE Publishing(c)
    BY <1>0, <2>4, CompletionMoves DEF AppendsAt, Publishing
  <2>5. CASE ProbeBegins(c) \/ Discarding(c) \/ Crash(c)
    BY <1>0, <2>5, CompletionMoves DEF AppendsAt, Discarding
  <2> QED BY <2>1, <2>2, <2>3, <2>4, <2>5
<1>2. data' = data /\ staged' \in {staged, None} /\ rec'.publication = rec.publication
  <2>1. CASE \E n \in 0..MaxLength : AppendRefused(c, n)
    BY <2>1, SMTT(60) DEF AppendRefused, files
  <2>2. CASE Sealing(c)
    BY <1>0, <2>2, ZenonT(60) DEF Sealing, CompleteBegins, Lift, LiftSeal, Survey, SealCreated, SealExists,
           CheckKey, files, Records
  <2>3. CASE CheckStaged(c) \/ ClearStage(c) \/ Mislaid(c) \/ Verify(c)
    BY <1>0, <2>3 DEF CheckStaged, ClearStage, Mislaid, LiftSeal, Verify, files, Records
  <2>4. CASE Publishing(c)
    BY <1>0, <2>4 DEF Publishing, Displace, Compare, Restore, Returned, Link, Unstage, Clear,
           Record, Settle, DropData, files, Records
  <2>5. CASE ProbeBegins(c) \/ Discarding(c) \/ Crash(c)
    BY <1>0, <2>5 DEF ProbeBegins, Discarding, AbortBegins, Reclaim, Removed, Crash, files, Records
  <2> QED BY <2>1, <2>2, <2>3, <2>4, <2>5
<1> QED BY <1>0, <1>1, <1>2, BytesStay

\* Other writers, and the sweep, touch neither.
LEMMA ElsewhereKeepsBytes ==
    ASSUME BytesSound, StrangerWrites \/ StrangerDeletes \/ Sweeping \/ UNCHANGED vars
    PROVE  BytesSound'
<1>1. call' = call /\ data' = data /\ rec' = rec /\ staged' \in {staged, None}
    BY DEF StrangerWrites, StrangerDeletes, Sweeping, SweepJudges, SweepReaps, SweepPens,
           SweepClears, Removed, vars, files
<1>2. ASSUME NEW c \in Calls, Stands(c) PROVE Stands(c)'
    BY <1>1, <1>2 DEF Stands, Landed, Reach, End, Writing
<1> QED BY <1>1, <1>2, OthersAtTheEnd DEF BytesSound, Due

\* What an append has acknowledged is in the data file and in the copy that was
\* published, whatever completes, fails, crashes or is swept beside it and after
\* it: with one append and one completion at a time.
THEOREM AcknowledgedStay ==
    ASSUME OneCompletion, OneAppend
    PROVE  Spec => []AcknowledgedBytesStand
<1>1. Init => BytesSound
    BY DEF Init, BytesSound, AtTheEnd, Writing, AppendsAt, Due, Idle
<1>2. IInv /\ BytesSound /\ [Next]_vars => BytesSound'
  <2> SUFFICES ASSUME IInv, BytesSound, [Next]_vars PROVE BytesSound'
    OBVIOUS
  <2>1. ASSUME NEW c \in Calls, Appending(c) PROVE BytesSound'
    BY <2>1, AppendBeginsKeepsBytes, ChunkArrivesKeepsBytes, BodyEndsKeepsBytes, FenceKeepsBytes,
       TruncateKeepsBytes, NoteKeepsBytes, QuietKeepsBytes DEF Appending
  <2>2. ASSUME NEW c \in Calls, Staging(c) PROVE BytesSound'
    BY <2>2, CopyingKeepsBytes, QuietKeepsBytes DEF Staging
  <2> QED BY <2>1, <2>2, QuietKeepsBytes, ElsewhereKeepsBytes DEF Next
<1>3. BytesSound => AcknowledgedBytesStand
    BY DEF BytesSound, Due, Stands, Landed, Reach, AcknowledgedBytesStand, Holds
<1> QED BY <1>1, <1>2, <1>3, Always, PTL DEF Spec
====

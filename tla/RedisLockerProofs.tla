--------------------------- MODULE RedisLockerProofs ---------------------------
(***************************************************************************)
(* Proofs about redisUploadLocker for any number of processes, attempts    *)
(* and uploads, over a server that may lose, delay or not answer any       *)
(* command: its invariant Inv, that an owner alone lets go of its key,     *)
(* that nothing abandoned stays behind, and that a hold not aborted has    *)
(* the key if its lock came within a renew interval of its SET or has been *)
(* renewed since.                                                          *)
(***************************************************************************)
EXTENDS RedisLocker, TLAPS

-------------------------------------------------------------------------------
(* Commands on their way.  What the invariants need of a queue: whether a   *)
(* command is in it, that a SET is in it once, and that a deletion is       *)
(* behind every SET of an attempt that gave up.                             *)

Command(op, a) == [op |-> op, by |-> a]
Has(s, op, a) == \E i \in 1..Len(s) : s[i] = Command(op, a)
Once(s, a) == \A i, j \in 1..Len(s) :
    s[i] = Command("set", a) /\ s[j] = Command("set", a) => i = j
Behind(s, a) == \A i \in 1..Len(s) :
    s[i] = Command("set", a) => \E j \in 1..Len(s) : i < j /\ s[j] = Command("del", a)

\* A record of a command is told by its fields.
LEMMA CommandFields ==
    \A op, a, o, b : Command(op, a) = Command(o, b) <=> op = o /\ a = b
<1>1. \A op, a : Command(op, a).op = op /\ Command(op, a).by = a
    BY DEF Command
<1> QED BY <1>1

\* It is a command.
LEMMA CommandIn ==
    ASSUME NEW op \in {"set", "publish", "renew", "del"}, NEW a \in Attempts
    PROVE  Command(op, a) \in Commands
    BY DEF Command, Commands

\* A command joins the queue of its process.
LEMMA Joining ==
    ASSUME NEW s \in Seq(Commands), NEW e \in Commands
    PROVE  /\ Append(s, e) \in Seq(Commands)
           /\ \A op, a : Has(Append(s, e), op, a) <=> Has(s, op, a) \/ e = Command(op, a)
           /\ \A a : Once(s, a) /\ (e = Command("set", a) => ~Has(s, "set", a))
                        => Once(Append(s, e), a)
           /\ \A a : Behind(s, a) /\ e # Command("set", a) => Behind(Append(s, e), a)
           /\ \A a : e = Command("del", a) => Behind(Append(s, e), a)
<1> DEFINE t == Append(s, e)
<1>1. /\ t \in Seq(Commands) /\ Len(t) = Len(s) + 1 /\ Len(s) \in Nat
      /\ \A i \in 1..Len(s) : t[i] = s[i]
      /\ t[Len(s) + 1] = e
    OBVIOUS
<1> HIDE DEF t
<1>2. \A i \in 1..Len(t) : i \in 1..Len(s) \/ i = Len(t)
    BY <1>1
<1>3. 1..Len(s) \subseteq 1..Len(t) /\ Len(t) \in 1..Len(t)
    BY <1>1
<1>4. \A op, a : Has(t, op, a) <=> Has(s, op, a) \/ e = Command(op, a)
    BY <1>1, <1>2, <1>3 DEF Has
<1>5. ASSUME NEW a, Once(s, a), e = Command("set", a) => ~Has(s, "set", a)
      PROVE  Once(t, a)
    BY <1>1, <1>2, <1>3, <1>5 DEF Once, Has
<1>6. ASSUME NEW a, Behind(s, a), e # Command("set", a)
      PROVE  Behind(t, a)
    BY <1>1, <1>2, <1>3, <1>6 DEF Behind
<1>7. ASSUME NEW a, e = Command("del", a)
      PROVE  Behind(t, a)
  <2>1. e # Command("set", a)
    BY <1>7, CommandFields
  <2> QED BY <1>1, <1>2, <1>3, <1>7, <2>1 DEF Behind
<1> QED BY <1>1, <1>4, <1>5, <1>6, <1>7 DEF t

\* The server takes the oldest one, or it is lost.
LEMMA Leaving ==
    ASSUME NEW s \in Seq(Commands), s # <<>>
    PROVE  /\ Head(s) \in Commands /\ Tail(s) \in Seq(Commands)
           /\ Has(s, Head(s).op, Head(s).by)
           /\ Head(s) = Command(Head(s).op, Head(s).by)
           /\ \A op, a : Has(s, op, a) <=> Has(Tail(s), op, a) \/ Head(s) = Command(op, a)
           /\ \A a : Once(s, a) => Once(Tail(s), a)
           /\ \A a : Once(s, a) /\ Head(s) = Command("set", a) => ~Has(Tail(s), "set", a)
           /\ \A a : Behind(s, a) => Behind(Tail(s), a)
           /\ \A a : Behind(s, a) /\ Head(s) = Command("set", a) => Has(Tail(s), "del", a)
<1> DEFINE t == Tail(s)
           h == Head(s)
<1>1. /\ h \in Commands /\ h = s[1] /\ Len(s) \in Nat /\ Len(s) >= 1
      /\ t \in Seq(Commands) /\ Len(t) = Len(s) - 1
      /\ \A i \in 1..Len(t) : t[i] = s[i + 1]
    OBVIOUS
<1>2. h = Command(h.op, h.by)
    BY <1>1 DEF Commands, Command
<1> HIDE DEF t, h
<1>3. \A i \in 1..Len(s) : i = 1 \/ (i - 1 \in 1..Len(t) /\ s[i] = t[i - 1])
    BY <1>1
<1>4. \A i \in 1..Len(t) : i + 1 \in 1..Len(s) /\ t[i] = s[i + 1]
    BY <1>1
<1>5. 1 \in 1..Len(s)
    BY <1>1
<1>6. \A op, a : Has(s, op, a) <=> Has(t, op, a) \/ h = Command(op, a)
    BY <1>1, <1>3, <1>4, <1>5, ZenonT(60) DEF Has
<1>7. \A a : Once(s, a) => Once(t, a)
  <2> SUFFICES ASSUME NEW a, Once(s, a), NEW i \in 1..Len(t), NEW j \in 1..Len(t),
                      t[i] = Command("set", a), t[j] = Command("set", a)
               PROVE  i = j
    BY DEF Once
  <2>1. i + 1 = j + 1
    BY <1>4 DEF Once
  <2> QED BY <2>1, <1>1
<1>8. \A a : Once(s, a) /\ h = Command("set", a) => ~Has(t, "set", a)
  <2> SUFFICES ASSUME NEW a, Once(s, a), h = Command("set", a), NEW i \in 1..Len(t),
                      t[i] = Command("set", a)
               PROVE  FALSE
    BY DEF Has
  <2>1. i + 1 = 1
    BY <1>1, <1>4, <1>5 DEF Once
  <2> QED BY <2>1, <1>1
<1>9. \A a : Behind(s, a) => Behind(t, a)
  <2> SUFFICES ASSUME NEW a, Behind(s, a), NEW i \in 1..Len(t), t[i] = Command("set", a)
               PROVE  \E j \in 1..Len(t) : i < j /\ t[j] = Command("del", a)
    BY DEF Behind
  <2>1. PICK j \in 1..Len(s) : i + 1 < j /\ s[j] = Command("del", a)
    BY <1>4 DEF Behind
  <2>2. j - 1 \in 1..Len(t) /\ i < j - 1 /\ t[j - 1] = Command("del", a)
    BY <1>1, <1>3, <2>1
  <2> QED BY <2>2
<1>10. \A a : Behind(s, a) /\ h = Command("set", a) => Has(t, "del", a)
  <2> SUFFICES ASSUME NEW a, Behind(s, a), h = Command("set", a)
               PROVE  Has(t, "del", a)
    OBVIOUS
  <2>1. PICK j \in 1..Len(s) : 1 < j /\ s[j] = Command("del", a)
    BY <1>1, <1>5 DEF Behind
  <2>2. j - 1 \in 1..Len(t) /\ t[j - 1] = Command("del", a)
    BY <1>1, <1>3, <2>1
  <2> QED BY <2>2 DEF Has
<1>11. Has(s, h.op, h.by)
    BY <1>1, <1>2, <1>5 DEF Has
<1>12. h \in Commands /\ t \in Seq(Commands)
    BY <1>1
<1> QED BY <1>2, <1>6, <1>7, <1>8, <1>9, <1>10, <1>11, <1>12 DEF t, h

-------------------------------------------------------------------------------
(* Types *)

\* renewIntervalMs is no more than a third of ttlMs.
LEMMA RenewBounds == Renew \in Nat /\ Renew >= 1 /\ 3 * Renew <= Ttl
    BY TimesAssumption DEF Renew

\* A countdown stays in its range.
LEMMA LessIn == \A b \in Nat : \A n \in 0..b : Less(n) \in 0..b
    BY DEF Less

\* Every command issued is a command.
LEMMA IssueType ==
    ASSUME TypeOK, NEW a \in Attempts, NEW op \in {"set", "publish", "renew", "del"}
    PROVE  Issue(op, a) \in [Processes -> Seq(Commands)]
<1>1. at[a] \in Processes /\ pipe[at[a]] \in Seq(Commands)
    BY DEF TypeOK
<1>2. Append(pipe[at[a]], [op |-> op, by |-> a]) \in Seq(Commands)
    BY <1>1, Joining, CommandIn DEF Command
<1> QED BY <1>1, <1>2 DEF Issue, TypeOK

\* The locals of an attempt that is over are those of a new one.
LEMMA ForgetType ==
    ASSUME TypeOK, NEW A
    PROVE  /\ ForgetRound(A) => /\ budget' \in [Attempts -> 0..Timeout]
                                /\ answer' \in [Attempts -> {"none", "OK", "null"}]
           /\ ForgetHold(A) => /\ beat' \in [Attempts -> 0..Renew]
                               /\ renewal' \in [Attempts -> {"none", "sent", "ours", "gone"}]
                               /\ patience' \in [Attempts -> 0..Renew]
                               /\ lost' \subseteq Attempts
                               /\ slack' \in [Attempts -> 0..Renew]
<1>1. 0 \in 0..Renew /\ Renew \in 0..Renew /\ Timeout \in 0..Timeout
    BY RenewBounds, TimesAssumption
<1>2. ASSUME ForgetRound(A)
      PROVE  budget' \in [Attempts -> 0..Timeout] /\ answer' \in [Attempts -> {"none", "OK", "null"}]
    BY <1>1, <1>2 DEF TypeOK, ForgetRound
<1>3. ASSUME ForgetHold(A)
      PROVE  /\ beat' \in [Attempts -> 0..Renew]
             /\ renewal' \in [Attempts -> {"none", "sent", "ours", "gone"}]
             /\ patience' \in [Attempts -> 0..Renew]
             /\ lost' \subseteq Attempts
             /\ slack' \in [Attempts -> 0..Renew]
    BY <1>1, <1>3 DEF TypeOK, ForgetHold
<1> QED BY <1>2, <1>3

\* Joining the subscription: the first hold of a process opens it.
LEMMA JoinEffect ==
    ASSUME NEW a \in Attempts, JoinPreempts(a)
    PROVE  /\ listeners' = [listeners EXCEPT ![at[a]][on[a]] = a]
           /\ leaving' = leaving
           /\ shared[at[a]] = None => /\ shared' = [shared EXCEPT ![at[a]] = a]
                                      /\ feed' = [feed EXCEPT ![a] = "opening"]
                                      /\ joins' = [joins EXCEPT ![a] = a]
           /\ shared[at[a]] # None => /\ shared' = shared /\ feed' = feed
                                      /\ joins' = [joins EXCEPT ![a] = shared[at[a]]]
    BY DEF JoinPreempts

\* It assigns what the types allow,
LEMMA JoinType ==
    ASSUME TypeOK, NEW a \in Attempts, JoinPreempts(a)
    PROVE  /\ listeners' \in [Processes -> [Digests -> Attempts \cup {None}]]
           /\ shared' \in [Processes -> Attempts \cup {None}]
           /\ feed' \in [Attempts -> {"none", "opening", "open", "failed", "closed"}]
           /\ joins' \in [Attempts -> Attempts \cup {None}]
           /\ leaving' = leaving
<1>1. at[a] \in Processes /\ on[a] \in Digests
    BY DEF TypeOK
<1>2. listeners' \in [Processes -> [Digests -> Attempts \cup {None}]] /\ leaving' = leaving
    BY <1>1 DEF TypeOK, JoinPreempts
<1>3. shared' \in [Processes -> Attempts \cup {None}]
  <2>1. shared' = shared \/ shared' = [shared EXCEPT ![at[a]] = a]
    BY JoinEffect
  <2> QED BY <1>1, <2>1 DEF TypeOK
<1>4. feed' \in [Attempts -> {"none", "opening", "open", "failed", "closed"}]
  <2>1. feed' = feed \/ feed' = [feed EXCEPT ![a] = "opening"]
    BY JoinEffect
  <2> QED BY <1>1, <2>1 DEF TypeOK
<1>5. joins' \in [Attempts -> Attempts \cup {None}]
  <2>1. \E b \in Attempts : joins' = [joins EXCEPT ![a] = b]
    BY <1>1, JoinEffect DEF TypeOK
  <2> QED BY <1>1, <2>1 DEF TypeOK
<1> QED BY <1>2, <1>3, <1>4, <1>5

\* and so does leaving it.
LEMMA LeaveType ==
    ASSUME TypeOK, NEW a \in Attempts, LeavePreempts(a)
    PROVE  /\ listeners' \in [Processes -> [Digests -> Attempts \cup {None}]]
           /\ shared' \in [Processes -> Attempts \cup {None}]
           /\ joins' \in [Attempts -> Attempts \cup {None}]
           /\ leaving' \subseteq Attempts /\ feed' = feed
<1>1. listeners' \in [Processes -> [Digests -> Attempts \cup {None}]]
    BY DEF TypeOK, LeavePreempts
<1>2. shared' \in [Processes -> Attempts \cup {None}] /\ leaving' \subseteq Attempts
    BY DEF TypeOK, LeavePreempts, Closed
<1> QED BY <1>1, <1>2 DEF TypeOK, LeavePreempts

\* The first state is typed.
LEMMA InitType == Init => TypeOK
<1> SUFFICES ASSUME Init PROVE TypeOK
    OBVIOUS
<1>1. PICK home \in Homes : /\ at = [a \in Attempts |-> home[a].process]
                            /\ on = [a \in Attempts |-> home[a].digest]
    BY DEF Init
<1>2. \A a \in Attempts : home[a].process \in Processes /\ home[a].digest \in Digests
    BY HomesAssumption
<1>3. 0 \in 0..Renew /\ Renew \in 0..Renew /\ Timeout \in 0..Timeout /\ 0 \in 0..Ttl
    BY RenewBounds, TimesAssumption
<1>4. <<>> \in Seq(Commands)
    OBVIOUS
<1>5. pipe \in [Processes -> Seq(Commands)]
    BY <1>4 DEF Init
<1>6. /\ key \in [Digests -> Attempts \cup {None}]
      /\ ttl \in [Digests -> 0..Ttl]
      /\ \A d \in Digests : key[d] = None <=> ttl[d] = 0
    BY <1>3 DEF Init
<1>7. at \in [Attempts -> Processes] /\ on \in [Attempts -> Digests]
    BY <1>1, <1>2
<1>8. pc \in [Attempts -> Pending \cup {"idle", "holding", "released", "refused", "dead"}]
    BY DEF Init
<1> HIDE DEF Pending
<1> QED BY <1>3, <1>5, <1>6, <1>7, <1>8 DEF Init, TypeOK

\* The steps of an acquire,
LEMMA AcquireType ==
    ASSUME TypeOK, NEW a \in Attempts, NEW inTime \in BOOLEAN,
           \/ TryTake(a) \/ TimedOut(a) \/ SetAbandoned(a, inTime) \/ SetTook(a)
           \/ SetRefused(a) \/ Joined(a) \/ JoinFailed(a)
    PROVE  TypeOK'
<1> USE IssueType, ForgetType DEF serverVars, acquireVars, watchVars, preemptVars, Pending
<1>1. CASE TryTake(a)
  <2>1. Renew \in 0..Renew
    BY RenewBounds
  <2> QED BY <1>1, <2>1 DEF TryTake, TypeOK
<1>2. CASE TimedOut(a)
    BY <1>2 DEF TimedOut, TypeOK
<1>3. CASE SetAbandoned(a, inTime)
    BY <1>3 DEF SetAbandoned, ReleaseKey, TypeOK
<1>4. CASE SetTook(a)
    BY <1>4, JoinType DEF SetTook, TypeOK
<1>5. CASE SetRefused(a)
  <2>1. CASE pc' = [pc EXCEPT ![a] = "refused"] /\ ForgetRound({a}) /\ pipe' = pipe
    BY <1>5, <2>1 DEF SetRefused, TypeOK
  <2>2. CASE /\ pc' = [pc EXCEPT ![a] = "polling"]
              /\ pipe' = Issue("publish", a)
              /\ answer' = [answer EXCEPT ![a] = "none"]
              /\ budget' = budget
    BY <1>5, <2>2 DEF SetRefused, TypeOK
  <2> QED BY <1>5, <2>1, <2>2 DEF SetRefused
<1>6. CASE Joined(a)
    BY <1>6 DEF Joined, TypeOK
<1>7. CASE JoinFailed(a)
    BY <1>7, LeaveType DEF JoinFailed, ReleaseKey, TypeOK
<1> QED BY <1>1, <1>2, <1>3, <1>4, <1>5, <1>6, <1>7

\* those of a hold and of its subscription,
LEMMA HoldType ==
    ASSUME TypeOK, NEW a \in Attempts, NEW inTime \in BOOLEAN,
           \/ WatchdogFires(a) \/ RenewalAnswered(a) \/ RenewalFailed(a, inTime) \/ Release(a)
           \/ SubscribeLands(a) \/ SubscribeFails(a) \/ Unsubscribe(a)
    PROVE  TypeOK'
<1> USE IssueType, ForgetType, RenewBounds
        DEF serverVars, acquireVars, watchVars, preemptVars, Pending
<1>1. CASE WatchdogFires(a)
  <2>1. pipe' \in [Processes -> Seq(Commands)]
    BY <1>1 DEF WatchdogFires, TypeOK
  <2>2. Renew \in 0..Renew
    BY RenewBounds
  <2> QED BY <1>1, <2>1, <2>2 DEF WatchdogFires, TypeOK
<1>2. CASE RenewalAnswered(a)
  <2>1. Renew \in 0..Renew
    BY RenewBounds
  <2> QED BY <1>2, <2>1 DEF RenewalAnswered, TypeOK
<1>3. CASE RenewalFailed(a, inTime)
    BY <1>3 DEF RenewalFailed, TypeOK
<1>4. CASE Release(a)
    BY <1>4, LeaveType DEF Release, ReleaseKey, TypeOK
<1>5. CASE SubscribeLands(a)
    BY <1>5 DEF SubscribeLands, TypeOK
<1>6. CASE SubscribeFails(a)
    BY <1>6 DEF SubscribeFails, TypeOK
<1>7. CASE Unsubscribe(a)
    BY <1>7 DEF Unsubscribe, TypeOK
<1> QED BY <1>1, <1>2, <1>3, <1>4, <1>5, <1>6, <1>7

\* those of the server, the connection and a crash,
LEMMA ServerType ==
    ASSUME TypeOK, NEW p \in Processes, Execute(p) \/ Lose(p) \/ Crash(p)
    PROVE  TypeOK'
<1> USE DEF serverVars, acquireVars, watchVars, preemptVars, Pending
<1>1. CASE Execute(p)
  <2> DEFINE a == Head(pipe[p]).by
             d == on[a]
  <2>1. pipe[p] # <<>> /\ pipe[p] \in Seq(Commands)
    BY <1>1, ZenonT(60) DEF Execute, TypeOK
  <2>2. a \in Attempts /\ d \in Digests /\ pipe' \in [Processes -> Seq(Commands)]
    BY <1>1, <2>1, Leaving, ZenonT(60) DEF Execute, TypeOK, Commands
  <2>3. /\ key' \in [Digests -> Attempts \cup {None}]
        /\ ttl' \in [Digests -> 0..Ttl]
        /\ \A e \in Digests : key'[e] = None <=> ttl'[e] = 0
    <3>1. \/ key' = key /\ ttl' = ttl
          \/ key' = [key EXCEPT ![d] = a] /\ ttl' = [ttl EXCEPT ![d] = Ttl]
          \/ key' = key /\ ttl' = [ttl EXCEPT ![d] = Ttl] /\ key[d] = a
          \/ key' = [key EXCEPT ![d] = None] /\ ttl' = [ttl EXCEPT ![d] = 0]
      BY <1>1, ZenonT(60) DEF Execute, OwnHold
    <3>2. Ttl \in 0..Ttl /\ 0 \in 0..Ttl /\ Ttl # 0 /\ a # None
      BY <2>2, TimesAssumption, NoneAssumption
    <3> HIDE DEF a, d
    <3>3. key' \in [Digests -> Attempts \cup {None}]
      BY <2>2, <3>1 DEF TypeOK
    <3>4. ttl' \in [Digests -> 0..Ttl]
      <4>1. ttl \in [Digests -> 0..Ttl]
        BY DEF TypeOK
      <4>2. \/ ttl' = ttl
            \/ ttl' = [ttl EXCEPT ![d] = Ttl]
            \/ ttl' = [ttl EXCEPT ![d] = 0]
        BY <3>1
      <4> QED BY <2>2, <3>2, <4>1, <4>2
    <3>5. ASSUME NEW e \in Digests PROVE key'[e] = None <=> ttl'[e] = 0
      <4>1. /\ key[e] = None <=> ttl[e] = 0
            /\ DOMAIN key = Digests /\ DOMAIN ttl = Digests
            /\ key[d] = a => ttl[d] # 0
        BY <2>2, <3>2, <3>5 DEF TypeOK
      <4>2. CASE e = d
        BY <2>2, <3>1, <3>2, <4>1, <4>2
      <4>3. CASE e # d
        BY <2>2, <3>1, <4>1, <4>3
      <4> QED BY <4>2, <4>3
    <3> QED BY <3>3, <3>4, <3>5
  <2>4. /\ answer' \in [Attempts -> {"none", "OK", "null"}]
        /\ renewal' \in [Attempts -> {"none", "sent", "ours", "gone"}]
    <3>1. \/ answer' = answer
          \/ answer' = [answer EXCEPT ![a] = "OK"]
          \/ answer' = [answer EXCEPT ![a] = "null"]
      BY <1>1, ZenonT(60) DEF Execute, Heard
    <3>2. \/ renewal' = renewal
          \/ renewal' = [renewal EXCEPT ![a] = "ours"]
          \/ renewal' = [renewal EXCEPT ![a] = "gone"]
      BY <1>1, <2>2, ZenonT(60) DEF Execute, TypeOK
    <3> HIDE DEF a, d
    <3> QED BY <2>2, <3>1, <3>2, ZenonT(60) DEF TypeOK
  <2> QED BY <1>1, <2>2, <2>3, <2>4, ZenonT(60) DEF Execute, TypeOK
<1>2. CASE Lose(p)
  <2>1. Head(pipe[p]) \in Commands /\ pipe' \in [Processes -> Seq(Commands)]
    BY <1>2, Leaving DEF Lose, TypeOK
  <2>2. delLost' \subseteq Attempts
    BY <1>2, <2>1 DEF Lose, TypeOK, Commands
  <2> QED BY <1>2, <2>1, <2>2 DEF Lose, TypeOK
<1>3. CASE Crash(p)
    BY <1>3, ForgetType DEF Crash, TypeOK
<1> QED BY <1>1, <1>2, <1>3, SMTT(60)

\* and that of the clock.
LEMMA TickType ==
    ASSUME TypeOK, Tick
    PROVE  TypeOK'
<1> USE DEF serverVars, acquireVars, watchVars, preemptVars, Pending
<1>1. /\ key' \in [Digests -> Attempts \cup {None}]
      /\ ttl' \in [Digests -> 0..Ttl]
      /\ \A e \in Digests : key'[e] = None <=> ttl'[e] = 0
    BY TimesAssumption, NoneAssumption DEF Tick, Expires, TypeOK
<1>2. /\ budget' \in [Attempts -> 0..Timeout]
      /\ beat' \in [Attempts -> 0..Renew] /\ patience' \in [Attempts -> 0..Renew]
    BY LessIn, RenewBounds, TimesAssumption DEF Tick, TypeOK
<1>3. slack' \in [Attempts -> 0..Renew]
    BY LessIn, RenewBounds DEF Tick, TypeOK
<1> QED BY <1>1, <1>2, <1>3 DEF Tick, TypeOK

-------------------------------------------------------------------------------
(* What becomes of a key: a SET is on its way at most once and only while   *)
(* it is waited for or its caller gave up; one who gave up has a deletion   *)
(* behind it; and a key of an attempt that is over has a deletion coming.   *)

Line(a) == pipe[at[a]]
Fate(a) ==
    /\ Once(Line(a), a)
    /\ Has(Line(a), "set", a) =>
          (pc[a] = "setting" /\ answer[a] = "none") \/ pc[a] \in {"refused", "dead"}
    /\ Has(Line(a), "del", a) => pc[a] \in {"refused", "released"}
    /\ pc[a] = "refused" => a \in delLost \/ Behind(Line(a), a)
    /\ OwnHold(a) => pc[a] \notin {"idle", "polling"} /\ (pc[a] = "setting" => answer[a] = "OK")
    /\ pc[a] \in {"refused", "released"} /\ OwnHold(a) => a \in delLost \/ Has(Line(a), "del", a)

\* Every command is in the queue of the process that issued it.
Addressed == \A p \in Processes : \A i \in 1..Len(pipe[p]) : at[pipe[p][i].by] = p
Fates == Addressed /\ \A a \in Attempts : Fate(a)

\* Two queues that an attempt need not tell apart.
Alike(s, t, a) ==
    /\ Has(t, "set", a) => Has(s, "set", a)
    /\ Has(t, "del", a) <=> Has(s, "del", a)
    /\ Once(s, a) => Once(t, a)
    /\ Behind(s, a) => Behind(t, a)

\* The types of the parts used below.
LEMMA Parts ==
    ASSUME TypeOK, NEW a \in Attempts
    PROVE  /\ at[a] \in Processes /\ on[a] \in Digests /\ Line(a) \in Seq(Commands)
           /\ DOMAIN pc = Attempts /\ DOMAIN answer = Attempts
           /\ DOMAIN key = Digests /\ DOMAIN pipe = Processes
           /\ None # a
    BY NoneAssumption DEF TypeOK, Line

\* An attempt whose own state stands keeps its fate.
LEMMA FateStands ==
    ASSUME NEW a \in Attempts, Fate(a), pc'[a] = pc[a], answer'[a] = answer[a],
           at' = at, on' = on, delLost \subseteq delLost',
           key'[on[a]] = a => key[on[a]] = a, Alike(Line(a), pipe'[at[a]], a)
    PROVE  Fate(a)'
<1>1. Line(a)' = pipe'[at[a]] /\ (OwnHold(a)' <=> key'[on[a]] = a)
    BY DEF Line, OwnHold
<1>2. Alike(Line(a), Line(a)', a) /\ (OwnHold(a)' => OwnHold(a))
    BY <1>1 DEF OwnHold
<1> HIDE DEF Line, OwnHold
<1> QED BY <1>2 DEF Fate, Alike

\* A command issued by one attempt changes nothing for another.
LEMMA Issued ==
    ASSUME TypeOK, Addressed, NEW a \in Attempts, at' = at,
           NEW op \in {"set", "publish", "renew", "del"}, pipe' = Issue(op, a)
    PROVE  /\ pipe'[at[a]] = Append(Line(a), Command(op, a))
           /\ op \notin {"set", "del"} => Alike(Line(a), pipe'[at[a]], a)
           /\ \A b \in Attempts \ {a} : Alike(Line(b), pipe'[at[b]], b)
           /\ Addressed'
<1>1. /\ pipe'[at[a]] = Append(Line(a), Command(op, a))
      /\ \A p \in Processes \ {at[a]} : pipe'[p] = pipe[p]
    BY Parts DEF Issue, Command, Line
<1>2. ASSUME NEW b \in Attempts, b # a \/ op \notin {"set", "del"}
      PROVE  Alike(Line(b), pipe'[at[b]], b)
  <2>1. CASE at[b] # at[a]
    BY <1>1, <2>1, Parts DEF Alike, Line
  <2>2. CASE at[b] = at[a]
    <3> DEFINE s == Line(a)
               e == Command(op, a)
    <3>1. s \in Seq(Commands) /\ e \in Commands /\ Line(b) = s
          /\ pipe'[at[b]] = Append(s, e)
      BY <1>1, <2>2, Parts, CommandIn DEF Line
    <3>2. e # Command("set", b) /\ e # Command("del", b)
      BY <1>2, CommandFields
    <3> HIDE DEF s, e
    <3> QED BY <3>1, <3>2, Joining DEF Alike
  <2> QED BY <2>1, <2>2
<1>3. ASSUME NEW p \in Processes, NEW i \in 1..Len(pipe'[p])
      PROVE  at[pipe'[p][i].by] = p
  <2>1. CASE p # at[a]
    BY <1>1, <1>3, <2>1 DEF Addressed
  <2>2. CASE p = at[a]
    <3>1. Command(op, a).by = a /\ Line(a) \in Seq(Commands) /\ Command(op, a) \in Commands
      BY Parts, CommandIn DEF Command
    <3>2. CASE i \in 1..Len(Line(a))
      <4>1. pipe'[p][i] = pipe[p][i]
        BY <1>1, <2>2, <3>1, <3>2 DEF Line
      <4> QED BY <2>2, <3>2, <4>1 DEF Addressed, Line
    <3>3. CASE i \notin 1..Len(Line(a))
      <4>1. pipe'[p][i] = Command(op, a)
        BY <1>1, <1>3, <2>2, <3>1, <3>3
      <4> QED BY <2>2, <3>1, <4>1
    <3> QED BY <3>2, <3>3
  <2> QED BY <2>1, <2>2
<1>4. Addressed'
    BY <1>3 DEF Addressed
<1> QED BY <1>1, <1>2, <1>4

\* A step of one attempt is about the fate of that attempt.
LEMMA OwnFate ==
    ASSUME TypeOK, Fates, NEW a \in Attempts,
           key' = key, at' = at, on' = on, delLost' = delLost,
           \A b \in Attempts \ {a} : pc'[b] = pc[b] /\ answer'[b] = answer[b],
           pipe' = pipe \/ \E op \in {"set", "publish", "renew", "del"} : pipe' = Issue(op, a),
           Fate(a)'
    PROVE  Fates'
<1>1. Addressed' /\ \A b \in Attempts \ {a} : Alike(Line(b), pipe'[at[b]], b)
  <2>1. CASE pipe' = pipe
    BY <2>1 DEF Alike, Line, Fates, Addressed
  <2>2. CASE \E op \in {"set", "publish", "renew", "del"} : pipe' = Issue(op, a)
    BY <2>2, Issued DEF Fates
  <2> QED BY <2>1, <2>2
<1>2. ASSUME NEW b \in Attempts, b # a PROVE Fate(b)'
    BY <1>1, <1>2, FateStands DEF Fates
<1> QED BY <1>1, <1>2 DEF Fates

\* A step that leaves keys, queues and attempts alone is about nobody's.
LEMMA NoFate ==
    ASSUME Fates, UNCHANGED <<key, pipe, pc, answer, at, on, delLost>>
    PROVE  Fates'
    BY DEF Fates, Addressed, Fate, Line, OwnHold

\* At the outset nothing is on its way.
LEMMA InitFates == Init => Fates
<1> SUFFICES ASSUME Init PROVE Fates
    OBVIOUS
<1>1. \A p \in Processes : pipe[p] = <<>>
    BY DEF Init
<1>2. \A a \in Attempts : Line(a) = <<>> /\ ~OwnHold(a) /\ pc[a] = "idle"
    BY InitType, <1>1, Parts DEF Init, Line, OwnHold
<1>3. Len(<<>>) = 0
    OBVIOUS
<1> QED BY <1>1, <1>2, <1>3 DEF Fates, Fate, Addressed, Has, Once, Behind

\* The steps of an acquire.  A round starts with no SET on its way; who gives
\* up after one sends the deletion behind it.
LEMMA AcquireFates ==
    ASSUME TypeOK, Fates, NEW a \in Attempts, NEW inTime \in BOOLEAN,
           \/ TryTake(a) \/ TimedOut(a) \/ SetAbandoned(a, inTime) \/ SetTook(a)
           \/ SetRefused(a) \/ Joined(a) \/ JoinFailed(a)
    PROVE  Fates'
<1> USE DEF serverVars, acquireVars, watchVars, preemptVars
<1> DEFINE s == Line(a)
<1>1. Fate(a) /\ s \in Seq(Commands) /\ Addressed
    BY Parts DEF Fates
<1>2. /\ key' = key /\ at' = at /\ on' = on /\ delLost' = delLost
      /\ \A b \in Attempts \ {a} : pc'[b] = pc[b] /\ answer'[b] = answer[b]
    BY DEF TypeOK, TryTake, TimedOut, SetAbandoned, SetTook, SetRefused, Joined, JoinFailed, ForgetRound
<1>3. Line(a)' = pipe'[at[a]] /\ (OwnHold(a)' <=> OwnHold(a))
    BY <1>2 DEF Line, OwnHold
<1>4. ~Has(s, "set", a) => Behind(s, a)
    BY DEF Has, Behind
<1>5. ASSUME NEW op \in {"set", "publish", "renew", "del"}, pipe' = Issue(op, a)
      PROVE  /\ Line(a)' \in Seq(Commands)
             /\ \A o : Has(Line(a)', o, a) <=> Has(s, o, a) \/ o = op
             /\ (op = "set" => ~Has(s, "set", a)) => Once(Line(a)', a)
             /\ op = "del" => Behind(Line(a)', a)
             /\ op # "set" /\ Behind(s, a) => Behind(Line(a)', a)
  <2>1. Line(a)' = Append(s, Command(op, a)) /\ Command(op, a) \in Commands
    BY <1>1, <1>2, <1>3, <1>5, Issued, CommandIn
  <2>2. Once(s, a)
    BY <1>1 DEF Fate
  <2>3. \A o : Command(op, a) = Command(o, a) <=> o = op
    BY CommandFields
  <2> HIDE DEF s
  <2> DEFINE e == Command(op, a)
  <2>4. /\ Append(s, e) \in Seq(Commands)
        /\ \A o : Has(Append(s, e), o, a) <=> Has(s, o, a) \/ e = Command(o, a)
        /\ Once(s, a) /\ (e = Command("set", a) => ~Has(s, "set", a)) => Once(Append(s, e), a)
        /\ Behind(s, a) /\ e # Command("set", a) => Behind(Append(s, e), a)
        /\ e = Command("del", a) => Behind(Append(s, e), a)
    BY <1>1, <2>1, Joining
  <2> HIDE DEF e
  <2>5. /\ \A o : e = Command(o, a) <=> o = op
        /\ Line(a)' = Append(s, e)
    BY <2>1, <2>3 DEF e
  <2> QED BY <2>2, <2>4, <2>5
<1>6. ASSUME pipe' = pipe PROVE Line(a)' = s
    BY <1>3, <1>6 DEF Line
<1> HIDE DEF s
<1>7. Fate(a)' /\ (pipe' = pipe \/ \E op \in {"set", "publish", "renew", "del"} : pipe' = Issue(op, a))
  <2>1. CASE TryTake(a)
    <3>1. pipe' = Issue("set", a) /\ pc'[a] = "setting" /\ answer'[a] = "none"
          /\ pc[a] \in {"idle", "polling"}
      BY <2>1 DEF TryTake, TypeOK
    <3> QED BY <1>1, <1>3, <1>5, <3>1 DEF Fate, s
  <2>2. CASE TimedOut(a)
    <3>1. pipe' = pipe /\ pc'[a] = "refused" /\ pc[a] = "polling"
      BY <2>2 DEF TimedOut, TypeOK
    <3> QED BY <1>1, <1>3, <1>4, <1>6, <3>1 DEF Fate, s
  <2>3. CASE SetAbandoned(a, inTime)
    <3>1. pipe' = Issue("del", a) /\ pc'[a] = "refused" /\ pc[a] = "setting"
      BY <2>3 DEF SetAbandoned, ReleaseKey, TypeOK
    <3> QED BY <1>1, <1>3, <1>5, <3>1 DEF Fate, s
  <2>4. CASE SetTook(a)
    <3>1. pipe' = pipe /\ pc'[a] = "joining" /\ pc[a] = "setting" /\ answer[a] = "OK"
      BY <2>4 DEF SetTook, TypeOK
    <3> QED BY <1>1, <1>3, <1>6, <3>1 DEF Fate, s
  <2>5. CASE SetRefused(a)
    <3>1. pc[a] = "setting" /\ answer[a] = "null"
      BY <2>5 DEF SetRefused
    <3>2. CASE pipe' = pipe /\ pc'[a] = "refused"
      BY <1>1, <1>3, <1>4, <1>6, <3>1, <3>2 DEF Fate, s
    <3>3. CASE pipe' = Issue("publish", a) /\ pc'[a] = "polling"
      BY <1>1, <1>3, <1>5, <3>1, <3>3 DEF Fate, s
    <3> QED BY <2>5, <3>2, <3>3 DEF SetRefused, TypeOK
  <2>6. CASE Joined(a)
    <3>1. pipe' = pipe /\ pc'[a] = "holding" /\ pc[a] = "joining"
      BY <2>6 DEF Joined, TypeOK
    <3> QED BY <1>1, <1>3, <1>6, <3>1 DEF Fate, s
  <2>7. CASE JoinFailed(a)
    <3>1. pipe' = Issue("del", a) /\ pc'[a] = "refused" /\ pc[a] = "joining"
      BY <2>7 DEF JoinFailed, ReleaseKey, TypeOK
    <3> QED BY <1>1, <1>3, <1>5, <3>1 DEF Fate, s
  <2> QED BY <2>1, <2>2, <2>3, <2>4, <2>5, <2>6, <2>7
<1> QED BY <1>2, <1>7, OwnFate

\* The steps of a hold and of its subscription.
LEMMA HoldFates ==
    ASSUME TypeOK, Fates, NEW a \in Attempts, NEW inTime \in BOOLEAN,
           \/ WatchdogFires(a) \/ RenewalAnswered(a) \/ RenewalFailed(a, inTime) \/ Release(a)
           \/ SubscribeLands(a) \/ SubscribeFails(a) \/ Unsubscribe(a)
    PROVE  Fates'
<1> USE DEF serverVars, acquireVars, watchVars, preemptVars
<1>1. CASE WatchdogFires(a)
  <2>1. /\ UNCHANGED <<key, at, on, delLost, pc, answer>>
        /\ pipe' = pipe \/ pipe' = Issue("renew", a)
    BY <1>1 DEF WatchdogFires
  <2>2. Alike(Line(a), pipe'[at[a]], a)
    BY <2>1, Issued DEF Fates, Alike, Line
  <2>3. Fate(a)'
    BY <2>1, <2>2, FateStands DEF Fates
  <2> QED BY <2>1, <2>3, OwnFate
<1>2. CASE Release(a)
  <2>1. /\ UNCHANGED <<key, at, on, delLost, answer>> /\ pipe' = Issue("del", a)
        /\ pc[a] = "holding" /\ pc'[a] = "released"
        /\ \A b \in Attempts \ {a} : pc'[b] = pc[b]
    BY <1>2 DEF Release, ReleaseKey, TypeOK
  <2>2. /\ Line(a) \in Seq(Commands) /\ Command("del", a) \in Commands
        /\ Line(a)' = Append(Line(a), Command("del", a))
    BY <2>1, Parts, CommandIn, Issued DEF Fates, Line
  <2>3. /\ \A o : Has(Line(a)', o, a) <=> Has(Line(a), o, a) \/ o = "del"
        /\ Once(Line(a), a) => Once(Line(a)', a)
    BY <2>2, Joining, CommandFields
  <2>4. Fate(a)'
    BY <2>1, <2>3 DEF Fates, Fate, OwnHold
  <2> QED BY <2>1, <2>4, OwnFate
<1>3. CASE UNCHANGED <<key, pipe, pc, answer, at, on, delLost>>
    BY <1>3, NoFate
<1> QED BY <1>1, <1>2, <1>3 DEF RenewalAnswered, RenewalFailed, SubscribeLands, SubscribeFails, Unsubscribe

\* The oldest command of a process is somebody's.
LEMMA Oldest ==
    ASSUME TypeOK, NEW p \in Processes, pipe[p] # <<>>
    PROVE  \E a \in Attempts, op \in {"set", "publish", "renew", "del"} :
               Head(pipe[p]) = Command(op, a)
<1>1. Head(pipe[p]) \in Commands
    BY Leaving DEF TypeOK
<1> QED BY <1>1 DEF Commands, Command

\* Executed or lost, it is out of the queue, and nothing changes for another.
LEMMA Dequeued ==
    ASSUME TypeOK, Addressed, NEW p \in Processes, pipe[p] # <<>>, at' = at,
           pipe' = [pipe EXCEPT ![p] = Tail(@)],
           NEW a \in Attempts, NEW op \in {"set", "publish", "renew", "del"},
           Head(pipe[p]) = Command(op, a)
    PROVE  /\ at[a] = p /\ Has(Line(a), op, a)
           /\ \A o : Has(Line(a), o, a) <=> Has(pipe'[p], o, a) \/ op = o
           /\ Once(Line(a), a) => Once(pipe'[p], a)
           /\ Once(Line(a), a) /\ op = "set" => ~Has(pipe'[p], "set", a)
           /\ Behind(Line(a), a) => Behind(pipe'[p], a)
           /\ Behind(Line(a), a) /\ op = "set" => Has(pipe'[p], "del", a)
           /\ \A b \in Attempts : b # a \/ op # "del" => Alike(Line(b), pipe'[at[b]], b)
           /\ Addressed'
<1> DEFINE s == pipe[p]
<1>1. s \in Seq(Commands) /\ pipe'[p] = Tail(s) /\ Head(s) = s[1]
      /\ Len(s) >= 1 /\ Len(s) \in Nat /\ s # <<>>
    BY DEF TypeOK
<1>2. \A q \in Processes \ {p} : pipe'[q] = pipe[q]
    BY DEF TypeOK
<1>3. Command(op, a).by = a /\ Command(op, a).op = op
    BY DEF Command
<1>4. at[a] = p /\ Line(a) = s
    BY <1>1, <1>3 DEF Addressed, Line
<1>5. \A o, b : Head(s) = Command(o, b) <=> op = o /\ a = b
    BY CommandFields
<1>6. /\ Has(s, Head(s).op, Head(s).by)
      /\ \A o, b : Has(s, o, b) <=> Has(Tail(s), o, b) \/ Head(s) = Command(o, b)
      /\ \A b : Once(s, b) => Once(Tail(s), b)
      /\ \A b : Once(s, b) /\ Head(s) = Command("set", b) => ~Has(Tail(s), "set", b)
      /\ \A b : Behind(s, b) => Behind(Tail(s), b)
      /\ \A b : Behind(s, b) /\ Head(s) = Command("set", b) => Has(Tail(s), "del", b)
  <2> HIDE DEF s
  <2> QED BY <1>1, Leaving
<1>7. Has(s, op, a)
    BY <1>3, <1>6
<1>8. ASSUME NEW b \in Attempts, b # a \/ op # "del"
      PROVE  Alike(Line(b), pipe'[at[b]], b)
  <2>1. CASE at[b] # p
    BY <1>2, <2>1, Parts DEF Alike, Line
  <2>2. CASE at[b] = p
    <3>1. Line(b) = s /\ pipe'[at[b]] = Tail(s)
      BY <1>1, <2>2 DEF Line
    <3>2. Head(s) # Command("del", b)
      BY <1>5, <1>8
    <3> HIDE DEF s
    <3>3. /\ Has(Tail(s), "set", b) => Has(s, "set", b)
          /\ Has(Tail(s), "del", b) <=> Has(s, "del", b)
          /\ Once(s, b) => Once(Tail(s), b)
          /\ Behind(s, b) => Behind(Tail(s), b)
      BY <1>6, <3>2
    <3> QED BY <3>1, <3>3 DEF Alike
  <2> QED BY <2>1, <2>2
<1>9. ASSUME NEW q \in Processes, NEW i \in 1..Len(pipe'[q])
      PROVE  at[pipe'[q][i].by] = q
  <2>1. CASE q # p
    BY <1>2, <1>9, <2>1 DEF Addressed
  <2>2. CASE q = p
    <3>1. \A j \in 1..Len(Tail(s)) : j + 1 \in 1..Len(s) /\ Tail(s)[j] = s[j + 1]
      BY <1>1
    <3>2. i + 1 \in 1..Len(pipe[p]) /\ pipe'[p][i] = pipe[p][i + 1]
      BY <1>1, <1>9, <2>2, <3>1
    <3> QED BY <2>2, <3>2 DEF Addressed
  <2> QED BY <2>1, <2>2
<1>10. Addressed'
    BY <1>9 DEF Addressed
<1>11. /\ \A o : Has(s, o, a) <=> Has(pipe'[p], o, a) \/ op = o
       /\ Once(s, a) => Once(pipe'[p], a)
       /\ Once(s, a) /\ op = "set" => ~Has(pipe'[p], "set", a)
       /\ Behind(s, a) => Behind(pipe'[p], a)
       /\ Behind(s, a) /\ op = "set" => Has(pipe'[p], "del", a)
  <2> HIDE DEF s
  <2> QED BY <1>1, <1>5, <1>6
<1> HIDE DEF s
<1> QED BY <1>4, <1>7, <1>8, <1>10, <1>11

\* What the server makes of it.
LEMMA Executed ==
    ASSUME NEW p \in Processes, Execute(p), NEW a \in Attempts,
           NEW op \in {"set", "publish", "renew", "del"}, Head(pipe[p]) = Command(op, a)
    PROVE  /\ pipe[p] # <<>> /\ pipe' = [pipe EXCEPT ![p] = Tail(@)]
           /\ UNCHANGED <<pc, at, on, budget, beat, patience, lost, slack, preemptVars, delLost>>
           /\ \/ /\ op = "set" /\ key[on[a]] = None
                 /\ key' = [key EXCEPT ![on[a]] = a] /\ ttl' = [ttl EXCEPT ![on[a]] = Ttl]
                 /\ answer' = Heard(a, "OK") /\ renewal' = renewal
              \/ /\ op = "set" /\ key[on[a]] # None
                 /\ key' = key /\ ttl' = ttl
                 /\ answer' = Heard(a, "null") /\ renewal' = renewal
              \/ /\ op = "renew" /\ key' = key /\ answer' = answer
                 /\ ttl' = IF OwnHold(a) THEN [ttl EXCEPT ![on[a]] = Ttl] ELSE ttl
                 /\ renewal' = [renewal EXCEPT
                        ![a] = IF @ # "sent" THEN @ ELSE IF OwnHold(a) THEN "ours" ELSE "gone"]
              \/ /\ op = "del" /\ answer' = answer /\ renewal' = renewal
                 /\ key' = IF OwnHold(a) THEN [key EXCEPT ![on[a]] = None] ELSE key
                 /\ ttl' = IF OwnHold(a) THEN [ttl EXCEPT ![on[a]] = 0] ELSE ttl
              \/ /\ op = "publish"
                 /\ key' = key /\ ttl' = ttl /\ answer' = answer /\ renewal' = renewal
<1>1. Head(pipe[p]).by = a /\ Head(pipe[p]).op = op
    BY DEF Command
<1> QED BY <1>1 DEF Execute, serverVars

\* An executed command is about the fate of its own attempt.
LEMMA ExecuteFate ==
    ASSUME TypeOK, Fates, NEW p \in Processes, Execute(p)
    PROVE  Fates'
<1>1. PICK a \in Attempts, op \in {"set", "publish", "renew", "del"} :
          Head(pipe[p]) = Command(op, a)
    BY Oldest DEF Execute
<1>2. /\ pipe[p] # <<>> /\ pipe' = [pipe EXCEPT ![p] = Tail(@)]
      /\ UNCHANGED <<pc, at, on, delLost>> /\ Addressed
    BY <1>1, Executed DEF Fates
<1>3. /\ at[a] = p /\ Has(Line(a), op, a)
      /\ \A o : Has(Line(a), o, a) <=> Has(pipe'[p], o, a) \/ op = o
      /\ Once(Line(a), a) => Once(pipe'[p], a)
      /\ Once(Line(a), a) /\ op = "set" => ~Has(pipe'[p], "set", a)
      /\ Behind(Line(a), a) => Behind(pipe'[p], a)
      /\ Behind(Line(a), a) /\ op = "set" => Has(pipe'[p], "del", a)
      /\ \A b \in Attempts : b # a \/ op # "del" => Alike(Line(b), pipe'[at[b]], b)
      /\ Addressed'
    BY <1>1, <1>2, Dequeued
<1>4. /\ on[a] \in Digests /\ a # None /\ DOMAIN key = Digests /\ DOMAIN answer = Attempts
      /\ \A b \in Attempts : b # None
    BY Parts
<1>5. /\ \A b \in Attempts \ {a} : answer'[b] = answer[b]
      /\ \A b \in Attempts \ {a} : key'[on[b]] = b => key[on[b]] = b
      /\ op # "set" => answer' = answer
      /\ pc[a] # "setting" => answer'[a] = answer[a]
  <2>1. \/ answer' = answer
        \/ pc[a] = "setting" /\ op = "set" /\ \E reply : answer' = [answer EXCEPT ![a] = reply]
    BY <1>1, Executed, SMTT(60) DEF Heard
  <2>2. \/ key' = key
        \/ key' = [key EXCEPT ![on[a]] = a]
        \/ key' = [key EXCEPT ![on[a]] = None]
    BY <1>1, Executed
  <2>3. \A b \in Attempts \ {a} : key'[on[b]] = b => key[on[b]] = b
    BY <1>4, <2>2, Parts
  <2> QED BY <1>4, <2>1, <2>3
<1>6. ASSUME NEW b \in Attempts, b # a PROVE Fate(b)'
    BY <1>2, <1>3, <1>5, <1>6, FateStands DEF Fates
<1>7. Fate(a) /\ Line(a)' = pipe'[p] /\ (OwnHold(a)' <=> key'[on[a]] = a)
    BY <1>2, <1>3 DEF Fates, Line, OwnHold
<1>8. Fate(a)'
  <2>1. CASE op = "set"
    <3>1. /\ (pc[a] = "setting" /\ answer[a] = "none") \/ pc[a] \in {"refused", "dead"}
          /\ pc[a] = "refused" => a \in delLost \/ Has(pipe'[p], "del", a)
          /\ ~OwnHold(a) \/ pc[a] \in {"refused", "dead"}
      BY <1>3, <1>7, <2>1 DEF Fate
    <3>2. OwnHold(a)' /\ pc[a] = "setting" => answer'[a] = "OK"
      BY <1>1, <1>4, <1>7, <2>1, <3>1, Executed DEF Heard, OwnHold
    <3>3. ~Has(Line(a)', "set", a) /\ Once(Line(a)', a) /\ (Behind(Line(a), a) => Behind(Line(a)', a))
          /\ (Has(Line(a)', "del", a) <=> Has(Line(a), "del", a))
      BY <1>3, <1>7, <2>1 DEF Fate
    <3>4. pc' = pc /\ delLost' = delLost
      BY <1>2
    <3> QED BY <1>7, <3>1, <3>2, <3>3, <3>4 DEF Fate
  <2>2. CASE op = "del"
    <3>1. pc[a] \in {"refused", "released"} /\ ~OwnHold(a)'
      BY <1>1, <1>3, <1>4, <1>7, <2>2, Executed DEF Fate, OwnHold
    <3>2. Once(Line(a)', a) /\ (Behind(Line(a), a) => Behind(Line(a)', a))
          /\ (Has(Line(a)', "set", a) => Has(Line(a), "set", a))
      BY <1>3, <1>7 DEF Fate
    <3> QED BY <1>2, <1>5, <1>7, <2>2, <3>1, <3>2 DEF Fate
  <2>3. CASE op \in {"publish", "renew"}
    <3>1. key' = key /\ answer' = answer
      BY <1>1, <2>3, Executed
    <3> QED BY <1>2, <1>3, <1>7, <2>3, <3>1, FateStands
  <2> QED BY <2>1, <2>2, <2>3
<1> QED BY <1>3, <1>6, <1>8, SMTT(60) DEF Fates

\* A command lost and a crash,
LEMMA OutsideFate ==
    ASSUME TypeOK, Fates, NEW p \in Processes, Lose(p) \/ Crash(p)
    PROVE  Fates'
<1> USE DEF serverVars, acquireVars, watchVars, preemptVars
<1>1. CASE Lose(p)
  <2>1. PICK a \in Attempts, op \in {"set", "publish", "renew", "del"} :
            Head(pipe[p]) = Command(op, a)
    BY <1>1, Oldest DEF Lose
  <2>2. Command(op, a).op = op /\ Command(op, a).by = a
    BY DEF Command
  <2>3. /\ pipe[p] # <<>> /\ pipe' = [pipe EXCEPT ![p] = Tail(@)]
        /\ UNCHANGED <<key, pc, answer, at, on>> /\ delLost \subseteq delLost'
        /\ op = "del" => a \in delLost'
        /\ Addressed
    BY <1>1, <2>1, <2>2 DEF Lose, Fates
  <2>4. /\ at[a] = p
        /\ \A o : Has(Line(a), o, a) <=> Has(pipe'[p], o, a) \/ op = o
        /\ Once(Line(a), a) => Once(pipe'[p], a)
        /\ Behind(Line(a), a) => Behind(pipe'[p], a)
        /\ \A b \in Attempts : b # a \/ op # "del" => Alike(Line(b), pipe'[at[b]], b)
        /\ Addressed'
    BY <2>1, <2>3, Dequeued
  <2>5. ASSUME NEW b \in Attempts, b # a \/ op # "del" PROVE Fate(b)'
    BY <2>3, <2>4, <2>5, FateStands DEF Fates
  <2>6. CASE op = "del"
    <3>1. Fate(a) /\ (OwnHold(a)' <=> OwnHold(a)) /\ a \in delLost' /\ Line(a)' = pipe'[p]
      BY <2>3, <2>4, <2>6 DEF Fates, OwnHold, Line
    <3>2. pc' = pc /\ answer' = answer
      BY <2>3
    <3>3. Fate(a)'
      BY <2>4, <3>1, <3>2 DEF Fate
    <3> QED BY <2>4, <2>5, <3>3 DEF Fates
  <2> QED BY <2>4, <2>5, <2>6 DEF Fates
<1>2. CASE Crash(p)
  <2>1. /\ UNCHANGED <<key, pipe, at, on, delLost>>
        /\ \A a \in Attempts : (pc'[a] = pc[a] /\ answer'[a] = answer[a])
                               \/ (pc'[a] = "dead" /\ pc[a] \in Pending \cup {"holding"})
    BY <1>2 DEF Crash, ForgetRound, TypeOK
  <2>2. ASSUME NEW a \in Attempts PROVE Fate(a)'
    <3>1. CASE pc'[a] = pc[a] /\ answer'[a] = answer[a]
      <4>1. Alike(Line(a), pipe'[at[a]], a)
        BY <2>1 DEF Alike, Line
      <4> QED BY <2>1, <3>1, <4>1, FateStands DEF Fates
    <3>2. CASE pc'[a] = "dead" /\ pc[a] \in Pending \cup {"holding"}
      <4>1. Line(a)' = Line(a) /\ (OwnHold(a)' <=> OwnHold(a)) /\ Fate(a)
        BY <2>1 DEF Line, OwnHold, Fates
      <4> QED BY <3>2, <4>1 DEF Fate, Pending
    <3> QED BY <2>1, <3>1, <3>2
  <2> QED BY <2>1, <2>2 DEF Fates, Addressed
<1> QED BY <1>1, <1>2

\* and the clock.
LEMMA TickFate ==
    ASSUME TypeOK, Fates, Tick
    PROVE  Fates'
<1>1. /\ UNCHANGED <<pipe, pc, at, on, answer, delLost>>
      /\ \A a \in Attempts : key'[on[a]] = a => key[on[a]] = a
    BY Parts DEF Tick
<1>2. ASSUME NEW a \in Attempts PROVE Fate(a)'
  <2>1. Alike(Line(a), pipe'[at[a]], a)
    BY <1>1 DEF Alike, Line
  <2> QED BY <1>1, <2>1, FateStands DEF Fates
<1> QED BY <1>1, <1>2 DEF Fates, Addressed

-------------------------------------------------------------------------------
(* The preempt subscription.  Heeds: whoever has the lock and the key is    *)
(* the listener of its upload, on the shared subscription, and nobody else  *)
(* of its process has just been told that it took the same upload.          *)

Feeds ==
    /\ \A a \in Attempts : feed[a] # "none" => pc[a] \notin {"idle", "setting", "polling"}
    /\ \A a \in leaving : feed[a] \in {"opening", "open"}
    /\ \A p \in Processes : shared[p] # None =>
          at[shared[p]] = p /\ feed[shared[p]] \in {"opening", "open"} /\ shared[p] \notin leaving
    /\ \A a \in Attempts : joins[a] # None => at[joins[a]] = at[a]

Told(b) == pc[b] = "setting" /\ answer[b] = "OK"
Alone(a) == \A b \in Attempts \ {a} : ~(at[b] = at[a] /\ on[b] = on[a] /\ Told(b))
Heeds(a) ==
    pc[a] \in {"joining", "holding"} /\ OwnHold(a) =>
        /\ listeners[at[a]][on[a]] = a
        /\ pc[a] = "joining" =>
              joins[a] # None /\ (feed[joins[a]] = "failed" \/ joins[a] = shared[at[a]])
        /\ pc[a] = "holding" => shared[at[a]] # None /\ feed[shared[at[a]]] = "open"
        /\ Alone(a)

Routes == Feeds /\ NoStrayListener /\ \A a \in Attempts : Heeds(a)

\* Heeds is what a waiter needs.
LEMMA RoutesReach == TypeOK /\ Routes => PreemptReachesOwner
    BY DEF TypeOK, Routes, Feeds, Heeds, PreemptReachesOwner

\* At the outset nobody listens.
LEMMA InitRoutes == Init => Routes
<1> SUFFICES ASSUME Init PROVE Routes
    OBVIOUS
<1> QED BY InitType DEF Init, TypeOK, Routes, Feeds, NoStrayListener, Heeds

\* A step that leaves the subscriptions alone disturbs nobody as long as it
\* hands out no lock, starts no attempt over, and tells nobody that it took an
\* upload that is held.
LEMMA RoutesStand ==
    ASSUME TypeOK, Routes, UNCHANGED <<preemptVars, at, on>>,
           \A b \in Attempts : pc'[b] \in {"idle", "setting", "polling"} => feed[b] = "none",
           \A b \in Attempts : pc'[b] \in {"joining", "holding"} /\ key'[on[b]] = b =>
               pc'[b] = pc[b] /\ key[on[b]] = b,
           \A b, c \in Attempts :
               b # c /\ on[c] = on[b] /\ key'[on[b]] = b /\ Told(c)' => Told(c)
    PROVE  Routes'
<1>1. Feeds'
    BY DEF Routes, Feeds, preemptVars
<1>2. NoStrayListener'
    BY DEF Routes, NoStrayListener, preemptVars
<1>3. ASSUME NEW b \in Attempts, pc'[b] \in {"joining", "holding"}, key'[on[b]] = b
      PROVE  Heeds(b)'
  <2>1. Heeds(b) /\ OwnHold(b) /\ pc'[b] = pc[b]
    BY <1>3 DEF Routes, OwnHold
  <2>2. Alone(b)'
    BY <1>3, <2>1 DEF Heeds, Alone
  <2> QED BY <2>1, <2>2 DEF Heeds, preemptVars
<1>4. ASSUME NEW b \in Attempts PROVE Heeds(b)'
  <2>1. CASE pc'[b] \in {"joining", "holding"} /\ key'[on[b]] = b
    BY <1>3, <2>1
  <2>2. CASE ~(pc'[b] \in {"joining", "holding"} /\ key'[on[b]] = b)
    BY <2>2 DEF Heeds, OwnHold
  <2> QED BY <2>1, <2>2
<1> QED BY <1>1, <1>2, <1>4 DEF Routes

\* The steps that leave them alone: the rounds of an acquire and the watchdog,
LEMMA QuietRoutes ==
    ASSUME TypeOK, Routes, NEW a \in Attempts, NEW inTime \in BOOLEAN,
           \/ TryTake(a) \/ TimedOut(a) \/ SetAbandoned(a, inTime) \/ SetRefused(a)
           \/ WatchdogFires(a) \/ RenewalAnswered(a) \/ RenewalFailed(a, inTime)
    PROVE  Routes'
<1> USE DEF serverVars, acquireVars, watchVars
<1>1. CASE TryTake(a) \/ TimedOut(a) \/ SetAbandoned(a, inTime) \/ SetRefused(a)
  <2>1. /\ UNCHANGED <<preemptVars, at, on, key>>
        /\ pc[a] \in {"idle", "polling", "setting"}
        /\ pc'[a] = "polling" \/ pc'[a] = "refused" \/ (pc'[a] = "setting" /\ answer'[a] = "none")
        /\ \A b \in Attempts \ {a} : pc'[b] = pc[b] /\ answer'[b] = answer[b]
    BY <1>1 DEF TryTake, TimedOut, SetAbandoned, SetRefused, ForgetRound, TypeOK
  <2>2. \A b \in Attempts : pc'[b] \in {"idle", "setting", "polling"} => feed[b] = "none"
    BY <2>1 DEF Routes, Feeds
  <2> QED BY <2>1, <2>2, RoutesStand DEF Told
<1>2. CASE WatchdogFires(a) \/ RenewalAnswered(a) \/ RenewalFailed(a, inTime)
  <2>1. UNCHANGED <<preemptVars, at, on, key, pc, answer>>
    BY <1>2 DEF WatchdogFires, RenewalAnswered, RenewalFailed
  <2> QED BY <2>1, RoutesStand DEF Told, Routes, Feeds
<1> QED BY <1>1, <1>2

\* the server and a lost command,
LEMMA ServerRoutes ==
    ASSUME TypeOK, Fates, Routes, NEW p \in Processes, Execute(p) \/ Lose(p)
    PROVE  Routes'
<1> USE DEF serverVars, acquireVars, watchVars
<1>1. CASE Lose(p)
  <2>1. UNCHANGED <<preemptVars, at, on, key, pc, answer>>
    BY <1>1 DEF Lose
  <2> QED BY <2>1, RoutesStand DEF Told, Routes, Feeds
<1>2. CASE Execute(p)
  <2>1. PICK b \in Attempts, op \in {"set", "publish", "renew", "del"} :
            Head(pipe[p]) = Command(op, b)
    BY <1>2, Oldest, ZenonT(60) DEF Execute
  <2>2. /\ UNCHANGED <<preemptVars, at, on, pc>>
        /\ \/ key' = key /\ answer' = answer
           \/ key[on[b]] = None /\ key' = [key EXCEPT ![on[b]] = b] /\ answer' = Heard(b, "OK")
           \/ key' = key /\ answer' = Heard(b, "null")
           \/ key' = [key EXCEPT ![on[b]] = None] /\ answer' = answer
        /\ \/ key' = key \/ key' = [key EXCEPT ![on[b]] = None]
           \/ key' = [key EXCEPT ![on[b]] = b] /\ op = "set"
    BY <1>2, <2>1, Executed
  <2>3. op = "set" => pc[b] \notin {"joining", "holding"}
    <3>1. at[b] = p /\ Has(Line(b), op, b)
      BY <2>1, <1>2, Executed, Dequeued DEF Fates
    <3> QED BY <3>1 DEF Fates, Fate
  <2>4. \A c \in Attempts : on[c] \in Digests /\ c # None /\ DOMAIN key = Digests /\ DOMAIN answer = Attempts
    BY Parts
  <2>5. ASSUME NEW c \in Attempts, pc'[c] \in {"joining", "holding"}, key'[on[c]] = c
        PROVE  key[on[c]] = c
    BY <2>2, <2>3, <2>4, <2>5
  <2>6. ASSUME NEW c \in Attempts, NEW e \in Attempts, c # e, on[e] = on[c],
               key'[on[c]] = c, Told(e)'
        PROVE  Told(e)
    BY <2>2, <2>4, <2>6 DEF Told, Heard
  <2> QED BY <2>2, <2>5, <2>6, RoutesStand, SMTT(60) DEF Routes, Feeds
<1> QED BY <1>1, <1>2

\* and the clock.
LEMMA TickRoutes ==
    ASSUME TypeOK, Routes, Tick
    PROVE  Routes'
<1>1. /\ UNCHANGED <<preemptVars, at, on, pc, answer>>
      /\ \A b \in Attempts : key'[on[b]] = b => key[on[b]] = b
    BY Parts DEF Tick
<1> QED BY <1>1, RoutesStand DEF Told, Routes, Feeds

\* Joining: the entry displaced is that of a hold whose key expired.
LEMMA SetTookRoutes ==
    ASSUME TypeOK, Fates, Routes, NEW a \in Attempts, SetTook(a)
    PROVE  Routes'
<1> DEFINE p == at[a]
<1>1. /\ UNCHANGED <<key, at, on>> /\ Told(a) /\ pc'[a] = "joining" /\ ~Told(a)'
      /\ \A b \in Attempts \ {a} : pc'[b] = pc[b] /\ answer'[b] = answer[b]
      /\ OwnHold(a) => Alone(a)
    BY DEF SetTook, serverVars, Told, Alone, TypeOK
<1>2. \A b \in Attempts : Told(b)' => Told(b)
    BY <1>1 DEF Told
<1>3. /\ p \in Processes /\ on[a] \in Digests /\ feed[a] = "none" /\ leaving' = leaving
      /\ a # None /\ a \notin leaving
    BY <1>1, Parts, JoinType DEF Routes, Feeds, Told, SetTook, JoinPreempts
<1>4. /\ listeners'[p][on[a]] = a
      /\ \A q \in Processes, d \in Digests :
            q # p \/ d # on[a] => listeners'[q][d] = listeners[q][d]
    BY <1>3 DEF SetTook, JoinPreempts, TypeOK
<1>5. \/ /\ shared[p] = None /\ shared'[p] = a /\ feed'[a] = "opening" /\ joins'[a] = a
      \/ /\ shared[p] # None /\ shared'[p] = shared[p] /\ feed'[a] = feed[a]
         /\ joins'[a] = shared[p]
    BY <1>3, JoinEffect DEF SetTook, TypeOK
<1>6. /\ \A q \in Processes \ {p} : shared'[q] = shared[q]
      /\ \A b \in Attempts \ {a} : feed'[b] = feed[b] /\ joins'[b] = joins[b]
  <2>1. shared' = [shared EXCEPT ![p] = a] \/ shared' = shared
      BY <1>3, JoinEffect DEF SetTook
  <2>2. feed' = [feed EXCEPT ![a] = "opening"] \/ feed' = feed
      BY <1>3, JoinEffect DEF SetTook
  <2>3. joins' = [joins EXCEPT ![a] = a] \/ joins' = [joins EXCEPT ![a] = shared[p]]
      BY <1>3, JoinEffect DEF SetTook
  <2> HIDE DEF p
  <2> QED BY <2>1, <2>2, <2>3 DEF TypeOK
<1>7. /\ \A q \in Processes : shared[q] # None => shared[q] \in Attempts
      /\ \A b \in Attempts : joins[b] # None => joins[b] \in Attempts
      /\ \A b \in Attempts : at[b] \in Processes /\ on[b] \in Digests
    BY DEF TypeOK
<1> HIDE DEF p
<1>8. Feeds'
  <2>1. \A b \in Attempts : feed'[b] # "none" => pc'[b] \notin {"idle", "setting", "polling"}
    BY <1>1, <1>6 DEF Routes, Feeds
  <2>2. \A b \in leaving' : feed'[b] \in {"opening", "open"}
    BY <1>3, <1>6 DEF Routes, Feeds, TypeOK
  <2>3. ASSUME NEW q \in Processes, shared'[q] # None
        PROVE  at[shared'[q]] = q /\ feed'[shared'[q]] \in {"opening", "open"} /\ shared'[q] \notin leaving'
    BY <1>3, <1>5, <1>6, <1>7, <2>3 DEF Routes, Feeds, p
  <2>4. ASSUME NEW b \in Attempts, joins'[b] # None PROVE at[joins'[b]] = at[b]
    BY <1>3, <1>5, <1>6, <2>4 DEF Routes, Feeds, p
  <2> QED BY <1>1, <2>1, <2>2, <2>3, <2>4 DEF Feeds
<1>9. NoStrayListener'
  <2>1. ASSUME NEW b \in Attempts, feed'[b] \in {"opening", "open"}
        PROVE  b \in leaving' \/ shared'[at[b]] = b
    BY <1>3, <1>5, <1>6, <1>7, <2>1, NoneAssumption DEF Routes, NoStrayListener, p
  <2>2. ASSUME NEW q \in Processes, shared'[q] # None
        PROVE  \E d \in Digests : listeners'[q][d] # None
    BY <1>3, <1>4, <1>6, <2>2 DEF Routes, NoStrayListener
  <2> QED BY <1>1, <2>1, <2>2 DEF NoStrayListener
<1>10. ASSUME NEW b \in Attempts, pc'[b] \in {"joining", "holding"}, key[on[b]] = b
       PROVE  Heeds(b)'
  <2>1. CASE b = a
    <3>1. Alone(a)'
      BY <1>1, <1>2, <1>10, <2>1 DEF Alone, OwnHold
    <3> QED BY <1>1, <1>3, <1>4, <1>5, <2>1, <3>1 DEF Heeds, p
  <2>2. CASE b # a
    <3>1. Heeds(b) /\ OwnHold(b) /\ pc'[b] = pc[b] /\ pc[b] \in {"joining", "holding"}
      BY <1>1, <1>10, <2>2 DEF Routes, OwnHold
    <3>2. Alone(b)' /\ ~(at[b] = at[a] /\ on[b] = on[a])
      BY <1>1, <1>2, <2>2, <3>1 DEF Heeds, Alone
    <3>3. listeners'[at[b]][on[b]] = b
      BY <1>4, <1>7, <3>1, <3>2 DEF Heeds, p
    <3>4. pc[b] = "joining" =>
             joins'[b] # None /\ (feed'[joins'[b]] = "failed" \/ joins'[b] = shared'[at[b]])
      BY <1>3, <1>5, <1>6, <1>7, <2>2, <3>1 DEF Heeds
    <3>5. pc[b] = "holding" => shared'[at[b]] # None /\ feed'[shared'[at[b]]] = "open"
      BY <1>3, <1>5, <1>6, <1>7, <2>2, <3>1 DEF Heeds
    <3> QED BY <1>1, <3>1, <3>2, <3>3, <3>4, <3>5 DEF Heeds
  <2> QED BY <2>1, <2>2
<1>11. ASSUME NEW b \in Attempts PROVE Heeds(b)'
  <2>1. CASE pc'[b] \in {"joining", "holding"} /\ key[on[b]] = b
    BY <1>10, <2>1
  <2>2. CASE ~(pc'[b] \in {"joining", "holding"} /\ key[on[b]] = b)
    BY <1>1, <2>2 DEF Heeds, OwnHold
  <2> QED BY <2>1, <2>2
<1> QED BY <1>8, <1>9, <1>11 DEF Routes

\* A step about the subscriptions that hands out no lock but perhaps to one
\* that is joining, and tells nobody that it took an upload: what is left to
\* show of every other hold is that its entry and its subscription stand.
Stands(b) ==
    /\ listeners[at[b]][on[b]] = b => listeners'[at[b]][on[b]] = b
    /\ pc[b] = "joining" => joins'[b] = joins[b]
    /\ feed[joins[b]] = "failed" => feed'[joins[b]] = "failed"
    /\ listeners[at[b]][on[b]] = b /\ joins[b] = shared[at[b]] /\ joins[b] # None
          => joins[b] = shared'[at[b]] \/ feed'[joins[b]] = "failed"
    /\ listeners[at[b]][on[b]] = b /\ shared[at[b]] # None /\ feed[shared[at[b]]] = "open"
          => shared'[at[b]] = shared[at[b]] /\ feed'[shared[at[b]]] = "open"

\* Then it heeds as before.
LEMMA HeedStands ==
    ASSUME NEW b \in Attempts, Heeds(b), UNCHANGED <<key, at, on>>,
           pc'[b] = pc[b] \/ pc'[b] \notin {"joining", "holding"},
           \A c \in Attempts : Told(c)' => Told(c), Stands(b)
    PROVE  Heeds(b)'
<1>1. CASE pc'[b] \in {"joining", "holding"} /\ key[on[b]] = b
  <2>1. pc'[b] = pc[b] /\ OwnHold(b) /\ Alone(b)'
    BY <1>1 DEF OwnHold, Heeds, Alone
  <2> QED BY <1>1, <2>1 DEF Heeds, Stands
<1>2. CASE ~(pc'[b] \in {"joining", "holding"} /\ key[on[b]] = b)
  <2>1. ~(pc'[b] \in {"joining", "holding"} /\ OwnHold(b)')
    BY <1>2 DEF OwnHold
  <2> QED BY <2>1 DEF Heeds
<1> QED BY <1>1, <1>2

\* The subscription answered: it is the shared one, and open.
LEMMA JoinedRoutes ==
    ASSUME TypeOK, Routes, NEW a \in Attempts, Joined(a)
    PROVE  Routes'
<1>1. /\ UNCHANGED <<key, at, on, listeners, shared, feed, leaving>>
      /\ pc[a] = "joining" /\ pc'[a] = "holding" /\ feed[joins[a]] \in {"open", "closed"}
      /\ \A b \in Attempts \ {a} : pc'[b] = pc[b] /\ joins'[b] = joins[b] /\ answer'[b] = answer[b]
      /\ joins'[a] = None
    BY DEF Joined, ForgetRound, serverVars, TypeOK
<1>2. \A c \in Attempts : Told(c)' => Told(c)
    BY <1>1 DEF Told
<1>3. Feeds' /\ NoStrayListener'
    BY <1>1 DEF Routes, Feeds, NoStrayListener
<1>4. ASSUME NEW b \in Attempts, b # a PROVE Heeds(b)'
    BY <1>1, <1>2, <1>4, HeedStands DEF Routes, Stands
<1>5. Heeds(a)'
  <2>1. CASE OwnHold(a)
    <3>1. Alone(a)'
      BY <1>1, <1>2, <2>1 DEF Routes, Heeds, Alone
    <3>2. joins[a] = shared[at[a]] /\ joins[a] # None
      BY <1>1, <2>1 DEF Routes, Heeds
    <3>3. feed[shared[at[a]]] = "open"
      BY <1>1, <3>2 DEF Routes, Feeds, TypeOK
    <3> QED BY <1>1, <2>1, <3>1, <3>2, <3>3 DEF Routes, Heeds
  <2>2. CASE ~OwnHold(a)
    BY <1>1, <2>2 DEF Heeds, OwnHold
  <2> QED BY <2>1, <2>2
<1> QED BY <1>3, <1>4, <1>5 DEF Routes

\* Leaving: the caller's own entry goes, and with the last entry of the
\* process its subscription.
LEMMA LeaveRoutes ==
    ASSUME TypeOK, Routes, NEW a \in Attempts, JoinFailed(a) \/ Release(a)
    PROVE  Routes'
<1> DEFINE p == at[a]
<1>1. /\ UNCHANGED <<key, at, on>> /\ LeavePreempts(a)
      /\ pc'[a] \in {"refused", "released"}
      /\ \A b \in Attempts \ {a} : pc'[b] = pc[b] /\ answer'[b] = answer[b]
    BY DEF JoinFailed, Release, ForgetRound, serverVars, TypeOK
<1>2. \A c \in Attempts : Told(c)' => Told(c)
    BY <1>1 DEF Told
<1>3. /\ \A b \in Attempts : at[b] \in Processes /\ on[b] \in Digests /\ b # None
      /\ \A q \in Processes : shared[q] # None => shared[q] \in Attempts
      /\ \A b \in Attempts : joins[b] # None => joins[b] \in Attempts
    BY NoneAssumption DEF TypeOK
<1>4. /\ \A q \in Processes, d \in Digests :
            listeners'[q][d] = listeners[q][d]
               \/ (q = p /\ d = on[a] /\ listeners[q][d] = a /\ listeners'[q][d] = None)
      /\ feed' = feed /\ joins'[a] = None
      /\ \A b \in Attempts \ {a} : joins'[b] = joins[b]
    BY <1>1, <1>3 DEF LeavePreempts, OwnEntry, TypeOK
<1>5. \/ /\ \A d \in Digests : listeners'[p][d] = None
         /\ shared' = [shared EXCEPT ![p] = None] /\ leaving' = leaving \cup Closed(shared[p])
      \/ /\ \E d \in Digests : listeners'[p][d] # None
         /\ shared' = shared /\ leaving' = leaving
    BY <1>1 DEF LeavePreempts
<1>6. /\ \A q \in Processes \ {p} : shared'[q] = shared[q]
      /\ \/ /\ \A d \in Digests : listeners'[p][d] = None
            /\ shared'[p] = None
            /\ \A b \in Attempts : b \in leaving' <=> b \in leaving \/ b = shared[p]
         \/ /\ \E d \in Digests : listeners'[p][d] # None
            /\ shared'[p] = shared[p] /\ leaving' = leaving
      /\ leaving' \subseteq Attempts
    BY <1>3, <1>5, SMTT(60) DEF Closed, TypeOK
<1> HIDE DEF p
<1>7. Feeds'
  <2>1. \A b \in Attempts : feed'[b] # "none" => pc'[b] \notin {"idle", "setting", "polling"}
    BY <1>1, <1>4 DEF Routes, Feeds
  <2>2. \A b \in leaving' : feed'[b] \in {"opening", "open"}
    BY <1>3, <1>4, <1>6 DEF Routes, Feeds, p
  <2>3. ASSUME NEW q \in Processes, shared'[q] # None
        PROVE  at[shared'[q]] = q /\ feed'[shared'[q]] \in {"opening", "open"} /\ shared'[q] \notin leaving'
    BY <1>3, <1>4, <1>6, <2>3 DEF Routes, Feeds, p
  <2>4. ASSUME NEW b \in Attempts, joins'[b] # None PROVE at[joins'[b]] = at[b]
    BY <1>4, <2>4 DEF Routes, Feeds
  <2> QED BY <1>1, <2>1, <2>2, <2>3, <2>4 DEF Feeds
<1>8. NoStrayListener'
  <2>1. ASSUME NEW b \in Attempts, feed'[b] \in {"opening", "open"}
        PROVE  b \in leaving' \/ shared'[at[b]] = b
    BY <1>3, <1>4, <1>6, <2>1 DEF Routes, NoStrayListener, p
  <2>2. ASSUME NEW q \in Processes, shared'[q] # None
        PROVE  \E d \in Digests : listeners'[q][d] # None
    BY <1>3, <1>4, <1>6, <2>2 DEF Routes, NoStrayListener, p
  <2> QED BY <1>1, <2>1, <2>2 DEF NoStrayListener
<1>9. ASSUME NEW b \in Attempts PROVE Heeds(b)'
  <2>1. CASE b = a
    BY <1>1, <2>1 DEF Heeds
  <2>2. CASE b # a
    <3>1. listeners[at[b]][on[b]] = b => listeners'[at[b]][on[b]] = b /\ shared'[at[b]] = shared[at[b]]
      BY <1>3, <1>4, <1>6, <2>2
    <3>2. Stands(b)
      BY <1>3, <1>4, <2>2, <3>1 DEF Stands
    <3> QED BY <1>1, <1>2, <2>2, <3>2, HeedStands DEF Routes
  <2> QED BY <2>1, <2>2
<1> QED BY <1>7, <1>8, <1>9 DEF Routes

\* The subscription lands, fails or is closed.
LEMMA FeedRoutes ==
    ASSUME TypeOK, Routes, NEW a \in Attempts,
           SubscribeLands(a) \/ SubscribeFails(a) \/ Unsubscribe(a)
    PROVE  Routes'
<1> USE DEF serverVars, acquireVars, watchVars
<1>1. /\ UNCHANGED <<key, at, on, pc, answer, listeners, joins>>
      /\ \A b \in Attempts \ {a} : feed'[b] = feed[b]
      /\ \A b \in Attempts : at[b] \in Processes /\ b # None
      /\ \A q \in Processes : shared[q] # None => shared[q] \in Attempts
      /\ \A b \in Attempts : joins[b] # None => joins[b] \in Attempts
      /\ leaving \subseteq Attempts
    BY NoneAssumption DEF SubscribeLands, SubscribeFails, Unsubscribe, TypeOK
<1>2. \/ /\ feed[a] = "opening" /\ feed'[a] = "open" /\ shared' = shared /\ leaving' = leaving
      \/ /\ feed[a] = "opening" /\ feed'[a] = "failed" /\ leaving' = leaving \ {a}
         /\ \A q \in Processes : shared'[q] = IF q = at[a] /\ shared[q] = a THEN None ELSE shared[q]
      \/ /\ feed[a] = "open" /\ a \in leaving /\ feed'[a] = "closed" /\ leaving' = leaving \ {a}
         /\ shared' = shared
    BY DEF SubscribeLands, SubscribeFails, Unsubscribe, TypeOK
<1>3. Feeds'
  <2>1. \A b \in Attempts : feed'[b] # "none" => pc'[b] \notin {"idle", "setting", "polling"}
    BY <1>1, <1>2 DEF Routes, Feeds
  <2>2. \A b \in leaving' : feed'[b] \in {"opening", "open"}
    BY <1>1, <1>2 DEF Routes, Feeds
  <2>3. ASSUME NEW q \in Processes, shared'[q] # None
        PROVE  at[shared'[q]] = q /\ feed'[shared'[q]] \in {"opening", "open"} /\ shared'[q] \notin leaving'
    BY <1>1, <1>2, <2>3 DEF Routes, Feeds
  <2> QED BY <1>1, <2>1, <2>2, <2>3 DEF Routes, Feeds
<1>4. NoStrayListener'
  <2>1. ASSUME NEW b \in Attempts, feed'[b] \in {"opening", "open"}
        PROVE  b \in leaving' \/ shared'[at[b]] = b
    BY <1>1, <1>2, <2>1 DEF Routes, NoStrayListener
  <2>2. ASSUME NEW q \in Processes, shared'[q] # None
        PROVE  \E d \in Digests : listeners'[q][d] # None
    BY <1>1, <1>2, <2>2 DEF Routes, NoStrayListener
  <2> QED BY <1>1, <2>1, <2>2 DEF NoStrayListener
<1>5. ASSUME NEW b \in Attempts PROVE Heeds(b)'
  <2>1. /\ feed[a] # "failed"
        /\ shared[at[b]] # None => shared[at[b]] \notin leaving
    BY <1>1, <1>2 DEF Routes, Feeds
  <2>2. Told(b)' <=> Told(b)
    BY <1>1 DEF Told
  <2>3. CASE pc[b] \in {"joining", "holding"} /\ key[on[b]] = b
    <3>1. Heeds(b) /\ OwnHold(b) /\ Alone(b)'
      BY <1>1, <2>3 DEF Routes, Heeds, OwnHold, Alone, Told
    <3>2. pc[b] = "joining" =>
             joins'[b] # None /\ (feed'[joins'[b]] = "failed" \/ joins'[b] = shared'[at[b]])
      BY <1>1, <1>2, <2>1, <2>3, <3>1 DEF Heeds
    <3>3. pc[b] = "holding" => shared'[at[b]] # None /\ feed'[shared'[at[b]]] = "open"
      BY <1>1, <1>2, <2>1, <2>3, <3>1 DEF Heeds
    <3> QED BY <1>1, <2>3, <3>1, <3>2, <3>3 DEF Heeds
  <2>4. CASE ~(pc[b] \in {"joining", "holding"} /\ key[on[b]] = b)
    BY <1>1, <2>4 DEF Heeds, OwnHold
  <2> QED BY <2>3, <2>4
<1> QED BY <1>3, <1>4, <1>5 DEF Routes

\* A crash takes the listeners and the subscriptions of one process.
LEMMA CrashRoutes ==
    ASSUME TypeOK, Routes, NEW p \in Processes, Crash(p)
    PROVE  Routes'
<1>1. /\ UNCHANGED <<key, at, on>>
      /\ \A b \in Attempts : at[b] \in Processes /\ on[b] \in Digests
      /\ \A q \in Processes : shared[q] # None => shared[q] \in Attempts
      /\ \A b \in Attempts : joins[b] # None => joins[b] \in Attempts
      /\ leaving \subseteq Attempts
    BY DEF Crash, TypeOK, serverVars
<1>2. /\ \A b \in Attempts : pc'[b] = pc[b] \/ pc'[b] = "dead"
      /\ \A b \in Attempts : at[b] = p => pc'[b] \notin {"setting", "polling", "joining", "holding"}
      /\ \A b \in Attempts : at[b] # p => pc'[b] = pc[b] /\ answer'[b] = answer[b]
    BY DEF Crash, ForgetRound, TypeOK, Pending
<1>3. /\ \A q \in Processes \ {p} : listeners'[q] = listeners[q] /\ shared'[q] = shared[q]
      /\ shared'[p] = None
      /\ \A b \in Attempts :
            IF at[b] = p THEN feed'[b] \in {"none", "closed"} ELSE feed'[b] = feed[b]
      /\ \A b \in Attempts : feed[b] = "none" => feed'[b] = "none"
      /\ \A b \in Attempts : joins'[b] = joins[b] \/ joins'[b] = None
      /\ \A b \in Attempts : at[b] # p => joins'[b] = joins[b]
      /\ \A b \in Attempts : b \in leaving' <=> b \in leaving /\ at[b] # p
      /\ leaving' \subseteq Attempts
    BY <1>1 DEF Crash, TypeOK
<1>4. \A c \in Attempts : Told(c)' => Told(c)
    BY <1>2 DEF Told
<1>5. Feeds'
  <2>1. \A b \in Attempts : feed'[b] # "none" => pc'[b] \notin {"idle", "setting", "polling"}
    BY <1>2, <1>3 DEF Routes, Feeds
  <2>2. \A b \in leaving' : feed'[b] \in {"opening", "open"}
    BY <1>1, <1>3 DEF Routes, Feeds
  <2>3. ASSUME NEW q \in Processes, shared'[q] # None
        PROVE  at[shared'[q]] = q /\ feed'[shared'[q]] \in {"opening", "open"} /\ shared'[q] \notin leaving'
    BY <1>1, <1>3, <2>3 DEF Routes, Feeds
  <2>4. ASSUME NEW b \in Attempts, joins'[b] # None PROVE at[joins'[b]] = at[b]
    BY <1>3, <2>4 DEF Routes, Feeds
  <2> QED BY <1>1, <2>1, <2>2, <2>3, <2>4 DEF Feeds
<1>6. NoStrayListener'
  <2>1. ASSUME NEW b \in Attempts, feed'[b] \in {"opening", "open"}
        PROVE  b \in leaving' \/ shared'[at[b]] = b
    BY <1>1, <1>3, <2>1 DEF Routes, NoStrayListener
  <2>2. ASSUME NEW q \in Processes, shared'[q] # None
        PROVE  \E d \in Digests : listeners'[q][d] # None
    BY <1>1, <1>3, <2>2 DEF Routes, NoStrayListener
  <2> QED BY <1>1, <2>1, <2>2 DEF NoStrayListener
<1>7. ASSUME NEW b \in Attempts PROVE Heeds(b)'
  <2>1. CASE at[b] = p
    BY <1>2, <2>1 DEF Heeds
  <2>2. CASE at[b] # p
    <3>1. /\ feed[joins[b]] = "failed" /\ joins[b] # None => feed'[joins[b]] = "failed"
          /\ shared'[at[b]] = shared[at[b]] /\ listeners'[at[b]] = listeners[at[b]]
          /\ joins'[b] = joins[b]
          /\ shared[at[b]] # None => feed'[shared[at[b]]] = feed[shared[at[b]]]
      BY <1>1, <1>3, <2>2 DEF Routes, Feeds
    <3>2. Heeds(b) /\ pc'[b] = pc[b] /\ (Alone(b) => Alone(b)') /\ (OwnHold(b)' <=> OwnHold(b))
      BY <1>1, <1>2, <1>4, <2>2 DEF Routes, Alone, OwnHold
    <3> QED BY <1>1, <3>1, <3>2 DEF Heeds
  <2> QED BY <2>1, <2>2
<1> QED BY <1>5, <1>6, <1>7 DEF Routes

-------------------------------------------------------------------------------
(* The clock.  A process that does not stall measures the life of its key   *)
(* by its own countdowns: the key was taken or renewed no earlier than they *)
(* say.  When the lock is handed out the key is less than an interval old,  *)
(* at a beat less than two, and less than three at the next beat, where a   *)
(* renewal without an answer fails.                                         *)

Proven(a) ==
    /\ OwnHold(a) /\ renewal[a] # "gone"
    /\ renewal[a] = "none" => ttl[on[a]] + 2 * Renew >= Ttl + beat[a] + slack[a]
    /\ renewal[a] = "sent" => ttl[on[a]] + 3 * Renew >= Ttl + beat[a] + slack[a]
Clock(a) ==
    /\ pc[a] # "holding" => renewal[a] = "none"
    /\ at[a] \in Punctual =>
          /\ (Told(a) \/ pc[a] = "joining") /\ slack[a] > 0 =>
                OwnHold(a) /\ ttl[on[a]] + Renew >= Ttl + slack[a]
          /\ pc[a] = "holding" /\ a \notin lost =>
                /\ renewal[a] # "none" => patience[a] = beat[a]
                /\ renewal[a] = "ours" => OwnHold(a) /\ ttl[on[a]] + Renew >= Ttl + beat[a]
                /\ slack[a] > 0 => Proven(a)
Clocks == \A a \in Attempts : Clock(a)

\* The counters are numbers.
LEMMA Numbers ==
    ASSUME TypeOK, NEW a \in Attempts
    PROVE  /\ ttl[on[a]] \in Nat /\ ttl[on[a]] <= Ttl /\ Ttl \in Nat
           /\ slack[a] \in Nat /\ slack[a] <= Renew
           /\ beat[a] \in Nat /\ beat[a] <= Renew /\ patience[a] \in Nat
           /\ Renew \in Nat /\ Renew >= 1 /\ 3 * Renew <= Ttl
    BY RenewBounds, TimesAssumption DEF TypeOK

\* A clock stands if its own counters do and its key lives as long.
LEMMA ClockStands ==
    ASSUME TypeOK, TypeOK', NEW a \in Attempts, Clock(a), at' = at, on' = on,
           pc'[a] = pc[a], answer'[a] = answer[a], slack'[a] = slack[a], beat'[a] = beat[a],
           renewal'[a] = renewal[a], patience'[a] = patience[a], a \in lost' <=> a \in lost,
           key[on[a]] = a => key'[on[a]] = a /\ ttl'[on[a]] >= ttl[on[a]]
    PROVE  Clock(a)'
<1>1. (OwnHold(a) => OwnHold(a)' /\ ttl'[on[a]] >= ttl[on[a]]) /\ (Told(a)' <=> Told(a))
    BY DEF OwnHold, Told
<1>2. ttl'[on[a]] \in Nat /\ ttl[on[a]] \in Nat /\ Ttl \in Nat /\ Renew \in Nat
      /\ slack[a] \in Nat /\ beat[a] \in Nat
  <2>1. on[a] \in Digests
    BY DEF TypeOK
  <2> QED BY <2>1, Numbers DEF TypeOK
<1> HIDE DEF OwnHold, Told, Renew
<1>3. Proven(a) => Proven(a)'
    BY <1>1, <1>2 DEF Proven
<1> HIDE DEF Proven
<1> QED BY <1>1, <1>2, <1>3 DEF Clock

\* At the outset none runs.
LEMMA InitClocks == Init => Clocks
    BY DEF Init, Clocks, Clock, Told

\* A step of one attempt that leaves the server alone is about its clock.
LEMMA OwnClock ==
    ASSUME TypeOK, TypeOK', Clocks, NEW a \in Attempts, UNCHANGED <<key, ttl, at, on>>,
           \A b \in Attempts \ {a} :
              /\ pc'[b] = pc[b] /\ answer'[b] = answer[b] /\ slack'[b] = slack[b]
              /\ beat'[b] = beat[b] /\ renewal'[b] = renewal[b] /\ patience'[b] = patience[b]
              /\ b \in lost' <=> b \in lost,
           Clock(a)'
    PROVE  Clocks'
<1>1. ASSUME NEW b \in Attempts, b # a PROVE Clock(b)'
  <2>1. ttl'[on[b]] >= ttl[on[b]]
    BY Numbers
  <2> QED BY <1>1, <2>1, ClockStands DEF Clocks
<1> QED BY <1>1 DEF Clocks

\* The steps of an acquire: what the SET took is handed on to the hold.
LEMMA AcquireClocks ==
    ASSUME TypeOK, TypeOK', Clocks, NEW a \in Attempts, NEW inTime \in BOOLEAN,
           \/ TryTake(a) \/ TimedOut(a) \/ SetAbandoned(a, inTime) \/ SetTook(a)
           \/ SetRefused(a) \/ Joined(a) \/ JoinFailed(a)
    PROVE  Clocks'
<1> USE DEF serverVars, acquireVars, watchVars, preemptVars
<1>1. /\ UNCHANGED <<key, ttl, at, on, beat, renewal, patience, lost>>
      /\ \A b \in Attempts \ {a} :
            pc'[b] = pc[b] /\ answer'[b] = answer[b] /\ slack'[b] = slack[b]
  <2>1. /\ UNCHANGED <<key, ttl, at, on, beat, renewal, patience, lost>>
        /\ \E to : pc' = [pc EXCEPT ![a] = to]
        /\ answer' = answer \/ answer' = [answer EXCEPT ![a] = "none"] \/ ForgetRound({a})
        /\ slack' = slack \/ slack' = [slack EXCEPT ![a] = Renew]
    <3>1. CASE TryTake(a)
      BY <3>1 DEF TryTake
    <3>2. CASE TimedOut(a)
      BY <3>2 DEF TimedOut
    <3>3. CASE SetAbandoned(a, inTime)
      BY <3>3 DEF SetAbandoned
    <3>4. CASE SetTook(a)
      BY <3>4 DEF SetTook
    <3>5. CASE SetRefused(a)
      BY <3>5 DEF SetRefused
    <3>6. CASE Joined(a)
      BY <3>6 DEF Joined
    <3>7. CASE JoinFailed(a)
      BY <3>7 DEF JoinFailed
    <3> QED BY <3>1, <3>2, <3>3, <3>4, <3>5, <3>6, <3>7
  <2>2. \A b \in Attempts \ {a} : pc'[b] = pc[b]
    BY <2>1 DEF TypeOK
  <2>3. \A b \in Attempts \ {a} : answer'[b] = answer[b]
    BY <2>1, SMTT(60) DEF ForgetRound, TypeOK
  <2>4. \A b \in Attempts \ {a} : slack'[b] = slack[b]
    BY <2>1 DEF TypeOK
  <2> QED BY <2>1, <2>2, <2>3, <2>4
<1>2. (OwnHold(a)' <=> OwnHold(a)) /\ Clock(a) /\ pc[a] # "holding"
    BY <1>1 DEF OwnHold, Clocks, TryTake, TimedOut, SetAbandoned, SetTook, SetRefused,
                Joined, JoinFailed
<1>3. Clock(a)'
  <2>1. CASE TryTake(a) \/ TimedOut(a) \/ SetAbandoned(a, inTime) \/ SetRefused(a) \/ JoinFailed(a)
    <3>1. pc'[a] \in {"polling", "refused"} \/ (pc'[a] = "setting" /\ answer'[a] = "none")
      BY <2>1 DEF TypeOK, TryTake, TimedOut, SetAbandoned, SetRefused, JoinFailed
    <3> QED BY <1>1, <1>2, <3>1 DEF Clock, Told
  <2>2. CASE SetTook(a)
    <3>1. Told(a) /\ pc'[a] = "joining" /\ slack' = slack
      BY <2>2 DEF SetTook, Told, TypeOK
    <3> QED BY <1>1, <1>2, <3>1 DEF Clock
  <2>3. CASE Joined(a)
    <3>1. pc[a] = "joining" /\ pc'[a] = "holding" /\ ~Told(a)' /\ slack' = slack
      BY <2>3 DEF Joined, Told, TypeOK
    <3>2. renewal'[a] = "none" /\ beat'[a] = beat[a]
      BY <1>1, <1>2 DEF Clock
    <3>3. ttl[on[a]] + Renew >= Ttl + slack[a] => ttl[on[a]] + 2 * Renew >= Ttl + beat[a] + slack[a]
      BY Numbers
    <3> QED BY <1>1, <1>2, <3>1, <3>2, <3>3 DEF Clock, Proven
  <2> QED BY <2>1, <2>2, <2>3
<1> QED BY <1>1, <1>3, OwnClock

\* The watchdog, the release and the subscription.
LEMMA HoldClocks ==
    ASSUME TypeOK, TypeOK', Clocks, NEW a \in Attempts, NEW inTime \in BOOLEAN,
           \/ WatchdogFires(a) \/ RenewalAnswered(a) \/ RenewalFailed(a, inTime) \/ Release(a)
           \/ SubscribeLands(a) \/ SubscribeFails(a) \/ Unsubscribe(a)
    PROVE  Clocks'
<1> USE DEF serverVars, acquireVars, watchVars, preemptVars
<1>1. /\ UNCHANGED <<key, ttl, at, on, answer>>
      /\ \A b \in Attempts \ {a} :
            /\ pc'[b] = pc[b] /\ beat'[b] = beat[b] /\ renewal'[b] = renewal[b]
            /\ slack'[b] = slack[b] /\ patience'[b] = patience[b] /\ (b \in lost' <=> b \in lost)
  <2>1. CASE WatchdogFires(a) \/ RenewalAnswered(a) \/ RenewalFailed(a, inTime)
    BY <2>1, SMTT(60) DEF TypeOK, WatchdogFires, RenewalAnswered, RenewalFailed
  <2>2. CASE Release(a)
    BY <2>2, SMTT(60) DEF TypeOK, Release, ForgetHold
  <2>3. CASE SubscribeLands(a) \/ SubscribeFails(a) \/ Unsubscribe(a)
    BY <2>3 DEF SubscribeLands, SubscribeFails, Unsubscribe
  <2> QED BY <2>1, <2>2, <2>3
<1>2. ttl'[on'[a]] = ttl[on[a]] /\ (OwnHold(a)' <=> OwnHold(a)) /\ Clock(a)
    BY <1>1 DEF OwnHold, Clocks
<1>3. Clock(a)'
  <2>1. CASE WatchdogFires(a)
    <3>1. /\ pc[a] = "holding" /\ pc' = pc /\ beat[a] = 0 /\ ~Unanswered(a) /\ lost' = lost
          /\ beat'[a] = Renew /\ renewal'[a] = "sent" /\ patience'[a] = Renew /\ slack' = slack
      BY <2>1 DEF WatchdogFires, TypeOK
    <3>2. ttl[on[a]] + 2 * Renew >= Ttl + beat[a] + slack[a] =>
             ttl[on[a]] + 3 * Renew >= Ttl + Renew + slack[a]
      BY <3>1, Numbers
    <3>3. at[a] \in Punctual /\ a \notin lost => renewal[a] = "none"
      BY <1>2, <3>1 DEF Clock, Unanswered
    <3> QED BY <1>1, <1>2, <3>1, <3>2, <3>3 DEF Clock, Told, Proven
  <2>2. CASE RenewalAnswered(a)
    <3>1. /\ pc[a] = "holding" /\ pc' = pc /\ renewal[a] \in {"ours", "gone"}
          /\ beat' = beat /\ renewal'[a] = "none"
          /\ a \notin lost' => a \notin lost /\ renewal[a] = "ours" /\ slack'[a] = Renew
      BY <2>2 DEF RenewalAnswered, TypeOK
    <3>2. ttl[on[a]] + Renew >= Ttl + beat[a] => ttl[on[a]] + 2 * Renew >= Ttl + beat[a] + Renew
      BY Numbers
    <3> QED BY <1>1, <1>2, <3>1, <3>2 DEF Clock, Told, Proven
  <2>3. CASE RenewalFailed(a, inTime)
    <3>1. pc[a] = "holding" /\ pc' = pc /\ a \in lost'
      BY <2>3 DEF RenewalFailed
    <3> QED BY <1>1, <1>2, <3>1 DEF Clock, Told
  <2>4. CASE Release(a)
    <3>1. pc'[a] = "released" /\ renewal'[a] = "none"
      BY <2>4 DEF Release, ForgetHold, TypeOK
    <3> QED BY <3>1 DEF Clock, Told
  <2>5. CASE SubscribeLands(a) \/ SubscribeFails(a) \/ Unsubscribe(a)
    <3>1. UNCHANGED <<acquireVars, watchVars>>
      BY <2>5 DEF SubscribeLands, SubscribeFails, Unsubscribe
    <3> QED BY <1>1, <1>2, <3>1 DEF Clock, Told, Proven
  <2> QED BY <2>1, <2>2, <2>3, <2>4, <2>5
<1> QED BY <1>1, <1>3, OwnClock

\* The server: a SET starts the clock anew, a renewal finds the key, and no
\* deletion of a hold is on its way.
LEMMA ExecuteClocks ==
    ASSUME TypeOK, TypeOK', Fates, Clocks, NEW p \in Processes, Execute(p)
    PROVE  Clocks'
<1>1. PICK a \in Attempts, op \in {"set", "publish", "renew", "del"} :
          Head(pipe[p]) = Command(op, a)
    BY Oldest DEF Execute
<1>2. /\ pipe[p] # <<>> /\ pipe' = [pipe EXCEPT ![p] = Tail(@)]
      /\ UNCHANGED <<pc, at, on, beat, patience, lost, slack>>
    BY <1>1, Executed
<1>3. /\ Has(Line(a), op, a) /\ Fate(a)
    BY <1>1, <1>2, Dequeued DEF Fates
<1>4. /\ op = "set" => (pc[a] = "setting" /\ answer[a] = "none") \/ pc[a] \in {"refused", "dead"}
      /\ op = "del" => pc[a] \in {"refused", "released"}
    BY <1>3 DEF Fate
<1>5. /\ \A b \in Attempts : on[b] \in Digests /\ b # None
      /\ DOMAIN key = Digests /\ DOMAIN ttl = Digests
      /\ DOMAIN answer = Attempts /\ DOMAIN renewal = Attempts
    BY Parts DEF TypeOK
<1>6. \/ /\ op = "set" /\ key[on[a]] = None /\ renewal' = renewal
         /\ key' = [key EXCEPT ![on[a]] = a] /\ ttl' = [ttl EXCEPT ![on[a]] = Ttl]
         /\ answer' = Heard(a, "OK")
      \/ /\ op = "set" /\ key' = key /\ ttl' = ttl /\ renewal' = renewal
         /\ answer' = Heard(a, "null")
      \/ /\ op = "renew" /\ key' = key /\ answer' = answer
         /\ ttl' = IF OwnHold(a) THEN [ttl EXCEPT ![on[a]] = Ttl] ELSE ttl
         /\ renewal' = [renewal EXCEPT
                ![a] = IF @ # "sent" THEN @ ELSE IF OwnHold(a) THEN "ours" ELSE "gone"]
      \/ /\ op = "del" /\ answer' = answer /\ renewal' = renewal
         /\ key' = IF OwnHold(a) THEN [key EXCEPT ![on[a]] = None] ELSE key
         /\ ttl' = IF OwnHold(a) THEN [ttl EXCEPT ![on[a]] = 0] ELSE ttl
      \/ /\ op = "publish"
         /\ key' = key /\ ttl' = ttl /\ answer' = answer /\ renewal' = renewal
    BY <1>1, Executed
<1>7. ASSUME NEW b \in Attempts, b # a PROVE Clock(b)'
  <2>1. answer'[b] = answer[b] /\ renewal'[b] = renewal[b]
    BY <1>5, <1>6, <1>7 DEF Heard
  <2>2. key[on[b]] = b => key'[on[b]] = b /\ ttl'[on[b]] = ttl[on[b]]
    BY <1>5, <1>6, <1>7 DEF OwnHold
  <2>3. ttl[on[b]] >= ttl[on[b]]
    BY Numbers
  <2> QED BY <1>2, <2>1, <2>2, <2>3, ClockStands DEF Clocks
<1>8. Clock(a)'
  <2>1. Clock(a)
    BY DEF Clocks
  <2>2. CASE op = "set"
    <3>1. CASE key' = [key EXCEPT ![on[a]] = a] /\ ttl' = [ttl EXCEPT ![on[a]] = Ttl]
      <4>1. OwnHold(a)' /\ ttl'[on'[a]] = Ttl /\ pc[a] \notin {"joining", "holding"}
        BY <1>2, <1>4, <1>5, <2>2, <3>1 DEF OwnHold
      <4>2. ttl'[on'[a]] + Renew >= Ttl + slack[a]
        BY <4>1, Numbers
      <4> QED BY <1>2, <1>6, <2>1, <2>2, <4>1, <4>2 DEF Clock
    <3>2. CASE answer' = Heard(a, "null") /\ renewal' = renewal
      <4>1. ~Told(a)' /\ pc[a] \notin {"joining", "holding"}
        BY <1>2, <1>4, <1>5, <2>2, <3>2 DEF Told, Heard
      <4> QED BY <1>2, <2>1, <3>2, <4>1 DEF Clock
    <3> QED BY <1>6, <2>2, <3>1, <3>2
  <2>3. CASE op = "renew"
    <3>1. key' = key /\ answer' = answer /\ (OwnHold(a)' <=> OwnHold(a)) /\ (Told(a)' <=> Told(a))
      BY <1>2, <1>6, <2>3 DEF OwnHold, Told
    <3>2. CASE ~OwnHold(a)
      <4>1. renewal[a] = "none" => renewal'[a] = "none"
        BY <1>5, <1>6, <2>3
      <4>2. renewal'[a] = "ours" => renewal[a] = "ours"
        BY <1>5, <1>6, <2>3, <3>2
      <4>3. renewal'[a] # "none" => renewal[a] # "none"
        BY <4>1
      <4> QED BY <1>2, <2>1, <3>1, <3>2, <4>1, <4>2, <4>3 DEF Clock, Proven
    <3>3. CASE OwnHold(a)
      <4>1. ttl'[on'[a]] = Ttl
        BY <1>2, <1>5, <1>6, <2>3, <3>3
      <4>2. /\ ttl'[on'[a]] + Renew >= Ttl + slack[a] /\ ttl'[on'[a]] + Renew >= Ttl + beat[a]
            /\ ttl'[on'[a]] + 2 * Renew >= Ttl + beat[a] + slack[a]
        BY <4>1, Numbers
      <4>3. /\ renewal'[a] = IF renewal[a] = "sent" THEN "ours" ELSE renewal[a]
        BY <1>5, <1>6, <2>3, <3>3
      <4> QED BY <1>2, <2>1, <3>1, <3>3, <4>2, <4>3 DEF Clock, Proven
    <3> QED BY <3>2, <3>3
  <2>4. CASE op = "del"
    <3>1. renewal' = renewal /\ pc[a] \in {"refused", "released"}
      BY <1>4, <1>6, <2>4
    <3> QED BY <1>2, <2>1, <3>1 DEF Clock, Told
  <2>5. CASE op = "publish"
    <3>1. ttl[on[a]] >= ttl[on[a]]
      BY Numbers
    <3> QED BY <1>2, <1>6, <2>1, <2>5, <3>1, ClockStands
  <2> QED BY <2>2, <2>3, <2>4, <2>5
<1> QED BY <1>7, <1>8, SMTT(60) DEF Clocks

\* A lost command and a crash are nothing to the clock of another.
LEMMA OutsideClocks ==
    ASSUME TypeOK, TypeOK', Clocks, NEW p \in Processes, Lose(p) \/ Crash(p)
    PROVE  Clocks'
<1> USE DEF serverVars, acquireVars, watchVars
<1>1. \A a \in Attempts : ttl[on[a]] >= ttl[on[a]]
    BY Numbers
<1>2. CASE Lose(p)
    BY <1>1, <1>2, ClockStands DEF Lose, Clocks
<1>3. CASE Crash(p)
  <2>1. UNCHANGED <<key, ttl, at, on>>
    BY <1>3 DEF Crash
  <2>2. ASSUME NEW a \in Attempts PROVE Clock(a)'
    <3>1. \/ /\ pc'[a] = pc[a] /\ answer'[a] = answer[a] /\ slack'[a] = slack[a]
             /\ beat'[a] = beat[a] /\ renewal'[a] = renewal[a] /\ patience'[a] = patience[a]
             /\ a \in lost' <=> a \in lost
          \/ pc'[a] = "dead" /\ renewal'[a] = "none"
      BY <1>3 DEF Crash, ForgetRound, ForgetHold, TypeOK
    <3> QED BY <1>1, <2>1, <3>1, ClockStands DEF Clocks, Clock, Told
  <2> QED BY <2>2 DEF Clocks
<1> QED BY <1>2, <1>3

\* Time passes: no key whose holder believes in it is in its last tick, as no
\* timer is due.
LEMMA TickClocks ==
    ASSUME TypeOK, TypeOK', Clocks, Tick
    PROVE  Clocks'
<1> SUFFICES ASSUME NEW a \in Attempts PROVE Clock(a)'
    BY DEF Clocks
<1>1. /\ UNCHANGED <<pc, at, on, answer, renewal, lost>> /\ on[a] \in Digests
      /\ at[a] \in Punctual => ~Due(a)
      /\ ttl'[on[a]] = IF ttl[on[a]] >= 1 THEN ttl[on[a]] - 1 ELSE ttl[on[a]]
      /\ ttl[on[a]] > 1 => key'[on[a]] = key[on[a]]
      /\ slack'[a] = IF at[a] \in Punctual /\ pc[a] \in {"setting", "joining"}
                     THEN Less(slack[a]) ELSE slack[a]
      /\ beat'[a] = IF pc[a] = "holding" THEN Less(beat[a]) ELSE beat[a]
      /\ patience'[a] = IF pc[a] = "holding" THEN Less(patience[a]) ELSE patience[a]
  <2>1. on[a] \in Digests /\ ttl[on[a]] \in Nat
    BY Numbers DEF TypeOK
  <2> QED BY <2>1 DEF Tick, Expires, TypeOK
<1>2. Clock(a) /\ (Told(a)' <=> Told(a))
    BY <1>1 DEF Clocks, Told
<1>3. OwnHold(a) /\ ttl[on[a]] > 1 => OwnHold(a)' /\ ttl'[on'[a]] = ttl[on[a]] - 1
    BY <1>1, Numbers DEF OwnHold
<1>4. ASSUME at[a] \in Punctual, Told(a) \/ pc[a] = "joining", slack'[a] > 0
      PROVE  OwnHold(a)' /\ ttl'[on'[a]] + Renew >= Ttl + slack'[a]
  <2>1. pc[a] \in {"setting", "joining"}
    BY <1>4 DEF Told
  <2>2. slack[a] > 0 /\ slack'[a] = slack[a] - 1
    BY <1>1, <1>4, <2>1, Numbers DEF Less
  <2>3. OwnHold(a) /\ ttl[on[a]] + Renew >= Ttl + slack[a]
    BY <1>2, <1>4, <2>2 DEF Clock
  <2> HIDE DEF Renew
  <2>4. ttl[on[a]] > 1
    BY <2>2, <2>3, Numbers
  <2> QED BY <1>3, <2>2, <2>3, <2>4, Numbers
<1>5. ASSUME at[a] \in Punctual, pc[a] = "holding", a \notin lost
      PROVE  /\ renewal[a] # "none" => patience'[a] = beat'[a]
             /\ renewal[a] = "ours" => OwnHold(a)' /\ ttl'[on'[a]] + Renew >= Ttl + beat'[a]
             /\ slack'[a] > 0 => Proven(a)'
  <2>1. beat[a] # 0 /\ slack'[a] = slack[a] /\ renewal'[a] = renewal[a]
    BY <1>1, <1>5 DEF Due
  <2>2. beat'[a] = beat[a] - 1 /\ (patience[a] = beat[a] => patience'[a] = beat'[a])
    BY <1>1, <1>5, <2>1 DEF Less
  <2>3. /\ ttl[on[a]] \in Nat /\ Ttl \in Nat /\ Renew \in Nat /\ beat[a] \in Nat /\ slack[a] \in Nat
        /\ 3 * Renew <= Ttl /\ Renew >= 1 /\ beat[a] >= 1
    BY <2>1, Numbers
  <2>4. /\ renewal[a] # "none" => patience[a] = beat[a]
        /\ renewal[a] = "ours" => OwnHold(a) /\ ttl[on[a]] + Renew >= Ttl + beat[a]
        /\ slack[a] > 0 => Proven(a)
    BY <1>2, <1>5 DEF Clock
  <2> HIDE DEF Renew
  <2>5. ASSUME renewal[a] = "ours"
        PROVE  OwnHold(a)' /\ ttl'[on'[a]] + Renew >= Ttl + beat'[a]
    <3>1. ttl[on[a]] > 1
      BY <2>3, <2>4, <2>5
    <3> QED BY <1>3, <2>2, <2>3, <2>4, <2>5, <3>1
  <2>6. ASSUME slack[a] > 0
        PROVE  Proven(a)'
    <3>1. Proven(a) /\ renewal[a] \in {"none", "sent", "ours", "gone"}
      BY <2>4, <2>6 DEF TypeOK
    <3>2. ttl[on[a]] > 1
      BY <2>3, <2>4, <2>6, <3>1 DEF Proven
    <3>3. OwnHold(a)' /\ ttl'[on'[a]] = ttl[on[a]] - 1
      BY <1>3, <3>1, <3>2 DEF Proven
    <3> QED BY <2>1, <2>2, <2>3, <3>1, <3>3 DEF Proven
  <2> QED BY <2>1, <2>2, <2>4, <2>5, <2>6
<1> QED BY <1>1, <1>2, <1>4, <1>5 DEF Clock

-------------------------------------------------------------------------------
(* The theorems *)

IInv == TypeOK /\ Fates /\ Routes

\* It holds at the outset,
LEMMA InitIInv == Init => IInv
    BY InitType, InitFates, InitRoutes DEF IInv

\* and every step keeps it.
LEMMA NextIInv == IInv /\ [Next]_vars => IInv'
<1> SUFFICES ASSUME IInv, [Next]_vars PROVE IInv'
    OBVIOUS
<1> USE DEF IInv
<1>1. ASSUME NEW a \in Attempts, NEW inTime \in BOOLEAN,
             \/ TryTake(a) \/ TimedOut(a) \/ SetAbandoned(a, inTime) \/ SetTook(a)
             \/ SetRefused(a) \/ Joined(a) \/ JoinFailed(a)
      PROVE  IInv'
  <2>1. TypeOK' /\ Fates'
    BY <1>1, AcquireType, AcquireFates
  <2>2. Routes'
    BY <1>1, QuietRoutes, SetTookRoutes, JoinedRoutes, LeaveRoutes
  <2> QED BY <2>1, <2>2
<1>2. ASSUME NEW a \in Attempts, NEW inTime \in BOOLEAN,
             \/ WatchdogFires(a) \/ RenewalAnswered(a) \/ RenewalFailed(a, inTime) \/ Release(a)
             \/ SubscribeLands(a) \/ SubscribeFails(a) \/ Unsubscribe(a)
      PROVE  IInv'
  <2>1. TypeOK' /\ Fates'
    BY <1>2, HoldType, HoldFates
  <2>2. Routes'
    BY <1>2, QuietRoutes, LeaveRoutes, FeedRoutes
  <2> QED BY <2>1, <2>2
<1>3. ASSUME NEW p \in Processes, Execute(p) \/ Lose(p)
      PROVE  IInv'
  <2>1. TypeOK' /\ Fates'
    BY <1>3, ServerType, ExecuteFate, OutsideFate
  <2> QED BY <1>3, <2>1, ServerRoutes
<1>4. ASSUME NEW p \in Processes, Crash(p)
      PROVE  IInv'
    BY <1>4, ServerType, OutsideFate, CrashRoutes
<1>5. CASE Tick
    BY <1>5, TickType, TickFate, TickRoutes
<1>6. CASE UNCHANGED vars
  <2>1. UNCHANGED <<key, ttl, pipe, pc, at, on, budget, answer, beat, renewal, patience, lost,
                    slack, preemptVars, delLost>>
    BY <1>6 DEF vars, serverVars, acquireVars, watchVars
  <2>2. TypeOK'
    BY <2>1 DEF TypeOK, preemptVars
  <2>3. Fates'
    BY <2>1, NoFate
  <2>4. Routes'
    BY <2>1, RoutesStand DEF Told, Routes, Feeds
  <2> QED BY <2>2, <2>3, <2>4
<1> QED BY <1>1, <1>2, <1>3, <1>4, <1>5, <1>6 DEF Next

\* The state is typed, the owner of a held upload hears its waiters, and no
\* subscription outlives its holds: acquire, joinPreempts and leavePreempts of
\* any number of holds, whatever the server loses and whoever crashes.
THEOREM Invariance == Spec => []Inv
<1>1. IInv => Inv
    BY RoutesReach DEF IInv, Inv, Routes
<1> QED BY InitIInv, NextIInv, <1>1, PTL DEF Spec

\* releaseKey goes behind the SET it undoes: a key or a SET of an acquire that
\* failed, or of a lock that was released, has a deletion coming.
THEOREM NothingLeftBehind == Spec => []AbandonedLeavesNothing
<1>1. IInv => AbandonedLeavesNothing
  <2> SUFFICES ASSUME IInv, NEW a \in Attempts, pc[a] \in {"refused", "released"},
                      OwnHold(a) \/ Underway("set", a)
               PROVE  a \in delLost \/ Underway("del", a)
    BY DEF AbandonedLeavesNothing
  <2>1. \A op : Underway(op, a) <=> Has(Line(a), op, a)
    BY DEF Underway, Has, Line, Command
  <2>2. Fate(a) /\ (Behind(Line(a), a) /\ Has(Line(a), "set", a) => Has(Line(a), "del", a))
    BY DEF IInv, Fates, Behind, Has
  <2> QED BY <2>1, <2>2 DEF Fate
<1> QED BY InitIInv, NextIInv, <1>1, PTL DEF Spec

\* RELEASE_SCRIPT deletes the caller's own hold only, and callers send it only
\* when they are done: a key goes by expiry or by its owner's letting go.
THEOREM OwnersLetGo == Spec => OnlyOwnerLetsGo
<1>1. IInv /\ [Next]_vars =>
        [\A d \in Digests :
            key[d] # None /\ key'[d] # key[d] =>
               ttl[d] = 1 \/ pc[key[d]] \in {"refused", "released"}]_vars
  <2> SUFFICES ASSUME IInv, Next, NEW d \in Digests, key[d] # None, key'[d] # key[d]
               PROVE  ttl[d] = 1 \/ pc[key[d]] \in {"refused", "released"}
    OBVIOUS
  <2>1. ASSUME key' = key PROVE FALSE
    BY <2>1
  <2>2. ASSUME NEW a \in Attempts, NEW inTime \in BOOLEAN,
               \/ TryTake(a) \/ TimedOut(a) \/ SetAbandoned(a, inTime) \/ SetTook(a)
               \/ SetRefused(a) \/ Joined(a) \/ JoinFailed(a)
        PROVE  FALSE
    BY <2>1, <2>2 DEF TryTake, TimedOut, SetAbandoned, SetTook, SetRefused, Joined, JoinFailed,
                      serverVars
  <2>3. ASSUME NEW a \in Attempts, NEW inTime \in BOOLEAN,
               \/ WatchdogFires(a) \/ RenewalAnswered(a) \/ RenewalFailed(a, inTime) \/ Release(a)
               \/ SubscribeLands(a) \/ SubscribeFails(a) \/ Unsubscribe(a)
        PROVE  FALSE
    BY <2>1, <2>3 DEF WatchdogFires, RenewalAnswered, RenewalFailed, Release, SubscribeLands,
                      SubscribeFails, Unsubscribe, serverVars
  <2>4. ASSUME NEW p \in Processes, Lose(p) \/ Crash(p) PROVE FALSE
    BY <2>1, <2>4 DEF Lose, Crash, serverVars
  <2>5. CASE Tick
    BY <2>5 DEF Tick, Expires
  <2>6. ASSUME NEW p \in Processes, Execute(p)
        PROVE  pc[key[d]] \in {"refused", "released"}
    <3>1. PICK a \in Attempts, op \in {"set", "publish", "renew", "del"} :
              Head(pipe[p]) = Command(op, a)
      BY <2>6, Oldest DEF Execute, IInv
    <3>2. op = "del" /\ OwnHold(a) /\ d = on[a]
      <4>1. \/ key' = key
            \/ key[on[a]] = None /\ key' = [key EXCEPT ![on[a]] = a]
            \/ op = "del" /\ OwnHold(a) /\ key' = [key EXCEPT ![on[a]] = None]
        BY <2>6, <3>1, Executed
      <4>2. DOMAIN key = Digests
        BY DEF IInv, TypeOK
      <4> QED BY <4>1, <4>2
    <3>3. Has(Line(a), op, a)
      BY <2>6, <3>1, Executed, Dequeued DEF IInv, Fates
    <3> QED BY <3>2, <3>3, SMTT(60) DEF IInv, Fates, Fate, OwnHold
  <2> QED BY <2>2, <2>3, <2>4, <2>5, <2>6 DEF Next
<1> QED BY InitIInv, NextIInv, <1>1, PTL DEF Spec, OnlyOwnerLetsGo

\* The watchdog, whatever the acquire timeout: in a process that does not stall,
\* a hold whose lease is not aborted has the key although the server may leave
\* any command unanswered, if its lock came within a renew interval of its SET or
\* a renewal has been confirmed since.
THEOREM HoldsItsClaim == Spec => []HoldsWhatItClaims
<1>1. Init => Clocks
    BY InitClocks
<1>2. IInv /\ IInv' /\ Clocks /\ [Next]_vars => Clocks'
  <2> SUFFICES ASSUME IInv, IInv', Clocks, [Next]_vars PROVE Clocks'
    OBVIOUS
  <2>1. TypeOK /\ TypeOK' /\ Fates
    BY DEF IInv
  <2>2. ASSUME NEW a \in Attempts, NEW inTime \in BOOLEAN,
               \/ TryTake(a) \/ TimedOut(a) \/ SetAbandoned(a, inTime) \/ SetTook(a)
               \/ SetRefused(a) \/ Joined(a) \/ JoinFailed(a)
        PROVE  Clocks'
    BY <2>1, <2>2, AcquireClocks
  <2>3. ASSUME NEW a \in Attempts, NEW inTime \in BOOLEAN,
               \/ WatchdogFires(a) \/ RenewalAnswered(a) \/ RenewalFailed(a, inTime) \/ Release(a)
               \/ SubscribeLands(a) \/ SubscribeFails(a) \/ Unsubscribe(a)
        PROVE  Clocks'
    BY <2>1, <2>3, HoldClocks
  <2>4. ASSUME NEW p \in Processes, Execute(p) \/ Lose(p) \/ Crash(p) PROVE Clocks'
    BY <2>1, <2>4, ExecuteClocks, OutsideClocks
  <2>5. CASE Tick
    BY <2>1, <2>5, TickClocks
  <2>6. CASE UNCHANGED vars
    <3>1. UNCHANGED <<key, ttl, at, on, pc, answer, slack, beat, renewal, patience, lost>>
      BY <2>6 DEF vars, serverVars, acquireVars, watchVars
    <3>2. \A a \in Attempts : ttl[on[a]] >= ttl[on[a]]
      BY <2>1, Numbers
    <3> QED BY <2>1, <3>1, <3>2, ClockStands DEF Clocks
  <2> QED BY <2>2, <2>3, <2>4, <2>5, <2>6 DEF Next
<1>3. Clocks => HoldsWhatItClaims
    BY DEF Clocks, Clock, Proven, HoldsWhatItClaims
<1> QED BY InitIInv, NextIInv, <1>1, <1>2, <1>3, PTL DEF Spec

===============================================================================

------------------------------ MODULE RedisLocker ------------------------------
(***************************************************************************)
(* The distributed locker redisUploadLocker (src/redis-locker.ts): server  *)
(* processes that hold an upload by a key with a TTL, renewed by a         *)
(* watchdog, and ask each other to yield over one pub/sub channel.         *)
(*                                                                         *)
(* The server is external.  Of the client the code requires one thing:     *)
(* commands of a process reach the server in the order they were issued    *)
(* (pipe).  They may take any time, be lost, or be executed while their    *)
(* answer is lost.  Time is a tick; every deadline is a countdown.         *)
(***************************************************************************)
EXTENDS Naturals, Sequences

CONSTANTS Processes,    \* instances of the locker, each with one client
          Attempts,     \* calls of acquire, named by their hold ids
          Digests,      \* SHA-256 of the upload tokens
          Homes,        \* bound: the process and the upload of each attempt
          None,         \* no key, no listener, no subscription
          Ttl,          \* ttlMs, in ticks
          Timeout,      \* acquireTimeoutMs, in ticks
          Punctual,     \* the processes that never stall: a timer runs in the tick it is due
          Lossy         \* bound: whether a command may be lost on its way

ASSUME TimesAssumption == Ttl \in Nat /\ Ttl >= 3 /\ Timeout \in Nat \ {0}
ASSUME HomesAssumption == Homes \subseteq [Attempts -> [process : Processes, digest : Digests]]
ASSUME NoneAssumption == None \notin Attempts

\* renewIntervalMs
Renew == Ttl \div 3

VARIABLES key,          \* key[d]: the hold id stored on the server, or None
          ttl,          \* ttl[d]: ticks until the key expires
          pipe,         \* pipe[p]: commands on their way, oldest first
          pc,           \* pc[a]: where the attempt is
          at, on,       \* the process and the digest of an attempt
          budget,       \* budget[a]: ticks left of its acquire timeout
          answer,       \* answer[a]: the reply to its last SET
          beat,         \* beat[a]: ticks until the watchdog's next renewal
          renewal,      \* renewal[a]: the renewal that is out, or its reply
          patience,     \* patience[a]: ticks until that renewal counts as failed
          lost,         \* the attempts whose lease was aborted
          slack,        \* history, of the processes that never stall: what is left of a
                        \* renew interval since the last SET of a, until its lock is
                        \* handed out; all of it again once a renewal is confirmed
          listeners,    \* listeners[p][d]: holders.get(d), the attempt to preempt
          shared,       \* shared[p]: the subscription in use, named by its opener
          feed,         \* feed[a]: the subscription a opened
          joins,        \* joins[a]: the subscription a waits for
          leaving,      \* subscriptions to be closed once they have landed
          delLost       \* history: attempts whose compare-and-delete was lost

serverVars == <<key, ttl>>
acquireVars == <<pc, at, on, budget, answer>>
watchVars == <<beat, renewal, patience, lost, slack>>
preemptVars == <<listeners, shared, feed, joins, leaving>>
vars == <<serverVars, pipe, acquireVars, watchVars, preemptVars, delLost>>

Commands == [op : {"set", "publish", "renew", "del"}, by : Attempts]
Pending == {"setting", "polling", "joining"}

TypeOK ==
    /\ key \in [Digests -> Attempts \cup {None}]
    /\ ttl \in [Digests -> 0..Ttl]
    /\ \A d \in Digests : key[d] = None <=> ttl[d] = 0
    /\ pipe \in [Processes -> Seq(Commands)]
    /\ pc \in [Attempts -> Pending \cup {"idle", "holding", "released", "refused", "dead"}]
    /\ at \in [Attempts -> Processes]
    /\ on \in [Attempts -> Digests]
    /\ budget \in [Attempts -> 0..Timeout]
    /\ answer \in [Attempts -> {"none", "OK", "null"}]
    /\ beat \in [Attempts -> 0..Renew]
    /\ renewal \in [Attempts -> {"none", "sent", "ours", "gone"}]
    /\ patience \in [Attempts -> 0..Renew]
    /\ lost \subseteq Attempts
    /\ slack \in [Attempts -> 0..Renew]
    /\ listeners \in [Processes -> [Digests -> Attempts \cup {None}]]
    /\ shared \in [Processes -> Attempts \cup {None}]
    /\ feed \in [Attempts -> {"none", "opening", "open", "failed", "closed"}]
    /\ joins \in [Attempts -> Attempts \cup {None}]
    /\ leaving \subseteq Attempts
    /\ delLost \subseteq Attempts

-------------------------------------------------------------------------------
(* Helpers *)

Issue(op, a) == [pipe EXCEPT ![at[a]] = Append(@, [op |-> op, by |-> a])]
Underway(op, a) == \E i \in 1..Len(pipe[at[a]]) :
                       pipe[at[a]][i] = [op |-> op, by |-> a]

\* A countdown stops when it has run out.
Less(n) == IF n = 0 THEN 0 ELSE n - 1

\* releaseKey: the compare-and-delete, sent and not waited for.  The slip
\* lets go of a key only when the answer had said it was taken.
ReleaseKeyIfTaken(a) == IF pc[a] # "setting" \/ answer[a] = "OK" THEN Issue("del", a) ELSE pipe
ReleaseKey(a) == Issue("del", a)

\* The locals of an attempt that is over are gone.
ForgetRound(A) ==
    /\ budget' = [a \in Attempts |-> IF a \in A THEN Timeout ELSE budget[a]]
    /\ answer' = [a \in Attempts |-> IF a \in A THEN "none" ELSE answer[a]]
ForgetHold(A) ==
    /\ beat' = [a \in Attempts |-> IF a \in A THEN Renew ELSE beat[a]]
    /\ renewal' = [a \in Attempts |-> IF a \in A THEN "none" ELSE renewal[a]]
    /\ patience' = [a \in Attempts |-> IF a \in A THEN 0 ELSE patience[a]]
    /\ lost' = lost \ A
    /\ slack' = [a \in Attempts |-> IF a \in A THEN Renew ELSE slack[a]]

\* RELEASE_SCRIPT and RENEW_SCRIPT act on the caller's own hold only.
AnyHold(a) == key[on[a]] # None
OwnHold(a) == key[on[a]] = a

\* SET NX PX: the key expires by itself.
Expires(d) == ttl[d] = 1

\* withinTimeout: a round trip ends by the deadline, answered or not.
UntimedRoundTrip(a) == FALSE
RoundTripOver(a) == budget[a] = 0

\* A renewal with no answer when the next one is due has failed.
SilenceIsFine(a) == FALSE
Unanswered(a) == renewal[a] # "none" /\ patience[a] = 0

\* joinPreempts: register under the digest, open the shared subscription when
\* there is none.
JoinPreempts(a) ==
    LET p == at[a] IN
    /\ listeners' = [listeners EXCEPT ![p][on[a]] = a]
    /\ IF shared[p] = None
       THEN /\ shared' = [shared EXCEPT ![p] = a]
            /\ feed' = [feed EXCEPT ![a] = "opening"]
            /\ joins' = [joins EXCEPT ![a] = a]
       ELSE /\ joins' = [joins EXCEPT ![a] = shared[p]]
            /\ UNCHANGED <<shared, feed>>
    /\ UNCHANGED leaving

\* leavePreempts removes the caller's own entry, not that of a later hold of
\* the same upload; the last one out closes the subscription, or has it
\* closed when it lands.
AnyEntry(a) == TRUE
OwnEntry(a) == listeners[at[a]][on[a]] = a
Closed(f) == {f} \ {None}

LeavePreempts(a) ==
    LET p == at[a]
        left == IF OwnEntry(a)
                THEN [listeners EXCEPT ![p][on[a]] = None]
                ELSE listeners
    IN
    /\ listeners' = left
    /\ IF \A d \in Digests : left[p][d] = None
       THEN /\ shared' = [shared EXCEPT ![p] = None]
            /\ leaving' = leaving \cup Closed(shared[p])
       ELSE UNCHANGED <<shared, leaving>>
    /\ joins' = [joins EXCEPT ![a] = None]
    /\ UNCHANGED feed

-------------------------------------------------------------------------------
(* acquire *)

Init ==
    /\ key = [d \in Digests |-> None]
    /\ ttl = [d \in Digests |-> 0]
    /\ pipe = [p \in Processes |-> <<>>]
    /\ pc = [a \in Attempts |-> "idle"]
    /\ \E home \in Homes :
          /\ at = [a \in Attempts |-> home[a].process]
          /\ on = [a \in Attempts |-> home[a].digest]
    /\ budget = [a \in Attempts |-> Timeout]
    /\ answer = [a \in Attempts |-> "none"]
    /\ beat = [a \in Attempts |-> Renew]
    /\ renewal = [a \in Attempts |-> "none"]
    /\ patience = [a \in Attempts |-> 0]
    /\ lost = {}
    /\ slack = [a \in Attempts |-> Renew]
    /\ listeners = [p \in Processes |-> [d \in Digests |-> None]]
    /\ shared = [p \in Processes |-> None]
    /\ feed = [a \in Attempts |-> "none"]
    /\ joins = [a \in Attempts |-> None]
    /\ leaving = {}
    /\ delLost = {}

\* A round with time left: the first one, or the next after a poll.
TryTake(a) ==
    /\ \/ pc[a] = "idle"
       \/ pc[a] = "polling" /\ budget[a] > 0
    /\ pipe' = Issue("set", a)
    /\ answer' = [answer EXCEPT ![a] = "none"]
    /\ pc' = [pc EXCEPT ![a] = "setting"]
    /\ slack' = [slack EXCEPT ![a] = Renew]
    /\ UNCHANGED <<serverVars, at, on, budget, beat, renewal, patience, lost, preemptVars,
                   delLost>>

\* The loop comes round with no time left.
TimedOut(a) ==
    /\ pc[a] = "polling"
    /\ budget[a] = 0
    /\ pc' = [pc EXCEPT ![a] = "refused"]
    /\ ForgetRound({a})
    /\ UNCHANGED <<serverVars, pipe, at, on, watchVars, preemptVars, delLost>>

\* The SET rejected, or its answer did not come in time: it may have taken
\* the key all the same.
SetAbandoned(a, inTime) ==
    /\ pc[a] = "setting"
    /\ inTime \/ RoundTripOver(a)
    /\ pipe' = ReleaseKey(a)
    /\ pc' = [pc EXCEPT ![a] = "refused"]
    /\ ForgetRound({a})
    /\ UNCHANGED <<serverVars, at, on, watchVars, preemptVars, delLost>>

\* Taken: takeLock waits for the preempt subscription.  Answers to a process
\* come in order: of two that took the same upload, the one whose key expired
\* in the meantime is first.
SetTook(a) ==
    /\ pc[a] = "setting"
    /\ answer[a] = "OK"
    /\ OwnHold(a) => \A b \in Attempts \ {a} :
          ~(at[b] = at[a] /\ on[b] = on[a] /\ pc[b] = "setting" /\ answer[b] = "OK")
    /\ JoinPreempts(a)
    /\ pc' = [pc EXCEPT ![a] = "joining"]
    /\ answer' = [answer EXCEPT ![a] = "none"]
    /\ UNCHANGED <<serverVars, pipe, at, on, budget, watchVars, delLost>>

\* Held by another: ask it to yield, wait, come round again; or give up.
SetRefused(a) ==
    /\ pc[a] = "setting"
    /\ answer[a] = "null"
    /\ \/ /\ budget[a] = 0
          /\ pc' = [pc EXCEPT ![a] = "refused"]
          /\ ForgetRound({a})
          /\ UNCHANGED pipe
       \/ /\ budget[a] > 0
          /\ pc' = [pc EXCEPT ![a] = "polling"]
          /\ pipe' = Issue("publish", a)
          /\ answer' = [answer EXCEPT ![a] = "none"]
          /\ UNCHANGED budget
    /\ UNCHANGED <<serverVars, at, on, watchVars, preemptVars, delLost>>

\* The subscription answered: the lock is handed out and its watchdog starts.
Joined(a) ==
    /\ pc[a] = "joining"
    /\ feed[joins[a]] \in {"open", "closed"}
    /\ pc' = [pc EXCEPT ![a] = "holding"]
    /\ joins' = [joins EXCEPT ![a] = None]
    /\ ForgetRound({a})
    /\ UNCHANGED <<serverVars, pipe, at, on, watchVars, listeners, shared, feed,
                   leaving, delLost>>

\* It failed or is late: give back the key just taken.
JoinFailed(a) ==
    /\ pc[a] = "joining"
    /\ feed[joins[a]] = "failed" \/ budget[a] = 0
    /\ LeavePreempts(a)
    /\ pipe' = ReleaseKey(a)
    /\ pc' = [pc EXCEPT ![a] = "refused"]
    /\ ForgetRound({a})
    /\ UNCHANGED <<serverVars, at, on, watchVars, delLost>>

-------------------------------------------------------------------------------
(* The lock object and its watchdog *)

\* A renewal goes out, after the timeout of the one before it.  Bound: a hold
\* has at most one renewal on its way; another would run right behind it.
WatchdogFires(a) ==
    /\ pc[a] = "holding"
    /\ beat[a] = 0
    /\ ~Unanswered(a)
    /\ beat' = [beat EXCEPT ![a] = Renew]
    /\ pipe' = IF Underway("renew", a) THEN pipe ELSE Issue("renew", a)
    /\ renewal' = [renewal EXCEPT ![a] = "sent"]
    /\ patience' = [patience EXCEPT ![a] = Renew]
    /\ UNCHANGED <<serverVars, acquireVars, lost, slack, preemptVars, delLost>>

\* Its answer: anything but 1 loses the lease.
RenewalAnswered(a) ==
    /\ pc[a] = "holding"
    /\ renewal[a] \in {"ours", "gone"}
    /\ renewal' = [renewal EXCEPT ![a] = "none"]
    /\ lost' = IF renewal[a] = "gone" THEN lost \cup {a} ELSE lost
    /\ slack' = IF renewal[a] = "ours" THEN [slack EXCEPT ![a] = Renew] ELSE slack
    /\ UNCHANGED <<serverVars, pipe, acquireVars, beat, patience, preemptVars,
                   delLost>>

\* It rejected, or did not answer in time.
RenewalFailed(a, inTime) ==
    /\ pc[a] = "holding"
    /\ renewal[a] # "none"
    /\ inTime \/ Unanswered(a)
    /\ renewal' = [renewal EXCEPT ![a] = "none"]
    /\ lost' = lost \cup {a}
    /\ UNCHANGED <<serverVars, pipe, acquireVars, beat, patience, slack, preemptVars,
                   delLost>>

Release(a) ==
    /\ pc[a] = "holding"
    /\ LeavePreempts(a)
    /\ pipe' = ReleaseKey(a)
    /\ pc' = [pc EXCEPT ![a] = "released"]
    /\ ForgetHold({a})
    /\ UNCHANGED <<serverVars, at, on, budget, answer, delLost>>

-------------------------------------------------------------------------------
(* The preempt subscription *)

SubscribeLands(a) ==
    /\ feed[a] = "opening"
    /\ feed' = [feed EXCEPT ![a] = "open"]
    /\ UNCHANGED <<serverVars, pipe, acquireVars, watchVars, listeners, shared,
                   joins, leaving, delLost>>

SubscribeFails(a) ==
    /\ feed[a] = "opening"
    /\ feed' = [feed EXCEPT ![a] = "failed"]
    /\ shared' = [shared EXCEPT ![at[a]] = IF @ = a THEN None ELSE @]
    /\ leaving' = leaving \ {a}
    /\ UNCHANGED <<serverVars, pipe, acquireVars, watchVars, listeners, joins,
                   delLost>>

Unsubscribe(a) ==
    /\ a \in leaving
    /\ feed[a] = "open"
    /\ feed' = [feed EXCEPT ![a] = "closed"]
    /\ leaving' = leaving \ {a}
    /\ UNCHANGED <<serverVars, pipe, acquireVars, watchVars, listeners, shared,
                   joins, delLost>>

-------------------------------------------------------------------------------
(* The server, the connection, the clock and the crash (external) *)

\* The reply to a SET, if its caller still waits for it.
Heard(a, reply) == IF pc[a] = "setting" THEN [answer EXCEPT ![a] = reply] ELSE answer

\* The server executes the oldest command of a process.  A published request
\* only makes its holder release sooner, which it may do at any time: see
\* PreemptReachesOwner for whom it reaches.
Execute(p) ==
    /\ pipe[p] # <<>>
    /\ LET a == Head(pipe[p]).by
           d == on[a]
           op == Head(pipe[p]).op
       IN
       /\ \/ /\ op = "set"
             /\ key[d] = None
             /\ key' = [key EXCEPT ![d] = a]
             /\ ttl' = [ttl EXCEPT ![d] = Ttl]
             /\ answer' = Heard(a, "OK")
             /\ UNCHANGED renewal
          \/ /\ op = "set"
             /\ key[d] # None
             /\ answer' = Heard(a, "null")
             /\ UNCHANGED <<serverVars, renewal>>
          \/ /\ op = "renew"
             /\ ttl' = IF OwnHold(a) THEN [ttl EXCEPT ![d] = Ttl] ELSE ttl
             /\ renewal' = [renewal EXCEPT
                    ![a] = IF @ # "sent" THEN @ ELSE IF OwnHold(a) THEN "ours" ELSE "gone"]
             /\ UNCHANGED <<key, answer>>
          \/ /\ op = "del"
             /\ key' = IF OwnHold(a) THEN [key EXCEPT ![d] = None] ELSE key
             /\ ttl' = IF OwnHold(a) THEN [ttl EXCEPT ![d] = 0] ELSE ttl
             /\ UNCHANGED <<answer, renewal>>
          \/ /\ op = "publish"
             /\ UNCHANGED <<serverVars, answer, renewal>>
    /\ pipe' = [pipe EXCEPT ![p] = Tail(@)]
    /\ UNCHANGED <<pc, at, on, budget, beat, patience, lost, slack, preemptVars, delLost>>

\* A command is lost: its caller learns nothing, or of a rejection.
Lose(p) ==
    /\ Lossy
    /\ pipe[p] # <<>>
    /\ pipe' = [pipe EXCEPT ![p] = Tail(@)]
    /\ delLost' = IF Head(pipe[p]).op = "del"
                  THEN delLost \cup {Head(pipe[p]).by} ELSE delLost
    /\ UNCHANGED <<serverVars, acquireVars, watchVars, preemptVars>>

\* A timer of the process is due in this tick.
Due(a) ==
    \/ pc[a] = "setting" /\ RoundTripOver(a)
    \/ pc[a] \in {"polling", "joining"} /\ budget[a] = 0
    \/ pc[a] = "holding" /\ (beat[a] = 0 \/ Unanswered(a))

Tick ==
    /\ \A a \in Attempts : at[a] \in Punctual => ~Due(a)
    /\ ttl' = [d \in Digests |-> IF Expires(d) \/ ttl[d] > 1 THEN ttl[d] - 1 ELSE ttl[d]]
    /\ key' = [d \in Digests |-> IF Expires(d) THEN None ELSE key[d]]
    /\ budget' = [a \in Attempts |-> IF pc[a] \in Pending THEN Less(budget[a]) ELSE budget[a]]
    /\ beat' = [a \in Attempts |-> IF pc[a] = "holding" THEN Less(beat[a]) ELSE beat[a]]
    /\ patience' = [a \in Attempts |-> IF pc[a] = "holding" THEN Less(patience[a]) ELSE patience[a]]
    /\ slack' = [a \in Attempts |->
          IF at[a] \in Punctual /\ pc[a] \in {"setting", "joining"}
          THEN Less(slack[a]) ELSE slack[a]]
    /\ UNCHANGED <<pipe, pc, at, on, answer, renewal, lost, preemptVars, delLost>>

\* A process dies: its attempts, listeners and subscriptions with it.  What
\* it had sent may still arrive.
Crash(p) ==
    LET here == {a \in Attempts : at[a] = p}
        cut  == {a \in here : pc[a] \in Pending \cup {"holding"}}
    IN
    /\ cut # {}
    /\ pc' = [a \in Attempts |-> IF a \in cut THEN "dead" ELSE pc[a]]
    /\ listeners' = [listeners EXCEPT ![p] = [d \in Digests |-> None]]
    /\ shared' = [shared EXCEPT ![p] = None]
    /\ feed' = [a \in Attempts |->
          IF a \in here /\ feed[a] # "none" THEN "closed" ELSE feed[a]]
    /\ joins' = [a \in Attempts |-> IF a \in cut THEN None ELSE joins[a]]
    /\ leaving' = leaving \ here
    /\ ForgetRound(cut)
    /\ ForgetHold(cut)
    /\ UNCHANGED <<serverVars, pipe, at, on, delLost>>

Next ==
    \/ \E a \in Attempts :
          \/ TryTake(a) \/ TimedOut(a) \/ SetTook(a) \/ SetRefused(a)
          \/ Joined(a) \/ JoinFailed(a) \/ Release(a)
          \/ WatchdogFires(a) \/ RenewalAnswered(a)
          \/ \E inTime \in BOOLEAN : SetAbandoned(a, inTime) \/ RenewalFailed(a, inTime)
          \/ SubscribeLands(a) \/ SubscribeFails(a) \/ Unsubscribe(a)
    \/ \E p \in Processes : Execute(p) \/ Lose(p) \/ Crash(p)
    \/ Tick

Spec == Init /\ [][Next]_vars

\* The clock and the timers run; nothing is promised of the server.
TimerFires(a) ==
    \/ TimedOut(a) \/ SetAbandoned(a, FALSE) \/ JoinFailed(a)
    \/ WatchdogFires(a) \/ RenewalFailed(a, FALSE)
FairSpec == Spec /\ WF_vars(Tick) /\ \A a \in Attempts : WF_vars(TimerFires(a))

-------------------------------------------------------------------------------
(* Properties *)

\* A holder whose lease is not aborted has the key: no other process can take
\* the upload while it believes its hold is good, whatever the server leaves
\* unanswered.  It needs a process that does not stall, and a lock that was
\* handed out less than a renew interval after its SET was sent, or a renewal
\* confirmed since: the key's TTL runs from the SET, the watchdog from the lock.
HoldsWhatItClaims ==
    \A a \in Attempts :
        at[a] \in Punctual /\ pc[a] = "holding" /\ a \notin lost /\ slack[a] > 0 =>
            OwnHold(a)

\* An acquire that failed, or a lock that was released, leaves no key behind:
\* a key it still has, or that a SET on its way may yet take, has a
\* compare-and-delete coming behind it, unless the connection lost that.
AbandonedLeavesNothing ==
    \A a \in Attempts :
        /\ pc[a] \in {"refused", "released"}
        /\ OwnHold(a) \/ Underway("set", a)
        => a \in delLost \/ Underway("del", a)

\* A key leaves its owner by expiry or because its owner let go of it: a late
\* release of an earlier hold never frees the hold of somebody else.
OnlyOwnerLetsGo ==
    [][\A d \in Digests :
          key[d] # None /\ key'[d] # key[d] =>
             ttl[d] = 1 \/ pc[key[d]] \in {"refused", "released"}]_vars

\* Whoever has the lock and the key hears the waiters: a preempt for its
\* upload is routed to it, over a subscription that is open and stays open,
\* however many holds of this upload and of others share it.
PreemptReachesOwner ==
    \A a \in Attempts :
        pc[a] = "holding" /\ OwnHold(a) =>
            LET f == shared[at[a]] IN
            /\ listeners[at[a]][on[a]] = a
            /\ f # None /\ feed[f] = "open" /\ f \notin leaving

\* No subscription outlives its holds: one that is open or opening is the
\* shared one, or is going to be closed; and the shared one has a hold.
NoStrayListener ==
    /\ \A a \in Attempts :
          feed[a] \in {"opening", "open"} => a \in leaving \/ shared[at[a]] = a
    /\ \A p \in Processes :
          shared[p] # None => \E d \in Digests : listeners[p][d] # None

\* The state is typed, and the subscription lives exactly as long as the holds
\* that need it.
Inv == TypeOK /\ PreemptReachesOwner /\ NoStrayListener

\* An acquire ends by its deadline even if the server never answers anything:
\* no attempt waits for ever.
AcquireSettles ==
    \A a \in Attempts : []<>(pc[a] \notin Pending)

\* The key of a crashed or departed holder goes, although every command that
\* would delete it may be lost.
DeadHolderReaped ==
    \A a \in Attempts :
        []<>(pc[a] \in {"dead", "refused", "released"} => ~OwnHold(a))

\* Both ends of an attempt are bounded: its acquire, and the key it leaves.
AttemptsEnd == AcquireSettles /\ DeadHolderReaped
===============================================================================

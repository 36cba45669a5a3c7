--------------------------- MODULE SignInLimiter ----------------------------
(***************************************************************************)
(* security/rate_limit.py and its use: a sign-in asks blocked, compares    *)
(* the password and reports failure or success.  A management request      *)
(* calls allow, which is blocked followed by failure: a sign-in with one   *)
(* key that always fails.  Each call takes the time, then the lock: one    *)
(* step reads the clock, another is the critical section.  Threads serve   *)
(* requests side by side.                                                  *)
(*                                                                         *)
(* A moment is written as its age, so that time may go on for ever.        *)
(***************************************************************************)
EXTENDS Integers, Sequences, FiniteSets

CONSTANTS
    Threads,
    Keys,           \* accounts, clients, administrators
    Requests,       \* the sequences of keys that requests come with
    Attempts,       \* FailedSignInLimiter.attempts
    Window,         \* FailedSignInLimiter.window, in ticks
    MaxStall        \* bound: ticks between reading the clock and the lock

ASSUME LimiterAssumption ==
    /\ Attempts \in Nat \ {0} /\ Window \in Nat \ {0} /\ MaxStall \in Nat
    /\ Requests \subseteq Seq(Keys)

ASSUME ThreadsAssumption == IsFiniteSet(Threads)

VARIABLES
    events,         \* the deque of each key: the ages of its failures
    thread,         \* what each thread is doing
    failures        \* history: the failures since a success, and their ages

vars == <<events, thread, failures>>

MaxAge == Window + MaxStall

Ages == 0..MaxAge

ThreadRecords ==
    [ph : {"idle", "asking",    \* blocked took the time
           "passed",            \* ... and let the request through
           "failing",           \* failure took the time
           "succeeding"},
     keys : Seq(Keys), now : 0..MaxStall]

Idle == [ph |-> "idle", keys |-> <<>>, now |-> 0]

TypeOK ==
    /\ events \in [Keys -> Seq(Ages)]
    /\ thread \in [Threads -> ThreadRecords]
    /\ failures \in [Keys -> SUBSET (Nat \X Ages)]

Init ==
    /\ events = [k \in Keys |-> <<>>]
    /\ thread = [t \in Threads |-> Idle]
    /\ failures = [k \in Keys |-> {}]

At(t, ph) == thread[t].ph = ph

Becomes(t, rec) == thread' = [thread EXCEPT ![t] = rec]

KeysOf(t) == {thread[t].keys[i] : i \in DOMAIN thread[t].keys}

-----------------------------------------------------------------------------
\* A prune that lets an event go one tick before its window has passed.
PrunedEarly(s, now) ==
    LET old == {i \in 1..Len(s) : \A j \in 1..i : s[j] - now >= Window - 1} IN
    SubSeq(s, Cardinality(old) + 1, Len(s))

\* _prune pops the events at the left end that are Window old at `now`; the
\* deque is not sorted, for the clock was read before the lock was taken.
Pruned(s, now) ==
    LET old == {i \in 1..Len(s) : \A j \in 1..i : s[j] - now >= Window} IN
    SubSeq(s, Cardinality(old) + 1, Len(s))

BlockedBeyond(k, now) == Len(Pruned(events[k], now)) > Attempts

BlockedAt(k, now) == Len(Pruned(events[k], now)) >= Attempts

Arrive(t) ==
    /\ At(t, "idle")
    /\ \E ks \in Requests :
         Becomes(t, [ph |-> "asking", keys |-> ks, now |-> 0])
    /\ UNCHANGED <<events, failures>>

\* The keys that blocked looks at before it knows: up to the first full one.
LookedAt(ks, now) ==
    {ks[i] : i \in {j \in DOMAIN ks : \A h \in 1..(j - 1) : ~BlockedAt(ks[h], now)}}

RefusedAndCounted(t) ==
    Becomes(t, [thread[t] EXCEPT !.ph = "failing", !.now = 0])

\* A request that is blocked is answered, and its attempt counts for nothing.
Refused(t) == Becomes(t, Idle)

\* blocked.
Ask(t) ==
    LET q == thread[t] IN
    /\ At(t, "asking")
    /\ events' = [k \in Keys |-> IF k \in LookedAt(q.keys, q.now)
                                 THEN Pruned(events[k], q.now) ELSE events[k]]
    /\ IF \E k \in KeysOf(t) : BlockedAt(k, q.now)
       THEN Refused(t)
       ELSE Becomes(t, [q EXCEPT !.ph = "passed", !.now = 0])
    /\ UNCHANGED failures

\* The password is compared, which is slow.
TakeTimeOfFailure(t) ==
    /\ At(t, "passed")
    /\ Becomes(t, [thread[t] EXCEPT !.ph = "failing", !.now = 0])
    /\ UNCHANGED <<events, failures>>

AcceptPassword(t) ==
    /\ At(t, "passed")
    /\ Becomes(t, [thread[t] EXCEPT !.ph = "succeeding"])
    /\ UNCHANGED <<events, failures>>

\* The history numbers the failures of one age, and keeps the recent ones.
Fresh(F, age) == CHOOSE n \in 0..Cardinality(F) : <<n, age>> \notin F

Counted(F, age) == F \cup {<<Fresh(F, age), age>>}

Recent(F) == {f \in F : f[2] < Window}

\* failure appends the time that it took before the lock.
Stamp(q) == q.now

\* failure.
CountFailure(t) ==
    LET q == thread[t] IN
    /\ At(t, "failing")
    /\ events' = [k \in Keys |-> IF k \in KeysOf(t)
                                 THEN Append(Pruned(events[k], q.now), Stamp(q))
                                 ELSE events[k]]
    /\ failures' = [k \in Keys |-> IF k \in KeysOf(t)
                                   THEN Recent(Counted(failures[k], q.now))
                                   ELSE failures[k]]
    /\ Becomes(t, Idle)

\* success.
Forget(t) ==
    /\ At(t, "succeeding")
    /\ events' = [k \in Keys |-> IF k \in KeysOf(t) THEN <<>> ELSE events[k]]
    /\ failures' = [k \in Keys |-> IF k \in KeysOf(t) THEN {}
                                   ELSE failures[k]]
    /\ Becomes(t, Idle)

\* The comparison raises: nothing is counted.
Abandon(t) ==
    /\ At(t, "passed")
    /\ Becomes(t, Idle)
    /\ UNCHANGED <<events, failures>>

Older(age) == IF age < MaxAge THEN age + 1 ELSE MaxAge

\* The clock goes on; a call that read it is not delayed beyond MaxStall.
Tick ==
    /\ \A t \in Threads : thread[t].now < MaxStall
    /\ events' = [k \in Keys |-> [i \in DOMAIN events[k] |-> Older(events[k][i])]]
    /\ failures' = [k \in Keys |->
           Recent({<<f[1], Older(f[2])>> : f \in failures[k]})]
    /\ thread' = [t \in Threads |->
           IF thread[t].ph \in {"asking", "failing"}
           THEN [thread[t] EXCEPT !.now = @ + 1] ELSE thread[t]]

Serve(t) ==
    \/ Ask(t) \/ TakeTimeOfFailure(t) \/ AcceptPassword(t)
    \/ CountFailure(t) \/ Forget(t) \/ Abandon(t)

Next == Tick \/ \E t \in Threads : Arrive(t) \/ Serve(t)

\* A thread that is given the lock, or whose comparison ends, goes on, and
\* so does time.
Spec ==
    /\ Init /\ [][Next]_vars
    /\ WF_vars(Tick)
    /\ \A t \in Threads : WF_vars(Serve(t))

-----------------------------------------------------------------------------
(* Properties.                                                             *)

\* Threads that were let through and have not reported yet.
Passed(k) ==
    {t \in Threads : /\ thread[t].ph \in {"passed", "failing", "succeeding"}
                     /\ k \in KeysOf(t)}

\* The check and the count are two critical sections: a key collects at most
\* as many failures beyond the limit as other threads were let through.
OvershootIsBounded ==
    \A k \in Keys :
        Len(events[k]) + Cardinality(Passed(k))
            <= Attempts - 1 + Cardinality(Threads)

\* However calls interleave, no request is let through while one of its keys
\* has as many failures within the window as the limit, none forgotten but
\* by a success.
NobodyPassesAFullKey ==
    [][\A t \in Threads :
         At(t, "asking") /\ thread'[t].ph = "passed"
           => \A k \in KeysOf(t) : Cardinality(failures[k]) < Attempts]_vars

\* A lockout ends, whoever keeps trying meanwhile.
LockoutsEnd ==
    \A k \in Keys : BlockedAt(k, 0) ~> ~BlockedAt(k, 0)
=============================================================================

------------------------- MODULE SignInLimiterProofs ------------------------
(* The limiter's overshoot is bounded by the number of threads, and nobody *)
(* passes a full key.                                                      *)
EXTENDS SignInLimiter, FiniteSetTheorems, TLAPS

LEMMA PrunedIsNoLonger ==
    ASSUME NEW s \in Seq(Ages), NEW now \in Int
    PROVE  /\ Pruned(s, now) \in Seq(Ages)
           /\ Len(Pruned(s, now)) <= Len(s)
<1> DEFINE old == {i \in 1..Len(s) : \A j \in 1..i : s[j] - now >= Window}
           m == Cardinality(old) + 1
<1>1. IsFiniteSet(old)
  <2>1. IsFiniteSet(1..Len(s))
    BY FS_Interval
  <2> QED BY <2>1, FS_Subset
<1>2. Cardinality(old) \in Nat
  BY <1>1, FS_CardinalityType
<1>3. SubSeq(s, m, Len(s)) \in Seq(Ages) /\ Len(SubSeq(s, m, Len(s))) <= Len(s)
  <2>1. m \in Nat /\ m >= 1
    BY <1>2
  <2> HIDE DEF m
  <2>2. \A i \in m..Len(s) : s[i] \in Ages
    BY <2>1
  <2> QED BY <2>1, <2>2
<1> QED BY <1>3 DEF Pruned

LEMMA KeysAreKeys ==
    ASSUME TypeOK, NEW t \in Threads PROVE KeysOf(t) \subseteq Keys
<1>1. thread[t].keys \in Seq(Keys)
  BY DEF TypeOK, ThreadRecords
<1> QED BY <1>1 DEF KeysOf

LEMMA Initially == Init => TypeOK
<1> SUFFICES ASSUME Init PROVE TypeOK
  OBVIOUS
<1>1. Idle \in ThreadRecords
  BY LimiterAssumption DEF Idle, ThreadRecords
<1> QED BY <1>1 DEF Init, TypeOK

-----------------------------------------------------------------------------
(* The history and the deques.  The events of a key are not sorted, and    *)
(* what _prune leaves of them depends on who asks; but each failure that   *)
(* the history keeps has an event of its own, of its own age.              *)

Tracks(m, F, s) ==
    /\ m \in Injection(F, 1..Len(s))
    /\ \A f \in F : s[m[f]] = f[2]

Tracked(F, s) == \E m : Tracks(m, F, s)

NoFailureIsLost ==
    \A k \in Keys : failures[k] = Recent(failures[k])
                    /\ Tracked(failures[k], events[k])

LEMMA TrackedIsBounded ==
    ASSUME NEW F, NEW s \in Seq(Ages), Tracked(F, s)
    PROVE  IsFiniteSet(F) /\ Cardinality(F) \in Nat /\ Cardinality(F) <= Len(s)
<1>1. PICK m : m \in Injection(F, 1..Len(s))
  BY DEF Tracked, Tracks
<1>2. Len(s) \in Nat
  OBVIOUS
<1>3. IsFiniteSet(1..Len(s)) /\ Cardinality(1..Len(s)) = Len(s)
  BY <1>2, FS_Interval
<1>4. IsFiniteSet(F) /\ Cardinality(F) <= Cardinality(1..Len(s))
  BY <1>1, <1>3, FS_Injection
<1> QED BY <1>3, <1>4, FS_CardinalityType

LEMMA FewerAreTracked ==
    ASSUME NEW s, NEW F, NEW G \in SUBSET F, Tracked(F, s)
    PROVE  Tracked(G, s)
<1>1. PICK m : Tracks(m, F, s)
  BY DEF Tracked
<1> DEFINE r == [f \in G |-> m[f]]
<1>2. Tracks(r, G, s)
  BY <1>1 DEF Tracks, Injection, IsInjective
<1> QED BY <1>2 DEF Tracked

\* What _prune pops is at the left end, and it stops at a recent event.
LEMMA RecentEventsStay ==
    ASSUME NEW s \in Seq(Ages), NEW now \in Nat
    PROVE  \E c \in Nat :
             /\ c <= Len(s)
             /\ Pruned(s, now) = SubSeq(s, c + 1, Len(s))
             /\ \A i \in 1..Len(s) : s[i] < Window => c < i
<1> DEFINE old == {i \in 1..Len(s) : \A j \in 1..i : s[j] - now >= Window}
           c == Cardinality(old)
<1>1. Len(s) \in Nat
  OBVIOUS
<1>2. IsFiniteSet(1..Len(s)) /\ Cardinality(1..Len(s)) = Len(s)
  BY <1>1, FS_Interval
<1>3. c \in Nat /\ c <= Len(s)
  BY <1>2, FS_Subset, FS_CardinalityType
<1>4. ASSUME NEW i \in 1..Len(s), s[i] < Window
      PROVE  c < i
  <2>1. s[i] \in Int /\ Window \in Int
    BY LimiterAssumption DEF Ages, MaxAge
  <2>2. ~(s[i] - now >= Window)
    BY <1>4, <2>1
  <2>3. old \subseteq 1..(i - 1)
    BY <2>2, <1>1
  <2>4. IsFiniteSet(1..(i - 1)) /\ Cardinality(1..(i - 1)) = i - 1
    <3> DEFINE h == i - 1
    <3>1. h \in Nat
      BY <1>1
    <3> HIDE DEF h
    <3>2. IsFiniteSet(1..h) /\ Cardinality(1..h) = h
      BY <3>1, FS_Interval
    <3> QED BY <3>2 DEF h
  <2>5. c <= i - 1
    BY <2>3, <2>4, FS_Subset
  <2> QED BY <1>3, <2>5
<1>5. Pruned(s, now) = SubSeq(s, c + 1, Len(s))
  BY DEF Pruned
<1> HIDE DEF c
<1> QED BY <1>3, <1>4, <1>5

LEMMA PruningKeepsTrack ==
    ASSUME NEW s \in Seq(Ages), NEW now \in Nat, NEW F,
           F = Recent(F), Tracked(F, s)
    PROVE  Tracked(F, Pruned(s, now))
<1>1. PICK m : Tracks(m, F, s)
  BY DEF Tracked
<1>2. PICK c \in Nat :
         /\ c <= Len(s)
         /\ Pruned(s, now) = SubSeq(s, c + 1, Len(s))
         /\ \A i \in 1..Len(s) : s[i] < Window => c < i
  BY RecentEventsStay
<1> DEFINE p == SubSeq(s, c + 1, Len(s))
           r == [f \in F |-> m[f] - c]
<1>3. Len(s) \in Nat
  OBVIOUS
<1>4. Len(p) = Len(s) - c /\ \A i \in 1..(Len(s) - c) : p[i] = s[i + c]
  BY <1>2, <1>3
<1>5. ASSUME NEW f \in F
      PROVE  m[f] - c \in 1..(Len(s) - c) /\ p[m[f] - c] = f[2]
  <2>1. m[f] \in 1..Len(s) /\ s[m[f]] = f[2]
    BY <1>1 DEF Tracks, Injection
  <2>2. f[2] < Window
    BY DEF Recent
  <2>3. c < m[f]
    BY <1>2, <2>1, <2>2
  <2>4. m[f] - c \in 1..(Len(s) - c) /\ (m[f] - c) + c = m[f]
    BY <1>2, <1>3, <2>1, <2>3
  <2> QED BY <1>4, <2>1, <2>4
<1> HIDE DEF p
<1>6. r \in [F -> 1..Len(p)]
  BY <1>4, <1>5
<1>7. ASSUME NEW f \in F, NEW g \in F, r[f] = r[g] PROVE f = g
  <2>1. m[f] \in Int /\ m[g] \in Int
    BY <1>1, <1>3 DEF Tracks, Injection
  <2>2. m[f] = m[g]
    BY <1>2, <1>7, <2>1
  <2> QED BY <1>1, <2>2 DEF Tracks, Injection, IsInjective
<1>8. Tracks(r, F, p)
  BY <1>5, <1>6, <1>7 DEF Tracks, Injection, IsInjective
<1> QED BY <1>2, <1>8 DEF Tracked, p

\* Whatever number a failure gets, its event is the last one.
LEMMA CountingKeepsTrack ==
    ASSUME NEW s \in Seq(Ages), NEW now \in Ages, NEW F, NEW n, Tracked(F, s)
    PROVE  Tracked(Recent(F \cup {<<n, now>>}), Append(s, now))
<1>1. PICK m : Tracks(m, F, s)
  BY DEF Tracked
<1> DEFINE new == <<n, now>>
           G == F \cup {new}
           p == Append(s, now)
           r == [f \in G |-> IF f = new THEN Len(s) + 1 ELSE m[f]]
<1>2. Len(s) \in Nat /\ Len(p) = Len(s) + 1
      /\ p[Len(s) + 1] = now /\ \A i \in 1..Len(s) : p[i] = s[i]
  OBVIOUS
<1> HIDE DEF p
<1>3. new[2] = now
  OBVIOUS
<1> HIDE DEF new
<1>4. \A f \in F : m[f] \in 1..Len(s) /\ s[m[f]] = f[2]
  BY <1>1 DEF Tracks, Injection
<1>5. r \in [G -> 1..Len(p)]
  BY <1>2, <1>4
<1>6. \A f \in G : p[r[f]] = f[2]
  BY <1>2, <1>3, <1>4
<1>7. ASSUME NEW f \in G, NEW g \in G, r[f] = r[g] PROVE f = g
  <2>1. CASE f = new \/ g = new
    BY <1>2, <1>4, <1>7, <2>1
  <2>2. CASE f # new /\ g # new
    BY <1>1, <1>7, <2>2 DEF Tracks, Injection, IsInjective
  <2> QED BY <2>1, <2>2
<1>8. Tracks(r, G, p)
  BY <1>5, <1>6, <1>7 DEF Tracks, Injection, IsInjective
<1>9. Tracked(G, p) /\ Recent(G) \in SUBSET G
  BY <1>8 DEF Tracked, Recent
<1>10. Tracked(Recent(G), p)
  BY <1>9, FewerAreTracked
<1> QED BY <1>10 DEF new, p

LEMMA AgingKeepsTrack ==
    ASSUME NEW s \in Seq(Ages), NEW F, Tracked(F, s)
    PROVE  Tracked(Recent({<<f[1], Older(f[2])>> : f \in F}),
                   [i \in DOMAIN s |-> Older(s[i])])
<1>1. PICK m : Tracks(m, F, s)
  BY DEF Tracked
<1> DEFINE Aged(f) == <<f[1], Older(f[2])>>
           G == {Aged(f) : f \in F}
           p == [i \in DOMAIN s |-> Older(s[i])]
           was(g) == CHOOSE f \in F : g = Aged(f)
           r == [g \in G |-> m[was(g)]]
<1>2. Len(s) \in Nat /\ DOMAIN s = 1..Len(s)
  OBVIOUS
<1>3. Len(p) = Len(s) /\ \A i \in 1..Len(s) : p[i] = Older(s[i])
  BY <1>2
<1>4. ASSUME NEW g \in G PROVE was(g) \in F /\ g = Aged(was(g))
  OBVIOUS
<1>5. \A f \in F : Aged(f)[2] = Older(f[2])
  OBVIOUS
<1>6. \A f \in F : m[f] \in 1..Len(s) /\ s[m[f]] = f[2]
  BY <1>1 DEF Tracks, Injection
<1> HIDE DEF p, was, Aged
<1>7. r \in [G -> 1..Len(p)]
  BY <1>3, <1>4, <1>6
<1>8. \A g \in G : p[r[g]] = g[2]
  BY <1>3, <1>4, <1>5, <1>6
<1>9. ASSUME NEW g \in G, NEW h \in G, r[g] = r[h] PROVE g = h
  <2>1. m[was(g)] = m[was(h)]
    BY <1>9
  <2>2. was(g) = was(h)
    BY <1>1, <1>4, <2>1 DEF Tracks, Injection, IsInjective
  <2> QED BY <1>4, <2>2
<1>10. Tracks(r, G, p)
  BY <1>7, <1>8, <1>9 DEF Tracks, Injection, IsInjective
<1>11. Tracked(G, p) /\ Recent(G) \in SUBSET G
  BY <1>10 DEF Tracked, Recent
<1>12. Tracked(Recent(G), p)
  BY <1>11, FewerAreTracked
<1> QED BY <1>12 DEF p, Aged

-----------------------------------------------------------------------------
(* Types.                                                                  *)

LEMMA RecordChanges ==
    ASSUME TypeOK, NEW t \in Threads, NEW q \in ThreadRecords, Becomes(t, q)
    PROVE  thread' \in [Threads -> ThreadRecords]
BY DEF TypeOK, Becomes

LEMMA IdleIsTyped == Idle \in ThreadRecords
BY LimiterAssumption DEF Idle, ThreadRecords

LEMMA EventsStayTyped ==
    ASSUME TypeOK, [Next]_vars
    PROVE  events' \in [Keys -> Seq(Ages)]
<1> USE DEF TypeOK
<1>1. ASSUME NEW t \in Threads, NEW now \in 0..MaxStall, NEW k \in Keys
      PROVE  /\ Pruned(events[k], now) \in Seq(Ages)
             /\ Append(Pruned(events[k], now), now) \in Seq(Ages)
  <2>1. now \in Int /\ now \in Ages
    BY LimiterAssumption DEF Ages, MaxAge
  <2>2. Pruned(events[k], now) \in Seq(Ages)
    BY <2>1, PrunedIsNoLonger
  <2> QED BY <2>1, <2>2
<1>2. ASSUME NEW t \in Threads PROVE thread[t].now \in 0..MaxStall
  BY DEF ThreadRecords
<1>3. ASSUME NEW t \in Threads, Ask(t) PROVE events' \in [Keys -> Seq(Ages)]
  BY <1>1, <1>2, <1>3 DEF Ask
<1>4. ASSUME NEW t \in Threads, CountFailure(t)
      PROVE  events' \in [Keys -> Seq(Ages)]
  BY <1>1, <1>2, <1>4 DEF CountFailure, Stamp
<1>5. ASSUME NEW t \in Threads, Forget(t) PROVE events' \in [Keys -> Seq(Ages)]
  BY <1>5 DEF Forget
<1>6. ASSUME Tick PROVE events' \in [Keys -> Seq(Ages)]
  <2>1. ASSUME NEW k \in Keys
        PROVE  [i \in DOMAIN events[k] |-> Older(events[k][i])] \in Seq(Ages)
    <3>1. \A age \in Ages : Older(age) \in Ages
      BY LimiterAssumption DEF Older, Ages, MaxAge
    <3>2. events[k] \in Seq(Ages)
      OBVIOUS
    <3>3. DOMAIN events[k] = 1..Len(events[k]) /\ Len(events[k]) \in Nat
      BY <3>2
    <3>4. \A i \in 1..Len(events[k]) : Older(events[k][i]) \in Ages
      BY <3>1, <3>2
    <3> QED BY <3>3, <3>4
  <2> QED BY <1>6, <2>1 DEF Tick
<1>7. ASSUME NEW t \in Threads,
             Arrive(t) \/ TakeTimeOfFailure(t) \/ AcceptPassword(t) \/ Abandon(t)
      PROVE  events' \in [Keys -> Seq(Ages)]
  BY <1>7 DEF Arrive, TakeTimeOfFailure, AcceptPassword, Abandon
<1> QED BY <1>3, <1>4, <1>5, <1>6, <1>7 DEF Next, Serve, vars

LEMMA ThreadsStayTyped ==
    ASSUME TypeOK, [Next]_vars
    PROVE  thread' \in [Threads -> ThreadRecords]
<1> USE DEF TypeOK
<1>1. 0 \in 0..MaxStall
  BY LimiterAssumption
<1>2. ASSUME NEW t \in Threads, Arrive(t)
      PROVE  thread' \in [Threads -> ThreadRecords]
  <2>1. PICK ks \in Requests :
           Becomes(t, [ph |-> "asking", keys |-> ks, now |-> 0])
    BY <1>2 DEF Arrive
  <2>2. [ph |-> "asking", keys |-> ks, now |-> 0] \in ThreadRecords
    BY <1>1, LimiterAssumption DEF ThreadRecords
  <2> QED BY <2>1, <2>2, RecordChanges
<1>3. ASSUME NEW t \in Threads, Ask(t)
      PROVE  thread' \in [Threads -> ThreadRecords]
  <2>1. [thread[t] EXCEPT !.ph = "passed", !.now = 0] \in ThreadRecords
    BY <1>1 DEF ThreadRecords
  <2> QED BY <1>3, <2>1, IdleIsTyped, RecordChanges DEF Ask, Refused
<1>4. ASSUME NEW t \in Threads, TakeTimeOfFailure(t)
      PROVE  thread' \in [Threads -> ThreadRecords]
  <2>1. [thread[t] EXCEPT !.ph = "failing", !.now = 0] \in ThreadRecords
    BY <1>1 DEF ThreadRecords
  <2> QED BY <1>4, <2>1, RecordChanges DEF TakeTimeOfFailure
<1>5. ASSUME NEW t \in Threads, AcceptPassword(t)
      PROVE  thread' \in [Threads -> ThreadRecords]
  <2>1. [thread[t] EXCEPT !.ph = "succeeding"] \in ThreadRecords
    BY DEF ThreadRecords
  <2> QED BY <1>5, <2>1, RecordChanges DEF AcceptPassword
<1>6. ASSUME NEW t \in Threads, CountFailure(t) \/ Forget(t) \/ Abandon(t)
      PROVE  thread' \in [Threads -> ThreadRecords]
  BY <1>6, IdleIsTyped, RecordChanges DEF CountFailure, Forget, Abandon
<1>7. ASSUME Tick PROVE thread' \in [Threads -> ThreadRecords]
  <2>1. ASSUME NEW t \in Threads
        PROVE  [thread[t] EXCEPT !.now = @ + 1] \in ThreadRecords
    <3>1. thread[t].now < MaxStall /\ thread[t].now \in 0..MaxStall
      BY <1>7 DEF Tick, ThreadRecords
    <3>2. thread[t].now + 1 \in 0..MaxStall
      BY <3>1, LimiterAssumption
    <3> QED BY <3>2 DEF ThreadRecords
  <2> QED BY <1>7, <2>1 DEF Tick
<1> QED BY <1>2, <1>3, <1>4, <1>5, <1>6, <1>7 DEF Next, Serve, vars

-----------------------------------------------------------------------------
(* No failure is lost.                                                     *)

\* The number of a failure is new, so the history counts each one.
LEMMA FreshIsNew ==
    ASSUME NEW F, IsFiniteSet(F), NEW age
    PROVE  Fresh(F, age) \in Nat /\ <<Fresh(F, age), age>> \notin F
<1> DEFINE number == [f \in F |-> f[1]]
           used == {f[1] : f \in F}
           some == 0..Cardinality(F)
<1>1. Cardinality(F) \in Nat
  BY FS_CardinalityType
<1>2. IsFiniteSet(used) /\ Cardinality(used) <= Cardinality(F)
  <2>1. number \in Surjection(F, used)
    BY DEF Surjection
  <2> QED BY <2>1, FS_Surjection
<1>3. IsFiniteSet(some) /\ Cardinality(some) = Cardinality(F) + 1
  <2>1. 0 \in Int /\ Cardinality(F) \in Int /\ ~(0 > Cardinality(F))
    BY <1>1
  <2>2. Cardinality(0..Cardinality(F)) = Cardinality(F) - 0 + 1
    BY <2>1, FS_Interval
  <2>3. IsFiniteSet(0..Cardinality(F))
    BY <2>1, FS_Interval
  <2> QED BY <1>1, <2>2, <2>3
<1>4. Cardinality(used) \in Nat
  BY <1>2, FS_CardinalityType
<1>5. ~(some \subseteq used)
  <2>1. some \subseteq used => Cardinality(some) <= Cardinality(used)
    BY <1>2, FS_Subset
  <2> QED BY <1>1, <1>2, <1>3, <1>4, <2>1
<1>6. \E n \in some : <<n, age>> \notin F
  <2>1. PICK n \in some : n \notin used
    BY <1>5
  <2>2. <<n, age>> \notin F
    BY <2>1
  <2> QED BY <2>1, <2>2
<1>7. Fresh(F, age) \in some /\ <<Fresh(F, age), age>> \notin F
  BY <1>6 DEF Fresh
<1> QED BY <1>1, <1>7

LEMMA FailuresStayTyped ==
    ASSUME TypeOK, NoFailureIsLost, [Next]_vars
    PROVE  failures' \in [Keys -> SUBSET (Nat \X Ages)]
<1> USE DEF TypeOK
<1>1. ASSUME NEW k \in Keys PROVE \A age : Fresh(failures[k], age) \in Nat
  <2>1. events[k] \in Seq(Ages) /\ Tracked(failures[k], events[k])
    BY DEF NoFailureIsLost
  <2> QED BY <2>1, TrackedIsBounded, FreshIsNew
<1>2. ASSUME NEW t \in Threads, CountFailure(t)
      PROVE  failures' \in [Keys -> SUBSET (Nat \X Ages)]
  <2>1. thread[t].now \in Ages
    BY LimiterAssumption DEF ThreadRecords, Ages, MaxAge
  <2>2. \A k \in Keys :
          Recent(failures[k]
                 \cup {<<Fresh(failures[k], thread[t].now), thread[t].now>>})
            \in SUBSET (Nat \X Ages)
    BY <1>1, <2>1 DEF Recent
  <2> QED BY <1>2, <2>2 DEF CountFailure, Counted
<1>3. ASSUME NEW t \in Threads, Forget(t)
      PROVE  failures' \in [Keys -> SUBSET (Nat \X Ages)]
  BY <1>3 DEF Forget
<1>4. ASSUME Tick PROVE failures' \in [Keys -> SUBSET (Nat \X Ages)]
  <2>1. \A age \in Ages : Older(age) \in Ages
    BY LimiterAssumption DEF Older, Ages, MaxAge
  <2>2. \A k \in Keys :
          Recent({<<f[1], Older(f[2])>> : f \in failures[k]})
            \in SUBSET (Nat \X Ages)
    BY <2>1 DEF Recent
  <2> QED BY <1>4, <2>2 DEF Tick
<1>5. ASSUME NEW t \in Threads,
             Arrive(t) \/ Ask(t) \/ TakeTimeOfFailure(t) \/ AcceptPassword(t)
             \/ Abandon(t)
      PROVE  failures' \in [Keys -> SUBSET (Nat \X Ages)]
  BY <1>5 DEF Arrive, Ask, TakeTimeOfFailure, AcceptPassword, Abandon
<1> QED BY <1>2, <1>3, <1>4, <1>5 DEF Next, Serve, vars

LEMMA RecentOfRecent == \A F : Recent(Recent(F)) = Recent(F)
BY DEF Recent

LEMMA NothingIsTracked ==
    ASSUME NEW s \in Seq(Ages) PROVE Recent({}) = {} /\ Tracked({}, s)
<1>1. Tracks([f \in {} |-> 1], {}, s)
  BY DEF Tracks, Injection, IsInjective
<1> QED BY <1>1 DEF Tracked, Recent

LEMMA NoFailureGetsLost ==
    ASSUME TypeOK, NoFailureIsLost, [Next]_vars PROVE NoFailureIsLost'
<1> SUFFICES ASSUME NEW k \in Keys
             PROVE  failures'[k] = Recent(failures'[k])
                    /\ Tracked(failures'[k], events'[k])
  BY DEF NoFailureIsLost, Recent, Tracked, Tracks
<1> DEFINE F == failures[k]
           s == events[k]
<1>1. s \in Seq(Ages) /\ F = Recent(F) /\ Tracked(F, s)
  BY DEF TypeOK, NoFailureIsLost
<1>2. ASSUME NEW t \in Threads
      PROVE  thread[t].now \in Nat /\ thread[t].now \in Ages
  BY LimiterAssumption DEF TypeOK, ThreadRecords, Ages, MaxAge
<1>3. ASSUME NEW t \in Threads, Ask(t)
      PROVE  failures'[k] = Recent(failures'[k])
             /\ Tracked(failures'[k], events'[k])
  <2>1. Tracked(F, Pruned(s, thread[t].now))
    BY <1>1, <1>2, PruningKeepsTrack
  <2>2. failures' = failures
        /\ (events'[k] = s \/ events'[k] = Pruned(s, thread[t].now))
    BY <1>3 DEF Ask
  <2> QED BY <1>1, <2>1, <2>2
<1>4. ASSUME NEW t \in Threads, CountFailure(t)
      PROVE  failures'[k] = Recent(failures'[k])
             /\ Tracked(failures'[k], events'[k])
  <2> DEFINE now == thread[t].now
             p == Pruned(s, now)
             G == Recent(F \cup {<<Fresh(F, now), now>>})
  <2>1. CASE k \notin KeysOf(t)
    <3>1. failures'[k] = F /\ events'[k] = s
      BY <1>4, <2>1 DEF CountFailure
    <3> QED BY <1>1, <3>1
  <2>2. CASE k \in KeysOf(t)
    <3>1. failures'[k] = G /\ events'[k] = Append(p, now)
      BY <1>4, <2>2 DEF CountFailure, Counted, Stamp
    <3>2. p \in Seq(Ages) /\ Tracked(F, p)
      <4>1. now \in Nat /\ now \in Int
        BY <1>2
      <4> HIDE DEF now, F, s
      <4> QED BY <1>1, <4>1, PruningKeepsTrack, PrunedIsNoLonger
    <3>3. Tracked(G, Append(p, now))
      BY <1>2, <3>2, CountingKeepsTrack
    <3>4. Recent(G) = G
      BY RecentOfRecent
    <3> QED BY <3>1, <3>3, <3>4
  <2> QED BY <2>1, <2>2
<1>5. ASSUME NEW t \in Threads, Forget(t)
      PROVE  failures'[k] = Recent(failures'[k])
             /\ Tracked(failures'[k], events'[k])
  <2>1. CASE k \notin KeysOf(t)
    <3>1. failures'[k] = F /\ events'[k] = s
      BY <1>5, <2>1 DEF Forget
    <3> QED BY <1>1, <3>1
  <2>2. CASE k \in KeysOf(t)
    <3>1. failures'[k] = {} /\ events'[k] = <<>>
      BY <1>5, <2>2 DEF Forget
    <3>2. <<>> \in Seq(Ages)
      OBVIOUS
    <3> QED BY <3>1, <3>2, NothingIsTracked
  <2> QED BY <2>1, <2>2
<1>6. ASSUME Tick
      PROVE  failures'[k] = Recent(failures'[k])
             /\ Tracked(failures'[k], events'[k])
  <2> DEFINE G == {<<f[1], Older(f[2])>> : f \in F}
  <2>1. failures'[k] = Recent(G)
        /\ events'[k] = [i \in DOMAIN s |-> Older(s[i])]
    BY <1>6 DEF Tick
  <2>2. Tracked(Recent(G), [i \in DOMAIN s |-> Older(s[i])])
    BY <1>1, AgingKeepsTrack
  <2>3. Recent(Recent(G)) = Recent(G)
    BY RecentOfRecent
  <2> QED BY <2>1, <2>2, <2>3
<1>7. ASSUME NEW t \in Threads,
             Arrive(t) \/ TakeTimeOfFailure(t) \/ AcceptPassword(t) \/ Abandon(t)
      PROVE  failures' = failures /\ events' = events
  BY <1>7 DEF Arrive, TakeTimeOfFailure, AcceptPassword, Abandon
<1>8. ASSUME UNCHANGED vars PROVE failures' = failures /\ events' = events
  BY <1>8 DEF vars
<1> QED BY <1>1, <1>3, <1>4, <1>5, <1>6, <1>7, <1>8 DEF Next, Serve

\* What is left of a deque when a request asks shows every recent failure.
LEMMA FullKeysBlock ==
    ASSUME TypeOK, NoFailureIsLost, NEW k \in Keys, NEW now \in Nat,
           ~BlockedAt(k, now)
    PROVE  Cardinality(failures[k]) < Attempts
<1>1. events[k] \in Seq(Ages)
  BY DEF TypeOK
<1>2. Tracked(failures[k], Pruned(events[k], now))
  BY <1>1, PruningKeepsTrack DEF NoFailureIsLost
<1>3. Pruned(events[k], now) \in Seq(Ages)
  BY <1>1, PrunedIsNoLonger
<1>4. Cardinality(failures[k]) <= Len(Pruned(events[k], now))
      /\ Cardinality(failures[k]) \in Nat
  BY <1>2, <1>3, TrackedIsBounded
<1>5. Len(Pruned(events[k], now)) < Attempts
  BY <1>3, LimiterAssumption DEF BlockedAt
<1> QED BY <1>3, <1>4, <1>5, LimiterAssumption

LEMMA OnlyWithRoomOneGetsThrough ==
    ASSUME TypeOK, NoFailureIsLost, [Next]_vars, NEW t \in Threads,
           At(t, "asking"), thread'[t].ph = "passed"
    PROVE  \A k \in KeysOf(t) : Cardinality(failures[k]) < Attempts
<1>1. thread \in [Threads -> ThreadRecords]
  BY DEF TypeOK
<1>2. ~Tick /\ ~UNCHANGED vars
  BY <1>1 DEF Tick, vars, At, ThreadRecords
<1>3. PICK u \in Threads : Arrive(u) \/ Serve(u)
  BY <1>2 DEF Next
<1>4. u = t
  <2>1. \E q : thread' = [thread EXCEPT ![u] = q]
    BY <1>3 DEF Arrive, Serve, Ask, TakeTimeOfFailure, AcceptPassword, CountFailure,
           Forget, Abandon, Refused, Becomes
  <2> QED BY <1>1, <2>1 DEF At
<1>5. Ask(t)
  BY <1>3, <1>4 DEF Arrive, Serve, At, TakeTimeOfFailure, AcceptPassword,
         CountFailure, Forget, Abandon
<1>6. \A k \in KeysOf(t) : ~BlockedAt(k, thread[t].now)
  <2>1. (\E k \in KeysOf(t) : BlockedAt(k, thread[t].now)) => thread'[t] = Idle
    BY <1>1, <1>5 DEF Ask, Refused, Becomes
  <2> QED BY <2>1 DEF Idle
<1>7. thread[t].now \in Nat
  BY <1>1, LimiterAssumption DEF ThreadRecords
<1>8. KeysOf(t) \subseteq Keys
  BY KeysAreKeys
<1> QED BY <1>6, <1>7, <1>8, FullKeysBlock

-----------------------------------------------------------------------------
(* The overshoot.                                                          *)

IInv == TypeOK /\ NoFailureIsLost /\ OvershootIsBounded

LEMMA PassedIsFinite ==
    ASSUME NEW k \in Keys
    PROVE  /\ IsFiniteSet(Passed(k)) /\ Cardinality(Passed(k)) \in Nat
           /\ Cardinality(Threads) \in Nat
           /\ Cardinality(Passed(k)) <= Cardinality(Threads)
<1>1. Passed(k) \subseteq Threads
  BY DEF Passed
<1> QED BY <1>1, ThreadsAssumption, FS_Subset, FS_CardinalityType

\* A step that lets nobody through and makes no deque longer keeps the bound.
LEMMA NobodyPasses ==
    ASSUME IInv, TypeOK', NEW k \in Keys,
           Len(events'[k]) <= Len(events[k]), Passed(k)' \subseteq Passed(k)
    PROVE  Len(events'[k]) + Cardinality(Passed(k)')
             <= Attempts - 1 + Cardinality(Threads)
<1>1. Cardinality(Passed(k)') \in Nat
      /\ Cardinality(Passed(k)') <= Cardinality(Passed(k))
  BY PassedIsFinite, FS_Subset, FS_CardinalityType
<1>2. Len(events[k]) + Cardinality(Passed(k)) <= Attempts - 1 + Cardinality(Threads)
  BY DEF IInv, OvershootIsBounded
<1>3. Len(events[k]) \in Nat /\ Len(events'[k]) \in Nat
  BY DEF IInv, TypeOK
<1> QED BY <1>1, <1>2, <1>3, PassedIsFinite, LimiterAssumption

LEMMA AskKeepsTheBound ==
    ASSUME IInv, TypeOK', NEW t \in Threads, Ask(t), NEW k \in Keys
    PROVE  Len(events'[k]) + Cardinality(Passed(k)')
             <= Attempts - 1 + Cardinality(Threads)
<1> DEFINE q == thread[t]
<1> USE DEF IInv
<1>1. q \in ThreadRecords /\ q.now \in Int /\ q.keys \in Seq(Keys)
  BY DEF TypeOK, ThreadRecords
<1>2. events[k] \in Seq(Ages)
  BY DEF TypeOK
<1>3. Len(Pruned(events[k], q.now)) <= Len(events[k])
      /\ Len(Pruned(events[k], q.now)) \in Nat
  BY <1>1, <1>2, PrunedIsNoLonger
<1>4. Len(events'[k]) <= Len(events[k])
  BY <1>2, <1>3 DEF Ask
<1>5. CASE \E key \in KeysOf(t) : BlockedAt(key, q.now)
  <2>1. thread' = [thread EXCEPT ![t] = Idle]
    BY <1>5 DEF Ask, Refused, Becomes
  <2>2. Passed(k)' \subseteq Passed(k)
    BY <2>1 DEF Passed, TypeOK, Idle, KeysOf
  <2> QED BY <1>4, <2>2, NobodyPasses
<1>6. CASE ~ \E key \in KeysOf(t) : BlockedAt(key, q.now)
  <2>1. thread' = [thread EXCEPT ![t] = [q EXCEPT !.ph = "passed", !.now = 0]]
    BY <1>6 DEF Ask, Becomes
  <2>2. \A u \in Threads \ {t} : thread'[u] = thread[u]
    BY <2>1 DEF TypeOK
  <2>3. thread'[t].keys = q.keys
    BY <1>1, <2>1 DEF TypeOK, ThreadRecords
  <2>4. CASE k \notin KeysOf(t)
    <3>1. Passed(k)' \subseteq Passed(k)
      BY <2>2, <2>3, <2>4 DEF Passed, KeysOf
    <3> QED BY <1>4, <3>1, NobodyPasses
  <2>5. CASE k \in KeysOf(t)
    <3>1. PICK i \in DOMAIN q.keys : k = q.keys[i]
      BY <2>5 DEF KeysOf
    <3>2. \A h \in 1..(i - 1) : q.keys[h] \in KeysOf(t)
      BY <1>1, <3>1 DEF KeysOf
    <3>3. k \in LookedAt(q.keys, q.now)
      BY <1>6, <3>1, <3>2 DEF LookedAt
    <3>4. events'[k] = Pruned(events[k], q.now)
      BY <3>3 DEF Ask
    <3>5. Len(events'[k]) < Attempts
      BY <1>3, <1>6, <2>5, <3>4, LimiterAssumption DEF BlockedAt
    <3>6. Cardinality(Passed(k)') \in Nat
          /\ Cardinality(Passed(k)') <= Cardinality(Threads)
      <4>1. Passed(k)' \subseteq Threads
        BY DEF Passed
      <4> QED BY <4>1, ThreadsAssumption, FS_Subset, FS_CardinalityType
    <3> QED BY <1>3, <3>4, <3>5, <3>6, PassedIsFinite, LimiterAssumption
  <2> QED BY <2>4, <2>5
<1> QED BY <1>5, <1>6

LEMMA CountingKeepsTheBound ==
    ASSUME IInv, TypeOK', NEW t \in Threads, CountFailure(t), NEW k \in Keys
    PROVE  Len(events'[k]) + Cardinality(Passed(k)')
             <= Attempts - 1 + Cardinality(Threads)
<1> DEFINE q == thread[t]
<1> USE DEF IInv
<1>1. q.now \in Int /\ q.now \in Ages
  BY LimiterAssumption DEF TypeOK, ThreadRecords, Ages, MaxAge
<1>2. events[k] \in Seq(Ages)
  BY DEF TypeOK
<1>3. thread' = [thread EXCEPT ![t] = Idle]
  BY DEF CountFailure, Becomes
<1>4. CASE k \notin KeysOf(t)
  <2>1. events'[k] = events[k]
    BY <1>4 DEF CountFailure
  <2>2. Passed(k)' \subseteq Passed(k)
    BY <1>3 DEF Passed, TypeOK, Idle, KeysOf
  <2>3. Len(events'[k]) <= Len(events[k])
    BY <1>2, <2>1
  <2> QED BY <2>2, <2>3, NobodyPasses
<1>5. CASE k \in KeysOf(t)
  <2>1. events'[k] = Append(Pruned(events[k], q.now), q.now)
    BY <1>5 DEF CountFailure, Stamp
  <2>2. Len(events'[k]) <= Len(events[k]) + 1
    BY <1>1, <1>2, <2>1, PrunedIsNoLonger
  <2>3. t \in Passed(k)
    BY <1>5 DEF CountFailure, At, Passed
  <2>4. Passed(k)' \subseteq Passed(k) \ {t}
    BY <1>3 DEF Passed, TypeOK, Idle, KeysOf
  <2>5. Cardinality(Passed(k) \ {t}) = Cardinality(Passed(k)) - 1
        /\ IsFiniteSet(Passed(k) \ {t})
    BY <2>3, PassedIsFinite, FS_RemoveElement
  <2>6. Cardinality(Passed(k)') <= Cardinality(Passed(k)) - 1
        /\ Cardinality(Passed(k)') \in Nat
    BY <2>4, <2>5, FS_Subset, FS_CardinalityType
  <2>7. Len(events[k]) + Cardinality(Passed(k))
          <= Attempts - 1 + Cardinality(Threads)
    BY DEF OvershootIsBounded
  <2>8. Len(events[k]) \in Nat /\ Len(events'[k]) \in Nat
    BY DEF TypeOK
  <2> QED BY <2>2, <2>6, <2>7, <2>8, PassedIsFinite, LimiterAssumption
<1> QED BY <1>4, <1>5

LEMMA TheBoundStays ==
    ASSUME IInv, [Next]_vars, TypeOK' PROVE OvershootIsBounded'
<1> SUFFICES ASSUME NEW k \in Keys
             PROVE  Len(events'[k]) + Cardinality(Passed(k)')
                      <= Attempts - 1 + Cardinality(Threads)
  BY DEF OvershootIsBounded
<1> USE DEF IInv
<1>0. events[k] \in Seq(Ages) /\ Len(events[k]) \in Nat
  BY DEF TypeOK
<1>1. ASSUME NEW t \in Threads, Arrive(t)
      PROVE  events'[k] = events[k] /\ Passed(k)' \subseteq Passed(k)
  BY <1>1 DEF Arrive, Becomes, Passed, KeysOf, TypeOK
<1>2. ASSUME NEW t \in Threads,
             TakeTimeOfFailure(t) \/ AcceptPassword(t) \/ Abandon(t)
      PROVE  events'[k] = events[k] /\ Passed(k)' \subseteq Passed(k)
  <2>1. thread[t] \in ThreadRecords /\ At(t, "passed")
    BY <1>2 DEF TypeOK, TakeTimeOfFailure, AcceptPassword, Abandon
  <2>2. \A u \in Threads \ {t} : thread'[u] = thread[u]
    BY <1>2 DEF TakeTimeOfFailure, AcceptPassword, Abandon, Becomes, TypeOK
  <2>3. thread'[t] = Idle \/ thread'[t].keys = thread[t].keys
    <3>1. thread \in [Threads -> ThreadRecords]
      BY DEF TypeOK
    <3>2. CASE TakeTimeOfFailure(t)
      BY <2>1, <3>1, <3>2 DEF TakeTimeOfFailure, Becomes, ThreadRecords
    <3>3. CASE AcceptPassword(t)
      BY <2>1, <3>1, <3>3 DEF AcceptPassword, Becomes, ThreadRecords
    <3>4. CASE Abandon(t)
      BY <3>1, <3>4 DEF Abandon, Becomes
    <3> QED BY <1>2, <3>2, <3>3, <3>4
  <2>4. Passed(k)' \subseteq Passed(k)
    BY <2>1, <2>2, <2>3 DEF Passed, KeysOf, At, Idle
  <2> QED BY <1>2, <2>4 DEF TakeTimeOfFailure, AcceptPassword, Abandon
<1>3. ASSUME NEW t \in Threads, Forget(t)
      PROVE  Len(events'[k]) <= Len(events[k]) /\ Passed(k)' \subseteq Passed(k)
  BY <1>0, <1>3 DEF Forget, Becomes, Passed, KeysOf, TypeOK, Idle
<1>4. ASSUME Tick
      PROVE  Len(events'[k]) = Len(events[k]) /\ Passed(k)' \subseteq Passed(k)
  <2>1. events'[k] = [i \in 1..Len(events[k]) |-> Older(events[k][i])]
    BY <1>0, <1>4 DEF Tick
  <2>2. Len(events'[k]) = Len(events[k])
    BY <1>0, <2>1
  <2>3. ASSUME NEW t \in Threads
        PROVE  thread'[t].ph = thread[t].ph /\ thread'[t].keys = thread[t].keys
    BY <1>4 DEF Tick, TypeOK, ThreadRecords
  <2> QED BY <2>2, <2>3 DEF Passed, KeysOf
<1>5. ASSUME UNCHANGED vars
      PROVE  events'[k] = events[k] /\ Passed(k)' \subseteq Passed(k)
  BY <1>5 DEF vars, Passed, KeysOf
<1> QED BY <1>0, <1>1, <1>2, <1>3, <1>4, <1>5, NobodyPasses, AskKeepsTheBound,
           CountingKeepsTheBound DEF Next, Serve

-----------------------------------------------------------------------------

\* The types, the history and the bound are inductive together.
THEOREM Invariance == Spec => []IInv
<1>1. Init => IInv
  <2>0. Init => NoFailureIsLost
    <3> SUFFICES ASSUME Init PROVE NoFailureIsLost
      OBVIOUS
    <3>1. <<>> \in Seq(Ages)
      OBVIOUS
    <3> QED BY <3>1, NothingIsTracked DEF Init, NoFailureIsLost
  <2> SUFFICES ASSUME Init PROVE OvershootIsBounded
    BY <2>0, Initially DEF IInv
  <2> SUFFICES ASSUME NEW k \in Keys
               PROVE  Len(events[k]) + Cardinality(Passed(k))
                        <= Attempts - 1 + Cardinality(Threads)
    BY DEF OvershootIsBounded
  <2>1. Passed(k) = {}
    BY DEF Init, Passed, Idle
  <2>2. Cardinality(Passed(k)) = 0
    BY <2>1, FS_EmptySet
  <2>3. Len(events[k]) = 0
    BY DEF Init
  <2> QED BY <2>2, <2>3, PassedIsFinite, LimiterAssumption
<1>2. IInv /\ [Next]_vars => IInv'
  <2> SUFFICES ASSUME IInv, [Next]_vars PROVE IInv'
    OBVIOUS
  <2>1. TypeOK'
    <3>1. events' \in [Keys -> Seq(Ages)]
      BY EventsStayTyped DEF IInv
    <3>2. thread' \in [Threads -> ThreadRecords]
      BY ThreadsStayTyped DEF IInv
    <3>3. failures' \in [Keys -> SUBSET (Nat \X Ages)]
      BY FailuresStayTyped DEF IInv
    <3> QED BY <3>1, <3>2, <3>3 DEF TypeOK
  <2>2. NoFailureIsLost'
    BY NoFailureGetsLost DEF IInv
  <2> QED BY <2>1, <2>2, TheBoundStays DEF IInv
<1> QED BY <1>1, <1>2, PTL DEF Spec

\* The deques and the threads keep their types.
THEOREM TypeCorrect == Spec => []TypeOK
<1>1. IInv => TypeOK
  BY DEF IInv
<1> QED BY <1>1, Invariance, PTL

\* For any numbers of threads, keys and attempts, and whatever the requests:
\* a key never holds more than Attempts - 1 + |Threads| failures, the ones in
\* flight included.
THEOREM OvershootBound == Spec => []OvershootIsBounded
<1>1. IInv => OvershootIsBounded
  BY DEF IInv
<1> QED BY <1>1, Invariance, PTL

\* However many threads, and whatever their requests share: no request gets
\* through while one of its keys has as many failures in the window as the
\* limit, although deques are pruned at times that were read out of order.
THEOREM FullKeysStop == Spec => NobodyPassesAFullKey
<1>1. IInv /\ [Next]_vars
      => [\A t \in Threads :
            At(t, "asking") /\ thread'[t].ph = "passed"
              => \A k \in KeysOf(t) : Cardinality(failures[k]) < Attempts]_vars
  BY OnlyWithRoomOneGetsThrough DEF IInv
<1> QED BY <1>1, Invariance, PTL DEF Spec, NobodyPassesAFullKey
=============================================================================

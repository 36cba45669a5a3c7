--------------------------- MODULE EventLoopProofs ---------------------------
(* Connections come back, and relays leave nothing behind.                 *)
EXTENDS EventLoop, FiniteSetTheorems, TLAPS

Typed ==
    /\ ph \in [Tasks -> TaskPhases]
    /\ holds \subseteq Tasks
    /\ blocker \in Proxied \cup {Nobody}
    /\ uploading \subseteq Https
    /\ link \in [Sockets -> LinkRecords]
    /\ failed \subseteq Sockets /\ active \subseteq Sockets
    /\ stale \in 0..MaxStale /\ refused \in 0..MaxStale

Pool == IsFiniteSet(holds) /\ Cardinality(holds) <= Size

\* Where a relay has an entry in the registry, and where it has no link yet
\* or no more.
Registered == {"accept", "relay", "expire", "hang_up", "finally"}

Unlinking ==
    {"idle", "lookup", "authorize", "refresh", "decide", "upstream", "audit", "exit"}

\* The statements before which a request has no connection, or may have none.
Checkouts == {"lookup", "refresh", "audit"}

NoPumps(w) == link[w].up # "running" /\ link[w].down # "running"

Tidy(w) ==
    /\ ph[w] \notin {"relay", "expire", "hang_up", "finally"} => NoPumps(w)
    /\ ph[w] \in Unlinking => link[w].upstream = "closed"
    /\ w \in active <=> ph[w] \in Registered

BlockerWaits == blocker # Nobody => ph[blocker] \in Checkouts

StaleWereRefused == stale <= refused

Waiting == ConnectionsComeBack /\ BlockerWaits

AllTidy == \A w \in Sockets : Tidy(w)

IInv == Typed /\ Pool /\ Waiting /\ AllTidy /\ StaleWereRefused

-----------------------------------------------------------------------------
(* The pool.                                                               *)

LEMMA OneMoreFits ==
    ASSUME Pool, NEW t, t \in holds \/ Free > 0
    PROVE  IsFiniteSet(holds \cup {t}) /\ Cardinality(holds \cup {t}) <= Size
<1>1. Cardinality(holds) \in Nat /\ Size \in Nat
  BY FS_CardinalityType, EventLoopAssumption DEF Pool
<1>2. /\ IsFiniteSet(holds \cup {t})
      /\ Cardinality(holds \cup {t}) =
           IF t \in holds THEN Cardinality(holds) ELSE Cardinality(holds) + 1
  BY FS_AddElement DEF Pool
<1>3. t \in holds \/ Cardinality(holds) + 1 <= Size
  BY <1>1 DEF Free
<1> QED BY <1>1, <1>2, <1>3 DEF Pool

LEMMA FewerFit ==
    ASSUME Pool, NEW fewer \in SUBSET holds
    PROVE  IsFiniteSet(fewer) /\ Cardinality(fewer) <= Size
<1>1. /\ IsFiniteSet(fewer) /\ Cardinality(fewer) <= Cardinality(holds)
      /\ Cardinality(fewer) \in Nat /\ Cardinality(holds) \in Nat
  BY FS_Subset, FS_CardinalityType DEF Pool
<1> QED BY <1>1, EventLoopAssumption DEF Pool

\* A step gives connections back or takes one that is free.
Exchange ==
    \/ holds' \subseteq holds
    \/ \E t \in Tasks : holds' = holds \cup {t} /\ (t \in holds \/ Free > 0)

LEMMA PoolStays == ASSUME Pool, Exchange PROVE Pool'
<1>1. CASE holds' \subseteq holds
  BY <1>1, FewerFit DEF Pool
<1>2. ASSUME NEW t \in Tasks, holds' = holds \cup {t}, t \in holds \/ Free > 0
      PROVE  Pool'
  BY <1>2, OneMoreFits DEF Pool
<1> QED BY <1>1, <1>2 DEF Exchange

-----------------------------------------------------------------------------
(* Steps.                                                                  *)

\* The tasks' sets do not meet.
LEMMA TasksDiffer ==
    /\ Proxied \subseteq Tasks /\ Sockets \subseteq Proxied /\ Https \subseteq Proxied
    /\ Pages \subseteq Tasks
    /\ \A t \in Pages : t \notin Proxied
    /\ Nobody \notin Tasks
BY EventLoopAssumption DEF Proxied, Tasks

\* What a step of task t may do to phases and connections.
Proceeds(t, phase) ==
    /\ Goto(t, phase)
    /\ holds' \ {t} \subseteq holds
    /\ t \in holds' => phase \notin {"idle", "lookup", "refresh", "ask"}
    /\ \/ blocker = Nobody
       \/ blocker = t
       \/ t \in Pages
    /\ blocker' \in {Nobody, blocker} /\ (blocker = t => blocker' = Nobody)

LEMMA ProceedingKeepsWaiting ==
    ASSUME Typed, Waiting, NEW t \in Tasks, NEW phase \in TaskPhases,
           Proceeds(t, phase), holds' \subseteq Tasks
    PROVE  Waiting' /\ ph' \in [Tasks -> TaskPhases]
                    /\ blocker' \in Proxied \cup {Nobody}
<1>1. /\ ph' \in [Tasks -> TaskPhases] /\ ph'[t] = phase
      /\ \A o \in Tasks \ {t} : ph'[o] = ph[o]
  BY DEF Typed, Proceeds, Goto
<1>2. ConnectionsComeBack'
  BY <1>1 DEF Waiting, ConnectionsComeBack, Proceeds
<1>3. BlockerWaits'
  <2>1. CASE blocker' = Nobody
    BY <2>1 DEF BlockerWaits
  <2>2. CASE blocker' # Nobody
    <3>1. blocker' = blocker /\ blocker # Nobody /\ blocker # t
      BY <2>2 DEF Proceeds
    <3>2. blocker \in Tasks
      BY <3>1, TasksDiffer DEF Typed
    <3> QED BY <1>1, <3>1, <3>2 DEF Waiting, BlockerWaits
  <2> QED BY <2>1, <2>2
<1> QED BY <1>1, <1>2, <1>3 DEF Waiting, Typed, Proceeds

Others(t) ==
    /\ uploading' \subseteq Https
    /\ link' \in [Sockets -> LinkRecords]
    /\ failed' \subseteq Sockets /\ active' \subseteq Sockets
    /\ \A w \in Sockets \ {t} : link'[w] = link[w] /\ (w \in active' <=> w \in active)

Counted == /\ stale' \in 0..MaxStale /\ refused' \in 0..MaxStale
           /\ StaleWereRefused'

State == Typed /\ Waiting /\ AllTidy /\ StaleWereRefused

Preserved == State' /\ Exchange

\* What has to be said of a step of one task.
LEMMA OneTaskMoves ==
    ASSUME State, NEW t \in Tasks, NEW phase \in TaskPhases, Proceeds(t, phase),
           Exchange, Others(t), Counted, t \in Sockets => Tidy(t)'
    PROVE  Preserved
<1>1. holds' \subseteq Tasks
  BY DEF Exchange, State, Typed
<1>2. /\ Waiting' /\ ph' \in [Tasks -> TaskPhases]
      /\ blocker' \in Proxied \cup {Nobody}
  BY <1>1, ProceedingKeepsWaiting DEF State
<1>3. Typed'
  BY <1>1, <1>2 DEF Typed, Others, Counted
<1>4. ASSUME NEW w \in Sockets, w # t PROVE Tidy(w)'
  <2>1. ph'[w] = ph[w]
    BY <1>4, TasksDiffer DEF State, Typed, Proceeds, Goto
  <2>2. link'[w] = link[w] /\ (w \in active' <=> w \in active)
    BY <1>4 DEF Others
  <2> QED BY <2>1, <2>2 DEF State, AllTidy, Tidy, NoPumps
<1>5. AllTidy'
  BY <1>4 DEF AllTidy
<1> QED BY <1>2, <1>3, <1>5 DEF Preserved, State, Counted

\* A task that goes from one place without a link to another.
LEMMA UnlinkedMoves ==
    ASSUME State, NEW t \in Tasks, NEW phase \in TaskPhases, Proceeds(t, phase),
           Exchange, UNCHANGED Ends,
           t \in Sockets => ph[t] \in Unlinking /\ phase \in Unlinking
    PROVE  Preserved
<1>1. Others(t) /\ Counted
  BY DEF Others, Counted, Ends, Relays, State, Typed, StaleWereRefused
<1>2. ph'[t] = phase
  BY DEF State, Typed, Proceeds, Goto
<1>3. t \in Sockets => Tidy(t)'
  BY <1>2 DEF Ends, Relays, State, AllTidy, Tidy, NoPumps, Unlinking, Registered
<1> QED BY <1>1, <1>3, OneTaskMoves

\* A step that moves no task.
LEMMA NobodyMoves ==
    ASSUME State, UNCHANGED <<ph, holds, failed, active, stale, refused>>,
           blocker' \in Proxied \cup {Nobody}, BlockerWaits',
           uploading' \subseteq Https,
           link' \in [Sockets -> LinkRecords],
           \A w \in Sockets : NoPumps(w) => NoPumps(w)',
           \A w \in Sockets : link[w].upstream = "closed" => link'[w].upstream = "closed"
    PROVE  Preserved
<1>1. Typed' /\ Exchange /\ StaleWereRefused'
  BY DEF State, Typed, Exchange, StaleWereRefused
<1>2. Waiting'
  BY DEF State, Waiting, ConnectionsComeBack
<1>3. AllTidy'
  BY DEF State, AllTidy, Tidy
<1> QED BY <1>1, <1>2, <1>3 DEF State, Preserved

-----------------------------------------------------------------------------
(* What both kinds of proxied request do.                                  *)

\* Where a task asks for a connection that the pool does not have, the loop
\* stops there.
LEMMA CheckoutPreserves ==
    ASSUME State, NEW t \in Proxied, LoopRuns, ph[t] \in Checkouts,
           NEW phase \in {"authorize", "decide", "exit"}, NEW kept,
           kept \subseteq holds \/ kept = holds \cup {t},
           Checkout(t, phase, kept), UNCHANGED Ends
    PROVE  Preserved
<1> USE TasksDiffer
<1>1. CASE t \in holds \/ Free > 0
  <2>1. holds' = kept /\ Goto(t, phase) /\ UNCHANGED blocker
    BY <1>1 DEF Checkout
  <2>2. Exchange
    BY <1>1, <2>1 DEF Exchange
  <2>3. Proceeds(t, phase)
    BY <2>1 DEF Proceeds, LoopRuns
  <2> QED BY <2>2, <2>3, UnlinkedMoves DEF TaskPhases, Unlinking, Checkouts
<1>2. CASE ~(t \in holds \/ Free > 0)
  <2>1. blocker' = t /\ UNCHANGED <<holds, ph>>
    BY <1>2 DEF Checkout
  <2> QED BY <2>1, NobodyMoves DEF Ends, Relays, BlockerWaits, NoPumps, State, Typed
<1> QED BY <1>1, <1>2

LEMMA WaitingEnds ==
    ASSUME State, NEW t \in Proxied, Granted(t) \/ CheckoutTimesOut(t)
    PROVE  Preserved
<1> USE TasksDiffer
<1>1. blocker = t /\ blocker' = Nobody /\ UNCHANGED Ends
  BY DEF Granted, CheckoutTimesOut
<1>2. ph[t] \in Unlinking
  BY <1>1 DEF State, Waiting, BlockerWaits, Checkouts, Unlinking
<1>3. \E phase \in {"authorize", "decide", "exit"} :
        /\ Goto(t, phase)
        /\ \/ Free > 0 /\ holds' = holds \cup {t}
           \/ UNCHANGED holds
  BY DEF Granted, CheckoutTimesOut
<1>4. Exchange
  BY <1>3 DEF Exchange
<1>5. \E phase \in {"authorize", "decide", "exit"} : Proceeds(t, phase)
  BY <1>1, <1>3 DEF Proceeds
<1> QED BY <1>1, <1>2, <1>4, <1>5, UnlinkedMoves DEF TaskPhases, Unlinking

LEMMA RequestPreserves ==
    ASSUME State, NEW t \in Proxied,
           \/ Arrive(t) \/ Lookup(t) \/ Authorize(t) \/ Refresh(t) \/ Decide(t)
           \/ Record(t) \/ Exit(t) \/ AfterForwarding(t)
    PROVE  Preserved
<1> USE TasksDiffer
<1>0. Unlinked \in LinkRecords /\ [Unlinked EXCEPT !.browser = "asking"] \in LinkRecords
  BY DEF Unlinked, LinkRecords, Pumps
<1>1. CASE Arrive(t)
  <2>1. Proceeds(t, "lookup") /\ Exchange /\ Counted
    BY <1>1 DEF Arrive, Proceeds, Exchange, Counted, LoopRuns, At, State, Typed,
                Waiting, ConnectionsComeBack, StaleWereRefused
  <2>2. Others(t)
    BY <1>0, <1>1 DEF Arrive, Others, State, Typed
  <2>3. t \in Sockets => Tidy(t)'
    BY <1>1 DEF Arrive, Goto, At, State, Typed, AllTidy, Tidy, NoPumps, Unlinked,
                Unlinking, Registered
  <2> QED BY <2>1, <2>2, <2>3, OneTaskMoves DEF TaskPhases
<1>2. CASE Lookup(t)
  <2>1. CASE Goto(t, "exit") /\ UNCHANGED <<holds, blocker>>
    BY <1>2, <2>1, UnlinkedMoves
       DEF Lookup, Proceeds, LoopRuns, Exchange, At, TaskPhases, Unlinking
  <2> QED BY <1>2, <2>1, CheckoutPreserves DEF Lookup, At, Checkouts
<1>3. CASE Authorize(t)
  <2>1. \E phase \in {"exit", "audit", "refresh"} : Proceeds(t, phase)
    BY <1>3 DEF Authorize, Proceeds, LoopRuns, Committed
  <2>2. Exchange
    BY <1>3 DEF Authorize, Exchange, Committed
  <2> QED BY <1>3, <2>1, <2>2, UnlinkedMoves DEF Authorize, At, TaskPhases, Unlinking
<1>4. CASE Record(t)
  BY <1>4, CheckoutPreserves DEF Record, At, Committed, Checkouts
<1>5. CASE Exit(t)
  <2>1. Proceeds(t, "idle") /\ Exchange /\ Counted
    BY <1>5 DEF Exit, Proceeds, Exchange, Counted, LoopRuns, ClosedSession, State,
                Typed, StaleWereRefused
  <2>2. Others(t)
    BY <1>0, <1>5 DEF Exit, Others, State, Typed
  <2>3. t \in Sockets => Tidy(t)'
    BY <1>5 DEF Exit, Goto, At, State, Typed, AllTidy, Tidy, NoPumps, Unlinked,
                Unlinking, Registered
  <2> QED BY <2>1, <2>2, <2>3, OneTaskMoves DEF TaskPhases
<1>6. CASE AfterForwarding(t)
  <2>1. Proceeds(t, "exit") \/ Proceeds(t, "audit")
    BY <1>6 DEF AfterForwarding, Proceeds, LoopRuns
  <2>2. Exchange
    BY <1>6 DEF AfterForwarding, Exchange
  <2> QED BY <1>6, <2>1, <2>2, UnlinkedMoves
             DEF AfterForwarding, At, TaskPhases, Unlinking
<1>7. CASE Refresh(t)
  BY <1>7, CheckoutPreserves DEF Refresh, At, Checkouts
<1>8. CASE Decide(t)
  <2>1. \E phase \in {"exit", "audit", "upstream"} : Proceeds(t, phase)
    BY <1>8 DEF Decide, Proceeds, LoopRuns, Committed
  <2>2. Exchange
    BY <1>8 DEF Decide, Exchange, Committed
  <2> QED BY <1>8, <2>1, <2>2, UnlinkedMoves DEF Decide, At, TaskPhases, Unlinking
<1> QED BY <1>1, <1>2, <1>3, <1>4, <1>5, <1>6, <1>7, <1>8

LEMMA PagePreserves ==
    ASSUME State, NEW t \in Pages,
           Dispatch(t) \/ Ask(t) \/ Work(t) \/ CloseSession(t)
    PROVE  Preserved
<1>0. t \in Tasks /\ t \notin Sockets /\ t # blocker
  BY TasksDiffer DEF State, Typed
<1>1. UNCHANGED Ends /\ UNCHANGED blocker
  BY DEF Dispatch, Ask, Work, CloseSession
<1>2. Exchange
  BY <1>0 DEF Dispatch, Ask, Work, CloseSession, Exchange, Committed, ClosedSession
<1>3. \E phase \in TaskPhases : Proceeds(t, phase)
  <2>1. CASE Dispatch(t)
    BY <1>0, <2>1 DEF Dispatch, Proceeds, At, State, Waiting, ConnectionsComeBack,
                      TaskPhases
  <2>2. CASE Ask(t)
    BY <1>0, <2>2 DEF Ask, Proceeds, TaskPhases
  <2>3. CASE Work(t)
    BY <1>0, <2>3 DEF Work, Proceeds, Committed, TaskPhases
  <2>4. CASE CloseSession(t)
    BY <1>0, <2>4 DEF CloseSession, Proceeds, ClosedSession, TaskPhases
  <2> QED BY <2>1, <2>2, <2>3, <2>4
<1> QED BY <1>0, <1>1, <1>2, <1>3, UnlinkedMoves

-----------------------------------------------------------------------------
(* Relays.                                                                 *)

\* The task of a relay goes on with the connection it has.
LEMMA RelayMoves ==
    ASSUME State, NEW w \in Sockets, NEW phase \in TaskPhases \ {"idle", "lookup", "refresh", "ask"},
           LoopRuns, Goto(w, phase), UNCHANGED <<holds, blocker>>,
           Others(w), Counted, Tidy(w)'
    PROVE  Preserved
<1>1. Proceeds(w, phase)
  BY DEF Proceeds, LoopRuns
<1>2. Exchange
  BY DEF Exchange
<1> QED BY <1>1, <1>2, OneTaskMoves, TasksDiffer

LEMMA HandshakePreserves ==
    ASSUME State, NEW w \in Sockets,
           ConnectFails(w) \/ Connects(w) \/ AcceptFails(w) \/ Accepts(w)
    PROVE  Preserved
<1>0. /\ w \in Tasks
      /\ w \in active <=> ph[w] \in Registered
      /\ ph[w] \in {"upstream", "accept"} => NoPumps(w)
      /\ ph[w] = "upstream" => link[w].upstream = "closed"
  BY TasksDiffer DEF State, AllTidy, Tidy, Unlinking
<1>1. CASE ConnectFails(w)
  <2>1. Others(w) /\ Counted
    BY <1>1 DEF ConnectFails, Fails, Others, Counted, State, Typed, StaleWereRefused
  <2>2. Tidy(w)'
    BY <1>0, <1>1 DEF ConnectFails, Goto, At, State, Typed, Tidy, NoPumps, Unlinking,
                      Registered
  <2> QED BY <1>1, <2>1, <2>2, RelayMoves DEF ConnectFails, TaskPhases
<1>2. CASE Connects(w)
  <2>1. Others(w) /\ Counted
    BY <1>2 DEF Connects, Links, Others, Counted, LinkRecords, State, Typed,
                StaleWereRefused
  <2>2. Tidy(w)'
    BY <1>0, <1>2 DEF Connects, Links, LinkRecords, Goto, At, State, Typed, Tidy,
                      NoPumps, Unlinking, Registered
  <2> QED BY <1>2, <2>1, <2>2, RelayMoves DEF Connects, TaskPhases
<1>3. CASE AcceptFails(w)
  <2>1. Others(w)
    BY <1>3 DEF AcceptFails, Fails, Others, State, Typed
  <2>2. Counted
    BY <1>3, EventLoopAssumption DEF AcceptFails, Capped, Counted, State, Typed,
                                     StaleWereRefused
  <2>3. Tidy(w)'
    BY <1>0, <1>3 DEF AcceptFails, Goto, At, State, Typed, Tidy, NoPumps, Unlinking,
                      Registered
  <2> QED BY <1>3, <2>1, <2>2, <2>3, RelayMoves DEF AcceptFails, TaskPhases
<1>4. CASE Accepts(w)
  <2>1. Others(w) /\ Counted
    BY <1>4 DEF Accepts, Links, Others, Counted, LinkRecords, Pumps, State, Typed,
                StaleWereRefused
  <2>2. Tidy(w)'
    BY <1>0, <1>4 DEF Accepts, Goto, At, State, Typed, Tidy, Unlinking, Registered
  <2> QED BY <1>4, <2>1, <2>2, RelayMoves DEF Accepts, TaskPhases
<1> QED BY <1>1, <1>2, <1>3, <1>4

\* From the first pump that ends, or the end of the lifetime, to the upstream.
LEMMA WindingUpPreserves ==
    ASSUME State, NEW w \in Sockets,
           \/ FirstCompleted(w) \/ LifetimeEnds(w) \/ CloseUpstream(w)
           \/ CloseBrowser(w) \/ CleanUp(w) \/ Leave(w)
    PROVE  Preserved
<1>0. /\ w \in Tasks /\ link[w] \in LinkRecords
      /\ w \in active <=> ph[w] \in Registered
      /\ ph[w] = "leave" => NoPumps(w)
      /\ Cancelled(link[w].up) \in Pumps /\ Cancelled(link[w].down) \in Pumps
      /\ Cancelled(link[w].up) # "running" /\ Cancelled(link[w].down) # "running"
  BY TasksDiffer DEF State, Typed, AllTidy, Tidy, Cancelled, LinkRecords, Pumps
<1>1. Counted
  BY DEF FirstCompleted, LifetimeEnds, CloseUpstream, CloseBrowser, CleanUp, Leave,
         Ends, Relays, Counted, State, Typed, StaleWereRefused
<1>2. CASE FirstCompleted(w)
  <2>1. Others(w)
    <3>1. /\ failed' \subseteq Sockets /\ UNCHANGED <<active, uploading>>
          /\ \/ UNCHANGED link
             \/ Links(w, [link[w] EXCEPT !.up = Cancelled(@), !.down = Cancelled(@)])
      BY <1>2 DEF FirstCompleted, Fails, State, Typed
    <3>2. [link[w] EXCEPT !.up = Cancelled(@), !.down = Cancelled(@)] \in LinkRecords
      BY <1>0 DEF LinkRecords
    <3> QED BY <3>1, <3>2 DEF Links, Others, State, Typed
  <2>2. Tidy(w)'
    BY <1>0, <1>2 DEF FirstCompleted, Goto, At, State, Typed, Tidy, Unlinking,
                      Registered
  <2> QED BY <1>1, <1>2, <2>1, <2>2, RelayMoves DEF FirstCompleted, TaskPhases
<1>3. CASE LifetimeEnds(w)
  <2>1. Others(w)
    BY <1>3 DEF LifetimeEnds, Ends, Relays, Others, State, Typed
  <2>2. Tidy(w)'
    BY <1>0, <1>3 DEF LifetimeEnds, Timed, Ends, Relays, Goto, At, State, Typed, Tidy,
                      Unlinking, Registered
  <2> QED BY <1>1, <1>3, <2>1, <2>2, RelayMoves DEF LifetimeEnds, TaskPhases
<1>4. CASE CloseUpstream(w)
  <2>1. Others(w)
    BY <1>4 DEF CloseUpstream, Links, Others, LinkRecords, State, Typed
  <2>2. Tidy(w)'
    BY <1>0, <1>4 DEF CloseUpstream, Goto, At, State, Typed, Tidy, Unlinking,
                      Registered
  <2> QED BY <1>1, <1>4, <2>1, <2>2, RelayMoves DEF CloseUpstream, TaskPhases
<1>5. CASE CloseBrowser(w)
  <2>1. Others(w)
    BY <1>5 DEF CloseBrowser, Links, Fails, Others, LinkRecords, State, Typed
  <2>2. Tidy(w)'
    BY <1>0, <1>5 DEF CloseBrowser, Goto, At, State, Typed, Tidy, Unlinking,
                      Registered
  <2> QED BY <1>1, <1>5, <2>1, <2>2, RelayMoves DEF CloseBrowser, TaskPhases
<1>6. CASE CleanUp(w)
  <2>1. Others(w)
    BY <1>0, <1>6 DEF CleanUp, Discarded, Links, Others, LinkRecords, State, Typed
  <2>2. Tidy(w)'
    BY <1>0, <1>6 DEF CleanUp, Discarded, Links, Goto, LinkRecords, State, Typed, Tidy,
                      NoPumps, Unlinking, Registered
  <2> QED BY <1>1, <1>6, <2>1, <2>2, RelayMoves DEF CleanUp, TaskPhases
<1>7. CASE Leave(w)
  <2>1. Others(w)
    BY <1>7 DEF Leave, Links, Others, LinkRecords, State, Typed
  <2>2. Tidy(w)'
    BY <1>0, <1>7 DEF Leave, Links, Goto, At, LinkRecords, State, Typed, Tidy,
                      NoPumps, Unlinking, Registered
  <2> QED BY <1>1, <1>7, <2>1, <2>2, RelayMoves DEF Leave, TaskPhases
<1> QED BY <1>2, <1>3, <1>4, <1>5, <1>6, <1>7

\* What happens to the two ends of a relay, and to its pumps.
LEMMA EndsPreserve ==
    ASSUME State, NEW w \in Sockets,
           UpPumpEnds(w) \/ DownPumpEnds(w) \/ BrowserLeaves(w) \/ UpstreamCloses(w)
    PROVE  Preserved
<1>1. UNCHANGED <<ph, holds, blocker, uploading, failed, active, stale, refused>>
  BY DEF UpPumpEnds, DownPumpEnds, BrowserLeaves, UpstreamCloses
<1>2. link' \in [Sockets -> LinkRecords]
  BY DEF UpPumpEnds, DownPumpEnds, BrowserLeaves, UpstreamCloses, Links, LinkRecords,
         Pumps, State, Typed
<1>3. \A v \in Sockets : /\ NoPumps(v) => NoPumps(v)'
                         /\ link[v].upstream = "closed" => link'[v].upstream = "closed"
  BY DEF UpPumpEnds, DownPumpEnds, BrowserLeaves, UpstreamCloses, Links, LinkRecords,
         NoPumps, State, Typed
<1> QED BY <1>1, <1>2, <1>3, NobodyMoves DEF State, Waiting, BlockerWaits, Typed

LEMMA UploadEndsPreserves ==
    ASSUME State, NEW t \in Https, UploadEnds(t) PROVE Preserved
BY NobodyMoves DEF UploadEnds, Relays, State, Waiting, BlockerWaits, Typed, NoPumps

LEMMA ShutdownPreserves == ASSUME State, Shutdown PROVE Preserved
<1>1. Typed' /\ Exchange /\ Waiting' /\ StaleWereRefused'
  BY EventLoopAssumption DEF Shutdown, State, Typed, Exchange, Waiting,
     ConnectionsComeBack, BlockerWaits, StaleWereRefused
<1>2. AllTidy'
  BY TasksDiffer DEF Shutdown, At, State, AllTidy, Tidy, NoPumps, Registered
<1> QED BY <1>1, <1>2 DEF State, Preserved

-----------------------------------------------------------------------------
(* The theorems.                                                           *)

LEMMA Initially == Init => IInv
<1> SUFFICES ASSUME Init PROVE IInv
  OBVIOUS
<1>1. Typed
  BY EventLoopAssumption, TasksDiffer
     DEF Init, Typed, TaskPhases, Unlinked, LinkRecords, Pumps
<1>2. Pool
  BY FS_EmptySet, EventLoopAssumption DEF Init, Pool
<1>3. Waiting /\ StaleWereRefused
  BY DEF Init, Waiting, ConnectionsComeBack, BlockerWaits, StaleWereRefused
<1>4. AllTidy
  BY TasksDiffer DEF Init, AllTidy, Tidy, NoPumps, Unlinked, Registered
<1> QED BY <1>1, <1>2, <1>3, <1>4 DEF IInv

LEMMA EveryStepPreserves == ASSUME State, Next PROVE Preserved
<1>1. ASSUME NEW t \in Proxied, Arrive(t) \/ Granted(t) \/ CheckoutTimesOut(t)
      PROVE  Preserved
  BY <1>1, RequestPreserves, WaitingEnds
<1>2. ASSUME NEW t \in Tasks, LoopStep(t) PROVE Preserved
  <2>1. CASE t \in Proxied /\ (Lookup(t) \/ Authorize(t) \/ Refresh(t) \/ Decide(t)
                                 \/ Record(t) \/ Exit(t))
    BY <2>1, RequestPreserves
  <2>2. CASE Forwarded(t)
    BY <2>2, TasksDiffer, RequestPreserves DEF Forwarded, AfterForwarding
  <2>3. CASE t \in Sockets /\ (ConnectFails(t) \/ Connects(t) \/ AcceptFails(t)
                                 \/ Accepts(t))
    BY <2>3, HandshakePreserves
  <2>4. CASE t \in Sockets /\ (FirstCompleted(t) \/ LifetimeEnds(t) \/ CloseUpstream(t)
                                 \/ CloseBrowser(t) \/ CleanUp(t) \/ Leave(t))
    BY <2>4, WindingUpPreserves
  <2>5. CASE CloseSession(t)
    BY <2>5, PagePreserves DEF CloseSession
  <2> QED BY <1>2, <2>1, <2>2, <2>3, <2>4, <2>5 DEF LoopStep
<1>3. ASSUME NEW t \in Pages, Dispatch(t) \/ Ask(t) \/ Work(t) PROVE Preserved
  BY <1>3, PagePreserves
<1>4. ASSUME NEW t \in Https, ForwardedEarly(t) PROVE Preserved
  BY <1>4, TasksDiffer, RequestPreserves DEF ForwardedEarly
<1> QED BY <1>1, <1>2, <1>3, <1>4, EndsPreserve, UploadEndsPreserves,
           ShutdownPreserves DEF Next

\* The inductive invariant: the pool is not exceeded, whoever stops the loop
\* is at a checkout, and each relay has its pumps, its upstream and its entry
\* in the registry exactly where its program has opened and not yet closed them.
THEOREM Invariance == Spec => []IInv
<1>1. IInv /\ [Next]_vars => IInv'
  <2> SUFFICES ASSUME IInv, [Next]_vars PROVE IInv'
    OBVIOUS
  <2>1. CASE Next
    <3>1. Preserved
      BY <2>1, EveryStepPreserves DEF IInv, State
    <3> QED BY <3>1, PoolStays DEF IInv, State, Preserved
  <2>2. CASE UNCHANGED vars
    BY <2>2 DEF vars, IInv, Typed, Pool, Waiting, ConnectionsComeBack, BlockerWaits,
                AllTidy, Tidy, NoPumps, StaleWereRefused
  <2> QED BY <2>1, <2>2
<1> QED BY <1>1, Initially, PTL DEF Spec

\* For any number of requests and any pool: no more connections are out than
\* the pool has, and the loop is stopped by a proxied request or by nobody.
THEOREM TypeCorrect == Spec => []TypeOK
<1>1. IInv => TypeOK
  BY DEF IInv, Typed, Pool, TypeOK
<1> QED BY <1>1, Invariance, PTL

\* Every path through a handler or a page gives its connection back, the ones
\* on which a checkout times out included.
THEOREM ConnectionsReturn == Spec => []ConnectionsComeBack
<1>1. IInv => ConnectionsComeBack
  BY DEF IInv, Waiting
<1> QED BY <1>1, Invariance, PTL

\* relay_websocket leaves no pump and no upstream behind, however it ends.
THEOREM RelaysEndClean == Spec => []NothingOutlivesItsRelay
<1>1. IInv => NothingOutlivesItsRelay
  BY DEF IInv, AllTidy, Tidy, NoPumps, Unlinking, NothingOutlivesItsRelay
<1> QED BY <1>1, Invariance, PTL

\* _active_connections has every relay whose pumps run, and no relay that is
\* over, but for handshakes that failed at accept.
THEOREM RegistryIsExact == Spec => []RegistryFollowsRelays
<1>1. IInv => RegistryFollowsRelays
  <2> SUFFICES ASSUME IInv PROVE RegistryFollowsRelays
    OBVIOUS
  <2>1. ASSUME NEW w \in Sockets, link[w].up = "running" PROVE w \in active
    <3>1. ph[w] \in {"relay", "expire", "hang_up", "finally"}
      BY <2>1 DEF IInv, AllTidy, Tidy, NoPumps
    <3> QED BY <3>1 DEF IInv, AllTidy, Tidy, Registered
  <2>2. \A w \in active :
          ph[w] \in {"accept", "relay", "expire", "hang_up", "finally"}
    BY DEF IInv, Typed, AllTidy, Tidy, Registered
  <2> QED BY <2>1, <2>2 DEF IInv, RegistryFollowsRelays, StaleWereRefused
<1> QED BY <1>1, Invariance, PTL
=============================================================================

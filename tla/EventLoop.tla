------------------------------ MODULE EventLoop ------------------------------
(***************************************************************************)
(* Requests that share the event loop and the pool of database             *)
(* connections.  A proxied HTTP request and a WebSocket relay are tasks of *)
(* the loop; each keeps its connection while it awaits the upstream, and   *)
(* its checkout is a plain call that stops the whole loop while the pool   *)
(* is empty.  The pages of the portal run in threads, but the loop starts  *)
(* them and closes their sessions.                                         *)
(***************************************************************************)
EXTENDS Naturals, FiniteSets

CONSTANTS
    Https,      \* slots of handle_proxy_http
    Sockets,    \* slots of handle_proxy_websocket
    Pages,      \* slots of the thread pool
    Nobody,     \* nobody stops the loop
    Size,       \* connections: pool_size and max_overflow
    MaxStale    \* bound: counts failed handshakes no further

ASSUME EventLoopAssumption ==
    /\ Https \cap Sockets = {} /\ Pages \cap (Https \cup Sockets) = {}
    /\ Nobody \notin Https \cup Sockets \cup Pages
    /\ Size \in Nat \ {0} /\ MaxStale \in Nat

Proxied == Https \cup Sockets

Tasks == Proxied \cup Pages

VARIABLES
    ph,         \* where each task is
    holds,      \* the tasks that have a connection checked out
    blocker,    \* the task whose checkout stops the loop
    link,       \* the two sides of each relay, and its two pumps
    failed,     \* relays that end in an exception
    uploading,  \* requests whose browser has not sent all of the body
    active,     \* _active_connections: those of present relays
    stale,      \* ... and those of relays that are over
    refused     \* history: handshakes that failed at accept

vars == <<ph, holds, blocker, uploading, link, failed, active, stale, refused>>

Pumps == {"none", "running", "returned", "closed", "raised", "cancelled"}

Unlinked ==
    [browser |-> "closed", upstream |-> "closed", down |-> "none", up |-> "none"]

LinkRecords ==
    [browser : {"asking", "open", "gone", "closed"},
     upstream : {"open", "closed"},
     down : Pumps,          \* _upstream_to_browser
     up : Pumps]            \* _browser_to_upstream

TaskPhases ==
    {"idle", "lookup", "authorize", "refresh", "decide", "upstream", "audit", "exit",
     "accept", "relay", "expire", "hang_up", "finally", "leave",
     "ask", "work", "close"}

TypeOK ==
    /\ ph \in [Tasks -> TaskPhases]
    /\ holds \subseteq Tasks /\ Cardinality(holds) <= Size
    /\ blocker \in Proxied \cup {Nobody}
    /\ uploading \subseteq Https
    /\ link \in [Sockets -> LinkRecords]
    /\ failed \subseteq Sockets /\ active \subseteq Sockets
    /\ stale \in 0..MaxStale /\ refused \in 0..MaxStale

Init ==
    /\ ph = [t \in Tasks |-> "idle"]
    /\ holds = {} /\ blocker = Nobody /\ uploading = {}
    /\ link = [w \in Sockets |-> Unlinked]
    /\ failed = {} /\ active = {} /\ stale = 0 /\ refused = 0

At(t, phase) == ph[t] = phase

Goto(t, phase) == ph' = [ph EXCEPT ![t] = phase]

LoopRuns == blocker = Nobody

OneMore == Size + 1 - Cardinality(holds)

\* What the pool has left.
Free == Size - Cardinality(holds)

Relays == <<link, failed, active, stale, refused>>

\* What a request and its ends have besides its place and its connection.
Ends == <<uploading, Relays>>

-----------------------------------------------------------------------------
(* Connections.                                                            *)

\* A statement needs a connection; where there is none, the loop stops.
Checkout(t, phase, kept) ==
    IF t \in holds \/ Free > 0
    THEN holds' = kept /\ Goto(t, phase) /\ UNCHANGED blocker
    ELSE blocker' = t /\ UNCHANGED <<holds, ph>>

\* The pool waits in the thread of the loop; somebody gives one back ...
Granted(t) ==
    /\ blocker = t /\ Free > 0
    /\ blocker' = Nobody
    /\ \/ At(t, "lookup") /\ Goto(t, "authorize") /\ holds' = holds \cup {t}
       \/ At(t, "refresh") /\ Goto(t, "decide") /\ holds' = holds \cup {t}
       \/ At(t, "audit") /\ Goto(t, "exit") /\ UNCHANGED holds
    /\ UNCHANGED Ends

\* ... or, after pool_timeout, the checkout raises, and the request fails.
CheckoutTimesOut(t) ==
    /\ blocker = t
    /\ blocker' = Nobody
    /\ Goto(t, "exit")
    /\ UNCHANGED <<holds, Ends>>

\* A commit gives the connection back.
Committed(t) == holds \ {t}

\* So does the end of "with session_factory() as db", on every path.
KeptBySockets(t) == IF t \in Sockets THEN holds ELSE holds \ {t}

ClosedSession(t) == holds \ {t}

-----------------------------------------------------------------------------
(* What handle_proxy_http and handle_proxy_websocket have in common.       *)

Arrive(t) ==
    /\ LoopRuns /\ At(t, "idle")
    /\ Goto(t, "lookup")
    /\ uploading' \in {uploading, uploading \cup ({t} \cap Https)}
    /\ link' = IF t \in Sockets
               THEN [link EXCEPT ![t] = [Unlinked EXCEPT !.browser = "asking"]]
               ELSE link
    /\ UNCHANGED <<holds, blocker, failed, active, stale, refused>>

\* A host that is no service's name is not looked up.
Lookup(t) ==
    /\ LoopRuns /\ At(t, "lookup")
    /\ \/ Checkout(t, "authorize", holds \cup {t})
       \/ Goto(t, "exit") /\ UNCHANGED <<holds, blocker>>
    /\ UNCHANGED Ends

\* No such service or a reserved path; or not for sockets, no valid credential
\* or ticket, no live session; or validate_session writes last_seen_at, and its
\* commit gives the connection back.
Authorize(t) ==
    /\ LoopRuns /\ At(t, "authorize")
    /\ \/ Goto(t, "exit") /\ UNCHANGED holds
       \/ Goto(t, "audit") /\ UNCHANGED holds
       \/ Goto(t, "refresh") /\ holds' = Committed(t)
    /\ UNCHANGED <<blocker, Ends>>

\* db.refresh(service) asks for one again.
Refresh(t) ==
    /\ LoopRuns /\ At(t, "refresh")
    /\ Checkout(t, "decide", holds \cup {t})
    /\ UNCHANGED Ends

\* The service is off or not entered; the ticket is consumed (a commit) or was
\* (a rollback); the write of either fails; or the way to the upstream.
Decide(t) ==
    /\ LoopRuns /\ At(t, "decide")
    /\ \/ Goto(t, "audit") /\ holds' \in {holds, Committed(t)}
       \/ Goto(t, "exit") /\ UNCHANGED holds
       \/ Goto(t, "upstream") /\ UNCHANGED holds
    /\ UNCHANGED <<blocker, Ends>>

\* record_event: a statement and a commit.
Record(t) ==
    /\ LoopRuns /\ At(t, "audit")
    /\ Checkout(t, "exit", Committed(t))
    /\ UNCHANGED Ends

\* The handler returns; what is left of the browser's socket, the server
\* closes.  (The body of a response is streamed after this.)
Exit(t) ==
    /\ LoopRuns /\ At(t, "exit")
    /\ holds' = ClosedSession(t)
    /\ failed' = failed \ {t} /\ uploading' = uploading \ {t}
    /\ link' = IF t \in Sockets THEN [link EXCEPT ![t] = Unlinked] ELSE link
    /\ Goto(t, "idle")
    /\ UNCHANGED <<blocker, active, stale, refused>>

\* forward_http returns or raises.
AfterForwarding(t) ==
    /\ LoopRuns /\ t \in Https /\ At(t, "upstream")
    /\ Goto(t, "exit") \/ Goto(t, "audit")
    /\ UNCHANGED <<holds, blocker, Ends>>

\* The answer is read when limited_request_stream has come to its end: the
\* upstream answers, fails or times out, or the browser left (ClientDisconnect).
Forwarded(t) == t \notin uploading /\ AfterForwarding(t)

\* An unsafe destination, no connection, a body that is too large, a write that
\* times out: that may happen before, and need not.
ForwardedEarly(t) == t \in uploading /\ AfterForwarding(t)

\* The browser sends the rest, or leaves: nothing limits the time it takes.
UploadEnds(t) ==
    /\ t \in uploading
    /\ uploading' = uploading \ {t}
    /\ UNCHANGED <<ph, holds, blocker, Relays>>

-----------------------------------------------------------------------------
(* relay_websocket.                                                        *)

Links(w, rec) == link' = [link EXCEPT ![w] = rec]

\* An exception that relay_websocket turns into ProxyWebSocketError.
Fails(w) == failed' = failed \cup {w}

ConnectFails(w) ==
    /\ LoopRuns /\ w \in Sockets /\ At(w, "upstream")
    /\ Goto(w, "audit") /\ Fails(w)
    /\ UNCHANGED <<holds, blocker, link, active, stale, refused, uploading>>

\* connect(), and the connection goes into the registry.
Connects(w) ==
    /\ LoopRuns /\ w \in Sockets /\ At(w, "upstream")
    /\ Goto(w, "accept")
    /\ Links(w, [link[w] EXCEPT !.upstream = "open"])
    /\ active' = active \cup {w}
    /\ UNCHANGED <<holds, blocker, failed, stale, refused, uploading>>

Capped(n) == IF n > MaxStale THEN MaxStale ELSE n

\* The browser has left during the handshake: what stays in the registry
\* then is never taken out.
AcceptFails(w) ==
    /\ LoopRuns /\ At(w, "accept") /\ link[w].browser = "gone"
    /\ refused' = Capped(refused + 1) /\ stale' = Capped(stale + 1)
    /\ active' = active \ {w}
    /\ Goto(w, "leave") /\ Fails(w)
    /\ UNCHANGED <<holds, blocker, link, uploading>>

Accepts(w) ==
    /\ LoopRuns /\ At(w, "accept") /\ link[w].browser = "asking"
    /\ Goto(w, "relay")
    /\ Links(w, [link[w] EXCEPT !.browser = "open",
                                !.down = "running", !.up = "running"])
    /\ UNCHANGED <<holds, blocker, failed, active, stale, refused, uploading>>

\* The browser's frames: it disconnects, or a frame meets a closed upstream.
UpPumpEnds(w) ==
    LET l == link[w] IN
    /\ LoopRuns /\ l.up = "running"
    /\ \/ l.browser = "gone" /\ Links(w, [l EXCEPT !.up = "returned"])
       \/ l.upstream = "closed" /\ Links(w, [l EXCEPT !.up = "closed"])
    /\ UNCHANGED <<ph, holds, blocker, failed, active, stale, refused, uploading>>

\* The upstream's frames: it closes, or a frame meets a browser that left.
DownPumpEnds(w) ==
    LET l == link[w] IN
    /\ LoopRuns /\ l.down = "running"
    /\ \/ l.upstream = "closed"
          /\ Links(w, [l EXCEPT !.down = "returned"])
       \/ l.browser \in {"gone", "closed"}
          /\ Links(w, [l EXCEPT !.down = "raised"])
    /\ UNCHANGED <<ph, holds, blocker, failed, active, stale, refused, uploading>>

LeftRunning(pump) == pump

Cancelled(pump) == IF pump = "running" THEN "cancelled" ELSE pump

\* asyncio.wait returns with the first pump that ended: its exception goes
\* on, unless it is that of a closed upstream; otherwise the other pump is
\* cancelled and awaited.
FirstCompleted(w) ==
    LET l == link[w] IN
    /\ LoopRuns /\ At(w, "relay")
    /\ l.up # "running" \/ l.down # "running"
    /\ IF l.down = "raised"
       THEN Goto(w, "finally") /\ Fails(w) /\ UNCHANGED link
       ELSE /\ Goto(w, "finally") /\ UNCHANGED failed
            /\ Links(w, [l EXCEPT !.up = Cancelled(@), !.down = Cancelled(@)])
    /\ UNCHANGED <<holds, blocker, active, stale, refused, uploading>>

NeverTimed(w) == FALSE

\* asyncio.timeout(lifetime) is around the wait for the pumps.
Timed(w) == At(w, "relay")

LifetimeEnds(w) ==
    /\ LoopRuns /\ Timed(w)
    /\ Goto(w, "expire")
    /\ UNCHANGED <<holds, blocker, Ends>>

\* upstream.close(), while the pumps go on ...
CloseUpstream(w) ==
    /\ LoopRuns /\ At(w, "expire")
    /\ Links(w, [link[w] EXCEPT !.upstream = "closed"])
    /\ Goto(w, "hang_up")
    /\ UNCHANGED <<holds, blocker, failed, active, stale, refused, uploading>>

\* ... and browser.close(), which raises when the browser has left.
CloseBrowser(w) ==
    /\ LoopRuns /\ At(w, "hang_up")
    /\ IF link[w].browser = "open"
       THEN Links(w, [link[w] EXCEPT !.browser = "closed"]) /\ UNCHANGED failed
       ELSE Fails(w) /\ UNCHANGED link
    /\ Goto(w, "finally")
    /\ UNCHANGED <<holds, blocker, active, stale, refused, uploading>>

Kept(w) == IF w \in failed THEN active ELSE active \ {w}

Discarded(w) == active \ {w}

\* finally: both pumps are cancelled and awaited, then the registry.
CleanUp(w) ==
    /\ LoopRuns /\ At(w, "finally")
    /\ Links(w, [link[w] EXCEPT !.up = Cancelled(@), !.down = Cancelled(@)])
    /\ active' = Discarded(w)
    /\ Goto(w, "leave")
    /\ UNCHANGED <<holds, blocker, failed, stale, refused, uploading>>

\* "async with connect" closes the upstream; a failure is recorded.
Leave(w) ==
    /\ LoopRuns /\ At(w, "leave")
    /\ Links(w, [link[w] EXCEPT !.upstream = "closed"])
    /\ Goto(w, IF w \in failed THEN "audit" ELSE "exit")
    /\ UNCHANGED <<holds, blocker, failed, active, stale, refused, uploading>>

\* The two ends of a relay, at any time.
BrowserLeaves(w) ==
    /\ link[w].browser \in {"asking", "open"}
    /\ Links(w, [link[w] EXCEPT !.browser = "gone"])
    /\ UNCHANGED <<ph, holds, blocker, failed, active, stale, refused, uploading>>

UpstreamCloses(w) ==
    /\ link[w].upstream = "open"
    /\ Links(w, [link[w] EXCEPT !.upstream = "closed"])
    /\ UNCHANGED <<ph, holds, blocker, failed, active, stale, refused, uploading>>

-----------------------------------------------------------------------------
(* Pages of the portal, and the end of the server.                         *)

\* The loop hands a page to a thread ...
Dispatch(t) ==
    /\ LoopRuns /\ t \in Pages /\ At(t, "idle")
    /\ Goto(t, "ask")
    /\ UNCHANGED <<holds, blocker, Ends>>

\* ... which waits for a connection on its own, and may give up.
Ask(t) ==
    /\ t \in Pages /\ At(t, "ask")
    /\ \/ Free > 0 /\ holds' = holds \cup {t} /\ Goto(t, "work")
       \/ Free = 0 /\ UNCHANGED holds /\ Goto(t, "close")
    /\ UNCHANGED <<blocker, Ends>>

\* A page that wrote has committed; one that only read keeps the connection.
Work(t) ==
    /\ t \in Pages /\ At(t, "work")
    /\ holds' \in {holds, Committed(t)}
    /\ Goto(t, "close")
    /\ UNCHANGED <<blocker, Ends>>

\* get_db closes the session, by way of the loop.
CloseSession(t) ==
    /\ LoopRuns /\ t \in Pages /\ At(t, "close")
    /\ holds' = ClosedSession(t)
    /\ Goto(t, "idle")
    /\ UNCHANGED <<blocker, Ends>>

\* The lifespan ends when the handlers have: close_websockets.
Shutdown ==
    /\ \A t \in Tasks : At(t, "idle")
    /\ active' = {} /\ stale' = 0 /\ refused' = 0
    /\ UNCHANGED <<ph, holds, blocker, link, failed, uploading>>

LoopStep(t) ==
    \/ t \in Proxied /\
         \/ Lookup(t) \/ Authorize(t) \/ Refresh(t) \/ Decide(t)
         \/ Record(t) \/ Exit(t)
    \/ Forwarded(t)
    \/ t \in Sockets /\
         \/ ConnectFails(t) \/ Connects(t) \/ AcceptFails(t) \/ Accepts(t)
         \/ FirstCompleted(t) \/ LifetimeEnds(t)
         \/ CloseUpstream(t) \/ CloseBrowser(t) \/ CleanUp(t) \/ Leave(t)
    \/ CloseSession(t)

Next ==
    \/ \E t \in Proxied : Arrive(t) \/ Granted(t) \/ CheckoutTimesOut(t)
    \/ \E t \in Tasks : LoopStep(t)
    \/ \E t \in Https : ForwardedEarly(t) \/ UploadEnds(t)
    \/ \E w \in Sockets :
         UpPumpEnds(w) \/ DownPumpEnds(w) \/ BrowserLeaves(w) \/ UpstreamCloses(w)
    \/ \E t \in Pages : Dispatch(t) \/ Ask(t) \/ Work(t)
    \/ Shutdown

\* Callbacks that are ready run in the order they became so: a task that can
\* run again and again does, whoever stops the loop in between.  Threads
\* run, and a wait for the pool ends.  Browsers owe nothing: neither the rest
\* of an upload nor their leaving.
Fairness ==
    /\ \A t \in Tasks : SF_vars(LoopStep(t))
    /\ \A t \in Proxied : WF_vars(Granted(t) \/ CheckoutTimesOut(t))
    /\ \A t \in Pages : WF_vars(Ask(t) \/ Work(t))

Spec == Init /\ [][Next]_vars /\ Fairness

-----------------------------------------------------------------------------
(* Properties.                                                             *)

\* A request that is over has given its connection back, and none is held
\* by a request that has not asked for one.
ConnectionsComeBack ==
    \A t \in holds : ph[t] \notin {"idle", "lookup", "refresh", "ask"}

\* 002 websocket-forwarding.md: completion or failure in either direction
\* cancels the other and closes both connections (the browser's at the exit).
NothingOutlivesItsRelay ==
    \A w \in Sockets : ph[w] \in {"audit", "exit"} =>
        /\ link[w].up # "running" /\ link[w].down # "running"
        /\ link[w].upstream = "closed"

\* What close_websockets would close: every relay that is open is registered,
\* and only a handshake that failed at accept leaves an entry behind.
RegistryFollowsRelays ==
    /\ \A w \in Sockets : link[w].up = "running" => w \in active
    /\ \A w \in active :
         ph[w] \in {"accept", "relay", "expire", "hang_up", "finally"}
    /\ stale <= refused

\* forward_http awaits the browser, with the connection.
Stalled(t) == t \in uploading /\ At(t, "upstream")

\* Whoever holds the connections, uploads that never go on included, and
\* however often the loop stops: every page, every relay and every request whose
\* browser has sent its body ends.
EveryRequestEnds ==
    \A t \in Tasks : ph[t] # "idle" ~> ph[t] = "idle" \/ Stalled(t)
=============================================================================

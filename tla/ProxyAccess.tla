---------------------------- MODULE ProxyAccess ----------------------------
(***************************************************************************)
(* The way from the portal into a protected service: the portal launches a *)
(* service with a one-time ticket, the service's own host turns the ticket *)
(* into a cookie, and every later request on that host is authorized by    *)
(* the cookie against the central tables.                                  *)
(*                                                                         *)
(* Each request reads the tables with several SELECTs, every one of which  *)
(* sees what is committed then.  Administrators, sign-ins, sign-outs and   *)
(* the clock change the tables between the reads.  A refused or failed     *)
(* request leaves the tables alone (Abandon).                              *)
(***************************************************************************)
EXTENDS Naturals

CONSTANTS
    Users, Groups, Services,
    Sessions,       \* the session tokens that may be drawn
    Owner,          \* the user each of them is drawn for
    Tickets,        \* the launch tickets that may be drawn
    NoTicket,       \* what a request carries that carries no ticket
    Requests,       \* request slots
    InitialPolicies,\* the policies an instance may start from
    Changes         \* which of PolicyChanges happen meanwhile

PolicyChanges == {"accounts", "members", "groups", "catalogue"}

ASSUME OwnerAssumption == Owner \in [Sessions -> Users]

ASSUME NoTicketAssumption == NoTicket \notin Tickets

ASSUME ChangesAssumption == Changes \subseteq PolicyChanges

VARIABLES
    policy,         \* the tables that say who may enter which service
    sessions,       \* the sessions table
    tickets,        \* the proxy_launch_tickets table
    cookies,        \* the proxy cookies that were given to browsers
    req,            \* what each request slot is doing
    held,           \* history: the conditions true since the request arrived
    redeemed        \* history: how many cookies a ticket was turned into

vars == <<policy, sessions, tickets, cookies, req, held, redeemed>>

\* Users, groups, memberships, access rules and the service catalogue, each
\* flag as the set of the rows that have it.  A deleted account is not active.
Policies ==
    [active : SUBSET Users, temporary : SUBSET Users,
     members : SUBSET (Users \X Groups), live : SUBSET Groups,
     rules : SUBSET (Services \X Groups), enabled : SUBSET Services,
     proxied : SUBSET Services, sockets : SUBSET Services]

ASSUME InitialPoliciesAssumption == InitialPolicies \subseteq Policies

\* A ticket is open until it is consumed or its lifetime has passed.
TicketRows ==
    [st : {"open", "expired", "consumed"}, sess : Sessions, svc : Services]

UnusedTicket == [st |-> "unused"]

\* What the signed proxy cookie claims; it expires with the session.
Cookies == [sess : Sessions, svc : Services]

Kinds ==
    {"launch",      \* GET /services/{slug} on the portal
     "direct",      \* the same, once the service turned out to have no proxy
     "bootstrap",   \* GET /__portal/bootstrap?ticket= on a service host
     "forward",     \* any other request on a service host
     "socket"}      \* a WebSocket handshake on a service host

Phases ==
    {"arrived",     \* the service was found by its slug or its host
     "ticket",      \* consume_launch_ticket accepted the ticket row
     "session",     \* validate_session read a live session
     "user",        \* ... and an active user
     "service",     \* the service is enabled
     "granted"}     \* may_enter found a rule; the effect comes next

ReqRecords ==
    [ph : Phases, kind : Kinds, svc : Services, sess : Sessions,
     tk : Tickets \cup {NoTicket}]

Idle == [ph |-> "idle"]

Conditions == {"ticket", "session", "user", "service", "rule"}

TypeOK ==
    /\ policy \in Policies
    /\ sessions \in [Sessions -> {"unused", "live", "ended"}]
    /\ tickets \in [Tickets -> TicketRows \cup {UnusedTicket}]
    /\ cookies \subseteq Cookies
    /\ req \in [Requests -> ReqRecords \cup {Idle}]
    /\ held \in [Requests -> SUBSET Conditions]
    /\ redeemed \in [Tickets -> Nat]

Init ==
    /\ policy \in InitialPolicies
    /\ sessions = [s \in Sessions |-> "unused"]
    /\ tickets = [t \in Tickets |-> UnusedTicket]
    /\ cookies = {}
    /\ req = [r \in Requests |-> Idle]
    /\ held = [r \in Requests |-> {}]
    /\ redeemed = [t \in Tickets |-> 0]

At(r, ph) == req[r].ph = ph

Becomes(r, q) == req' = [req EXCEPT ![r] = q]

Goto(r, ph) == Becomes(r, [req[r] EXCEPT !.ph = ph])

Done(r) == Becomes(r, Idle)

Tables == <<policy, sessions, tickets, cookies, redeemed>>

-----------------------------------------------------------------------------
(* Conditions a request depends on.                                        *)

\* The EXISTS query of may_enter: a live group that u is in has a rule for s.
Granted(p, u, s) ==
    \E g \in p.live : <<u, g>> \in p.members /\ <<s, g>> \in p.rules

Enabled(p, q) ==
    q.svc \in p.enabled
    /\ (q.kind \in {"bootstrap", "forward", "socket"} => q.svc \in p.proxied)

Holds(c, q, p, ss, ts) ==
    \/ c = "ticket" /\ q.kind = "bootstrap" /\ ts[q.tk].st = "open"
    \/ c = "session" /\ ss[q.sess] = "live"
    \/ c = "user" /\ Owner[q.sess] \in p.active
    \/ c = "service" /\ Enabled(p, q)
    \/ c = "rule" /\ Granted(p, Owner[q.sess], q.svc)

\* Every step keeps the history of the requests that are under way.
Remember ==
    held' = [r \in Requests |->
                IF req'[r] = Idle THEN {}
                ELSE held[r] \cup
                     {c \in Conditions :
                         Holds(c, req'[r], policy', sessions', tickets')}]

-----------------------------------------------------------------------------
(* Arrival.                                                                *)

Arrives(r, kind, s, svc, t) ==
    /\ req[r] = Idle
    /\ Becomes(r, [ph |-> "arrived", kind |-> kind, svc |-> svc, sess |-> s,
                   tk |-> t])
    /\ UNCHANGED Tables

\* The portal's own cookie of a session that was drawn at some time.
Launch(r) ==
    \E s \in Sessions, svc \in Services :
      /\ sessions[s] # "unused"
      /\ Arrives(r, "launch", s, svc, NoTicket)

\* A ticket that was issued, on the host of any service.
Bootstrap(r) ==
    \E t \in Tickets, svc \in Services :
      /\ tickets[t] # UnusedTicket
      /\ Arrives(r, "bootstrap", tickets[t].sess, svc, t)

FitsAnyHost(c, svc) == TRUE

\* authorize_proxy_cookie: the cookie names the service of this host.
Fits(c, svc) == c.svc = svc

Visit(r) ==
    \E c \in cookies, svc \in Services :
      /\ Fits(c, svc)
      /\ Arrives(r, "forward", c.sess, svc, NoTicket)

\* handle_proxy_websocket looks at the two flags before it authorizes.
OpenSocket(r) ==
    \E c \in cookies, svc \in Services :
      /\ svc \in policy.proxied \cap policy.sockets
      /\ Fits(c, svc)
      /\ Arrives(r, "socket", c.sess, svc, NoTicket)

-----------------------------------------------------------------------------
(* The reads.                                                              *)

\* consume_launch_ticket: known, of this service, not consumed, not expired.
ReadTicket(r) ==
    /\ At(r, "arrived") /\ req[r].kind = "bootstrap"
    /\ tickets[req[r].tk].st = "open" /\ Fits(tickets[req[r].tk], req[r].svc)
    /\ Goto(r, "ticket")
    /\ UNCHANGED Tables

ReadSession(r) ==
    /\ \/ At(r, "ticket")
       \/ At(r, "arrived") /\ req[r].kind # "bootstrap"
    /\ sessions[req[r].sess] = "live"
    /\ Goto(r, "session")
    /\ UNCHANGED Tables

ReadUserOfAnyCredential(r) ==
    /\ At(r, "session")
    /\ Owner[req[r].sess] \in policy.active
    /\ Goto(r, "user")
    /\ UNCHANGED Tables

\* Only the portal looks at the credential: a user with a temporary password
\* is sent to change it.
ReadUser(r) ==
    /\ At(r, "session")
    /\ Owner[req[r].sess] \in policy.active
    /\ req[r].kind = "launch" => Owner[req[r].sess] \notin policy.temporary
    /\ Goto(r, "user")
    /\ UNCHANGED Tables

\* enter_service reads the row once and keeps to it; the service hosts
\* refresh the row they found before.
ReadService(r) ==
    LET q == req[r]  kind == IF q.kind = "launch" /\ q.svc \notin policy.proxied
                             THEN "direct" ELSE q.kind
    IN
    /\ At(r, "user")
    /\ Enabled(policy, q)
    /\ Becomes(r, [q EXCEPT !.ph = "service", !.kind = kind])
    /\ UNCHANGED Tables

ReadNoRules(r) == At(r, "service") /\ Goto(r, "granted") /\ UNCHANGED Tables

\* may_enter.
ReadRules(r) ==
    /\ At(r, "service")
    /\ Granted(policy, Owner[req[r].sess], req[r].svc)
    /\ Goto(r, "granted")
    /\ UNCHANGED Tables

-----------------------------------------------------------------------------
(* The effects.                                                            *)

\* A ticket is bound to the session and the service of its launch.
FreshTicket(q) == [st |-> "open", sess |-> q.sess, svc |-> q.svc]

\* issue_launch_ticket.
IssueTicket(r) ==
    /\ At(r, "granted") /\ req[r].kind = "launch"
    /\ \E t \in Tickets :
         /\ tickets[t] = UnusedTicket
         /\ tickets' = [tickets EXCEPT ![t] = FreshTicket(req[r])]
    /\ Done(r)
    /\ UNCHANGED <<policy, sessions, cookies, redeemed>>

SwapsAlways(t) == tickets[t] # UnusedTicket

\* UPDATE ... WHERE id = t AND consumed_at IS NULL; the lifetime is not
\* compared again.
Swaps(t) == tickets[t].st \in {"open", "expired"}

\* consume_launch_ticket swaps and commits, then handle_proxy_http answers
\* with the cookie, unless the process or the connection is gone by then.
Redeem(r) ==
    LET t == req[r].tk  c == [sess |-> req[r].sess, svc |-> req[r].svc] IN
    /\ At(r, "granted") /\ req[r].kind = "bootstrap"
    /\ Swaps(t)
    /\ tickets' = [tickets EXCEPT ![t].st = "consumed"]
    /\ \/ /\ cookies' = cookies \cup {c}
          /\ redeemed' = [redeemed EXCEPT ![t] = @ + 1]
       \/ UNCHANGED <<cookies, redeemed>>
    /\ Done(r)
    /\ UNCHANGED <<policy, sessions>>

\* fetch_downstream, forward_http and relay_websocket: the service is reached.
ReachService(r) ==
    /\ At(r, "granted") /\ req[r].kind \in {"direct", "forward", "socket"}
    /\ Done(r)
    /\ UNCHANGED Tables

\* Any check refuses, a statement fails, or the client is gone.
Abandon(r) ==
    /\ req[r] # Idle
    /\ Done(r)
    /\ UNCHANGED Tables

-----------------------------------------------------------------------------
(* What else writes the tables.                                            *)

\* create_session commits some time after the password was checked, so the
\* account may have been disabled in between.
SignIn(s) ==
    /\ sessions[s] = "unused"
    /\ sessions' = [sessions EXCEPT ![s] = "live"]
    /\ UNCHANGED <<policy, tickets, cookies, req, redeemed>>

\* Sign-out, revocation, or the end of the session's lifetime.
EndSession(s) ==
    /\ sessions[s] = "live"
    /\ sessions' = [sessions EXCEPT ![s] = "ended"]
    /\ UNCHANGED <<policy, tickets, cookies, req, redeemed>>

ExpireTicket(t) ==
    /\ tickets[t].st = "open"
    /\ tickets' = [tickets EXCEPT ![t].st = "expired"]
    /\ UNCHANGED <<policy, sessions, cookies, req, redeemed>>

ChangesPolicy(p) ==
    /\ policy' = p
    /\ UNCHANGED <<tickets, cookies, req, redeemed>>

SignsOut(u) ==
    sessions' = [s \in Sessions |->
                    IF Owner[s] = u /\ sessions[s] = "live" THEN "ended"
                    ELSE sessions[s]]

\* set_user_status and delete_user end the sessions in the same commit.
Disable(u) ==
    /\ "accounts" \in Changes /\ u \in policy.active
    /\ ChangesPolicy([policy EXCEPT !.active = @ \ {u}])
    /\ SignsOut(u)

Reactivate(u) ==
    /\ "accounts" \in Changes /\ u \notin policy.active
    /\ ChangesPolicy([policy EXCEPT !.active = @ \cup {u}])
    /\ UNCHANGED sessions

\* delete_user and then create_user, which may be given the same id.
Replace(u) ==
    /\ "accounts" \in Changes /\ u \notin policy.active
    /\ ChangesPolicy([policy EXCEPT !.active = @ \cup {u},
                                    !.temporary = @ \cup {u}])
    /\ SignsOut(u)

\* change_password of a signed-in user, or complete_reset.
SetPassword(u) ==
    /\ "accounts" \in Changes /\ u \in policy.temporary
    /\ ChangesPolicy([policy EXCEPT !.temporary = @ \ {u}])
    /\ UNCHANGED sessions \/ SignsOut(u)

ChangeMemberships(u) ==
    /\ "members" \in Changes
    /\ \E gs \in SUBSET Groups :
         ChangesPolicy([policy EXCEPT !.members =
                           {m \in @ : m[1] # u} \cup ({u} \X gs)])
    /\ UNCHANGED sessions

ChangeGroup(g) ==
    /\ "groups" \in Changes
    /\ ChangesPolicy([policy EXCEPT !.live = IF g \in @ THEN @ \ {g}
                                             ELSE @ \cup {g}])
    /\ UNCHANGED sessions

With(set, x, flag) == IF flag THEN set \cup {x} ELSE set \ {x}

\* save_service replaces the flags and the rules of one service.  Two forms
\* saved at a time may merge their columns, so any flags can meet.
SaveService(s) ==
    /\ "catalogue" \in Changes
    /\ \E on, px, ws \in BOOLEAN, gs \in SUBSET Groups :
         ChangesPolicy([policy EXCEPT
             !.enabled = With(@, s, on), !.proxied = With(@, s, px),
             !.sockets = With(@, s, ws),
             !.rules = {x \in @ : x[1] # s} \cup ({s} \X gs)])
    /\ UNCHANGED sessions

-----------------------------------------------------------------------------
Arrive(r) == Launch(r) \/ Bootstrap(r) \/ Visit(r) \/ OpenSocket(r)

Check(r) ==
    \/ ReadTicket(r) \/ ReadSession(r) \/ ReadUser(r) \/ ReadService(r)
    \/ ReadRules(r)

Finish(r) == IssueTicket(r) \/ Redeem(r) \/ ReachService(r) \/ Abandon(r)

TimePasses ==
    \/ \E s \in Sessions : SignIn(s) \/ EndSession(s)
    \/ \E t \in Tickets : ExpireTicket(t)

Administrators ==
    \/ \E u \in Users :
         \/ Disable(u) \/ Reactivate(u) \/ Replace(u) \/ SetPassword(u)
         \/ ChangeMemberships(u)
    \/ \E g \in Groups : ChangeGroup(g)
    \/ \E s \in Services : SaveService(s)

Step ==
    \/ \E r \in Requests : Arrive(r) \/ Check(r) \/ Finish(r)
    \/ TimePasses
    \/ Administrators

Next == Step /\ Remember

Spec == Init /\ [][Next]_vars

-----------------------------------------------------------------------------
(* Properties.                                                             *)

Required(kind) == Conditions \ (IF kind = "bootstrap" THEN {} ELSE {"ticket"})

\* enter_service, consume_launch_ticket, authorize_proxy_cookie: a request
\* takes effect only if its ticket was open, its session live, its user
\* active, its service enabled (and proxied) and a rule matched, each at some
\* moment after the request arrived.  So what was revoked before a request
\* arrives, and stays revoked, keeps the request out, though no lock spans
\* the reads.
AuthorizedSinceArrival ==
    \A r \in Requests :
        At(r, "granted") => Required(req[r].kind) \subseteq held[r]

\* However many requests carry the same ticket at a time, at most one browser
\* is given a cookie for it.
TicketsAreRedeemedOnce == \A t \in Tickets : redeemed[t] <= 1

Consumed(s, svc) ==
    \E t \in Tickets :
        tickets[t] = [st |-> "consumed", sess |-> s, svc |-> svc]

\* A request is forwarded to a service host only if a ticket that the portal
\* issued for this very session and this very service was consumed before:
\* neither a ticket nor a cookie of one service opens another.
ForwardedAfterLaunch ==
    \A r \in Requests :
        At(r, "granted") /\ req[r].kind \in {"forward", "socket"}
            => Consumed(req[r].sess, req[r].svc)

\* The service hosts never look at credential_status.  They need not: only
\* the launch gives out tickets, and no account goes back to a temporary
\* password with its sessions still live.
CookieOwnersChoseTheirPassword ==
    \A c \in cookies :
        sessions[c.sess] = "live" => Owner[c.sess] \notin policy.temporary
=============================================================================

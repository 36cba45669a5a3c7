------------------------- MODULE ProxyAccessProofs -------------------------
(***************************************************************************)
(* Theorems about ProxyAccess, for every number of users, services,        *)
(* sessions, tickets and requests, and every change of the policy.         *)
(***************************************************************************)
EXTENDS ProxyAccess, TLAPS

-----------------------------------------------------------------------------
(* The inductive invariant.                                                *)

\* What ReadUser established at a launch and every later change of the
\* accounts preserves: s was drawn, and if it still counts, its owner has a
\* password of his own.
Vetted(s) ==
    /\ sessions[s] # "unused"
    /\ sessions[s] = "live" => Owner[s] \notin policy.temporary

Issued(t) == tickets[t] # UnusedTicket

\* A request speaks of a session that was drawn, a bootstrap of the session
\* and service of its ticket, and the others of those of their cookie.
Linked(q) ==
    /\ sessions[q.sess] # "unused"
    /\ q.kind = "bootstrap" =>
         /\ q.tk \in Tickets /\ Issued(q.tk)
         /\ tickets[q.tk].sess = q.sess
         /\ q.ph # "arrived" => tickets[q.tk].svc = q.svc
    /\ q.kind \in {"forward", "socket"} => [sess |-> q.sess, svc |-> q.svc] \in cookies
    /\ q.kind \in {"launch", "direct"} /\ q.ph \in {"user", "service", "granted"}
         => Vetted(q.sess)

\* The history h holds what the phases so far have read.
Passed(q, h) ==
    /\ q.ph = "ticket" => q.kind = "bootstrap"
    /\ q.kind = "direct" => q.ph \in {"service", "granted"}
    /\ q.kind = "bootstrap" /\ q.ph # "arrived" => "ticket" \in h
    /\ q.ph \in {"session", "user", "service", "granted"} => "session" \in h
    /\ q.ph \in {"user", "service", "granted"} => "user" \in h
    /\ q.ph \in {"service", "granted"} => "service" \in h
    /\ q.ph = "granted" => "rule" \in h

RequestOK(r) == req[r] # Idle => Linked(req[r]) /\ Passed(req[r], held[r])

TicketOK(t) ==
    /\ Issued(t) => Vetted(tickets[t].sess)
    /\ redeemed[t] <= 1
    /\ tickets[t].st # "consumed" => redeemed[t] = 0

CookieOK(c) == Consumed(c.sess, c.svc)

IInv ==
    /\ TypeOK
    /\ \A r \in Requests : RequestOK(r)
    /\ \A t \in Tickets : TicketOK(t)
    /\ \A c \in cookies : CookieOK(c)

-----------------------------------------------------------------------------
(* Types.                                                                  *)

LEMMA InitInv == Init => IInv
  <1> SUFFICES ASSUME Init PROVE IInv
    OBVIOUS
  <1>1. TypeOK
    BY InitialPoliciesAssumption DEF Init, TypeOK
  <1>2. \A t \in Tickets : TicketOK(t)
    BY DEF Init, TicketOK, Issued, UnusedTicket
  <1> QED
    BY <1>1, <1>2 DEF Init, IInv, RequestOK

\* The history contains what it contained and what holds now.
LEMMA HistoryGrows ==
    ASSUME TypeOK, Remember, NEW r \in Requests, req'[r] # Idle
    PROVE  /\ held[r] \subseteq held'[r]
           /\ \A c \in Conditions :
                Holds(c, req'[r], policy', sessions', tickets') => c \in held'[r]
  BY DEF Remember

LEMMA HistoryType ==
    ASSUME TypeOK, Remember
    PROVE  held' \in [Requests -> SUBSET Conditions]
  BY DEF Remember, TypeOK

LEMMA RecordsOfArrivals ==
    ASSUME TypeOK, NEW r \in Requests, Arrive(r)
    PROVE  /\ UNCHANGED Tables
           /\ \E q \in ReqRecords : q.ph = "arrived" /\ Becomes(r, q)
  <1> USE DEF Arrives, ReqRecords, Phases, Kinds
  <1>1. CASE Launch(r)
    BY <1>1 DEF Launch
  <1>2. CASE Bootstrap(r)
    <2>1. PICK t \in Tickets, svc \in Services :
            /\ tickets[t] # UnusedTicket
            /\ Arrives(r, "bootstrap", tickets[t].sess, svc, t)
      BY <1>2 DEF Bootstrap
    <2>2. tickets[t].sess \in Sessions
      BY <2>1 DEF TypeOK, TicketRows
    <2> QED
      BY <2>1, <2>2
  <1>3. CASE Visit(r)
    BY <1>3 DEF Visit, TypeOK, Cookies
  <1>4. CASE OpenSocket(r)
    BY <1>4 DEF OpenSocket, TypeOK, Cookies
  <1> QED
    BY <1>1, <1>2, <1>3, <1>4 DEF Arrive

LEMMA RecordsOfChecks ==
    ASSUME TypeOK, NEW r \in Requests, Check(r)
    PROVE  /\ UNCHANGED Tables
           /\ req[r] \in ReqRecords
           /\ \E q \in ReqRecords :
                /\ Becomes(r, q) /\ q.ph # "arrived"
                /\ q.sess = req[r].sess /\ q.svc = req[r].svc
                /\ q.tk = req[r].tk
                /\ \/ q.kind = req[r].kind
                   \/ q.kind = "direct" /\ req[r].kind = "launch"
  <1>1. req[r] \in ReqRecords
    BY DEF TypeOK, Check, ReadTicket, ReadSession, ReadUser, ReadService,
       ReadRules, At, Idle
  <1>2. UNCHANGED Tables
    BY DEF Check, ReadTicket, ReadSession, ReadUser, ReadService, ReadRules
  <1>3. ASSUME NEW ph \in Phases \ {"arrived"}, NEW kind \in Kinds,
               \/ kind = req[r].kind
               \/ kind = "direct" /\ req[r].kind = "launch",
               Becomes(r, [req[r] EXCEPT !.ph = ph, !.kind = kind])
        PROVE  \E q \in ReqRecords :
                /\ Becomes(r, q) /\ q.ph # "arrived"
                /\ q.sess = req[r].sess /\ q.svc = req[r].svc
                /\ q.tk = req[r].tk
                /\ \/ q.kind = req[r].kind
                   \/ q.kind = "direct" /\ req[r].kind = "launch"
    <2> DEFINE q == [req[r] EXCEPT !.ph = ph, !.kind = kind]
    <2>1. /\ q \in ReqRecords /\ q.ph = ph /\ q.kind = kind
          /\ q.sess = req[r].sess /\ q.svc = req[r].svc /\ q.tk = req[r].tk
      BY <1>1, <1>3 DEF ReqRecords
    <2> HIDE DEF q
    <2>2. Becomes(r, q)
      BY <1>3 DEF q
    <2> QED
      BY <1>3, <2>1, <2>2
  <1>4. CASE ReadService(r)
    <2> DEFINE kind == IF req[r].kind = "launch" /\ req[r].svc \notin policy.proxied
                       THEN "direct" ELSE req[r].kind
    <2>1. kind \in Kinds
      BY <1>1 DEF ReqRecords, Kinds
    <2>2. Becomes(r, [req[r] EXCEPT !.ph = "service", !.kind = kind])
      BY <1>4 DEF ReadService
    <2>3. \/ kind = req[r].kind
          \/ kind = "direct" /\ req[r].kind = "launch"
      OBVIOUS
    <2>4. "service" \in Phases \ {"arrived"}
      BY DEF Phases
    <2> HIDE DEF kind
    <2> QED
      BY <1>1, <1>2, <1>3, <2>1, <2>2, <2>3, <2>4
  <1>5. CASE ReadTicket(r) \/ ReadSession(r) \/ ReadUser(r) \/ ReadRules(r)
    <2>1. PICK ph \in Phases \ {"arrived"} : Goto(r, ph)
      BY <1>5 DEF ReadTicket, ReadSession, ReadUser, ReadRules, Phases
    <2>2. [req[r] EXCEPT !.ph = ph] = [req[r] EXCEPT !.ph = ph, !.kind = req[r].kind]
      BY <1>1 DEF ReqRecords
    <2>3. req[r].kind \in Kinds
      BY <1>1 DEF ReqRecords
    <2>4. Becomes(r, [req[r] EXCEPT !.ph = ph, !.kind = req[r].kind])
      BY <2>1, <2>2 DEF Goto
    <2> QED
      BY <1>1, <1>2, <1>3, <2>1, <2>3, <2>4
  <1> QED
    BY <1>1, <1>2, <1>4, <1>5 DEF Check

\* Every change of the administrators leaves a policy.
LEMMA PolicyTyped ==
    ASSUME policy \in Policies, Administrators
    PROVE  policy' \in Policies
  <1> USE DEF ChangesPolicy, Policies
  <1>1. ASSUME NEW u \in Users, Disable(u) \/ Reactivate(u) PROVE policy' \in Policies
    BY <1>1 DEF Disable, Reactivate
  <1>2. ASSUME NEW u \in Users, Replace(u) PROVE policy' \in Policies
    BY <1>2 DEF Replace
  <1>3. ASSUME NEW u \in Users, SetPassword(u) PROVE policy' \in Policies
    BY <1>3 DEF SetPassword
  <1>4. ASSUME NEW u \in Users, ChangeMemberships(u) PROVE policy' \in Policies
    BY <1>4 DEF ChangeMemberships
  <1>5. ASSUME NEW g \in Groups, ChangeGroup(g) PROVE policy' \in Policies
    BY <1>5 DEF ChangeGroup
  <1>6. ASSUME NEW s \in Services, SaveService(s) PROVE policy' \in Policies
    <2>1. PICK on \in BOOLEAN, px \in BOOLEAN, ws \in BOOLEAN, gs \in SUBSET Groups :
            policy' = [policy EXCEPT
                         !.enabled = With(@, s, on), !.proxied = With(@, s, px),
                         !.sockets = With(@, s, ws),
                         !.rules = {x \in @ : x[1] # s} \cup ({s} \X gs)]
      BY <1>6 DEF SaveService
    <2>2. \A set \in SUBSET Services, flag \in BOOLEAN :
            With(set, s, flag) \in SUBSET Services
      BY DEF With
    <2>3. {x \in policy.rules : x[1] # s} \cup ({s} \X gs)
            \in SUBSET (Services \X Groups)
      OBVIOUS
    <2> QED
      BY <2>1, <2>2, <2>3
  <1> QED
    BY <1>1, <1>2, <1>3, <1>4, <1>5, <1>6 DEF Administrators

LEMMA TypeKept == TypeOK /\ [Next]_vars => TypeOK'
  <1> SUFFICES ASSUME TypeOK, [Next]_vars PROVE TypeOK'
    OBVIOUS
  <1>0. held' \in [Requests -> SUBSET Conditions]
    BY HistoryType DEF Next, vars, TypeOK
  <1>1. ASSUME NEW r \in Requests, Arrive(r) \/ Check(r) PROVE TypeOK'
    <2>1. UNCHANGED Tables /\ \E q \in ReqRecords : Becomes(r, q)
      BY <1>1, RecordsOfArrivals, RecordsOfChecks
    <2> QED
      BY <1>0, <2>1 DEF TypeOK, Tables, Becomes
  <1>2. ASSUME NEW r \in Requests, Finish(r) PROVE TypeOK'
    <2>1. req' \in [Requests -> ReqRecords \cup {Idle}]
      BY <1>2 DEF TypeOK, Finish, IssueTicket, FreshTicket, Redeem, ReachService, Abandon,
         Done, Becomes
    <2>2. CASE IssueTicket(r)
      <3>1. req[r] \in ReqRecords
        BY <2>2 DEF IssueTicket, FreshTicket, TypeOK, At, Idle
      <3>2. [st |-> "open", sess |-> req[r].sess, svc |-> req[r].svc] \in TicketRows
        BY <3>1 DEF ReqRecords, TicketRows
      <3> QED
        BY <1>0, <2>1, <2>2, <3>2 DEF IssueTicket, FreshTicket, TypeOK
    <2>3. CASE Redeem(r)
      <3>1. req[r] \in ReqRecords
        BY <2>3 DEF Redeem, TypeOK, At, Idle
      <3> DEFINE t == req[r].tk  c == [sess |-> req[r].sess, svc |-> req[r].svc]
      <3>2. c \in Cookies
        BY <3>1 DEF ReqRecords, Cookies
      <3>3. tickets' = [tickets EXCEPT ![t].st = "consumed"] /\ Swaps(t)
        BY <2>3 DEF Redeem
      <3>4. tickets' \in [Tickets -> TicketRows \cup {UnusedTicket}]
        <4>1. ASSUME t \in Tickets PROVE tickets[t] \in TicketRows
          BY <3>3, <4>1 DEF Swaps, TypeOK, UnusedTicket
        <4>2. ASSUME t \in Tickets
              PROVE  [tickets[t] EXCEPT !.st = "consumed"] \in TicketRows
          BY <4>1, <4>2 DEF TicketRows
        <4> QED
          BY <3>3, <4>2 DEF TypeOK
      <3>5. redeemed' \in [Tickets -> Nat] /\ cookies' \subseteq Cookies
        BY <2>3, <3>2 DEF Redeem, TypeOK
      <3> QED
        BY <1>0, <2>1, <2>3, <3>4, <3>5 DEF Redeem, TypeOK
    <2>4. CASE ReachService(r) \/ Abandon(r)
      BY <1>0, <2>1, <2>4 DEF ReachService, Abandon, TypeOK, Tables
    <2> QED
      BY <1>2, <2>2, <2>3, <2>4 DEF Finish
  <1>3. CASE TimePasses
    <2>1. ASSUME NEW s \in Sessions, SignIn(s) \/ EndSession(s) PROVE TypeOK'
      BY <1>0, <2>1 DEF SignIn, EndSession, TypeOK
    <2>2. ASSUME NEW t \in Tickets, ExpireTicket(t) PROVE TypeOK'
      <3>1. tickets[t] \in TicketRows
        BY <2>2 DEF ExpireTicket, TypeOK, UnusedTicket
      <3>2. [tickets[t] EXCEPT !.st = "expired"] \in TicketRows
        BY <3>1 DEF TicketRows
      <3> QED
        BY <1>0, <2>2, <3>2 DEF ExpireTicket, TypeOK
    <2> QED
      BY <1>3, <2>1, <2>2 DEF TimePasses
  <1>4. CASE Administrators
    <2>1. policy' \in Policies
      BY <1>4, PolicyTyped DEF TypeOK
    <2>2. sessions' \in [Sessions -> {"unused", "live", "ended"}]
      BY <1>4 DEF Administrators, Disable, Reactivate, Replace, SetPassword,
         ChangeMemberships, ChangeGroup, SaveService, SignsOut, TypeOK
    <2>3. UNCHANGED <<tickets, cookies, req, redeemed>>
      BY <1>4 DEF Administrators, Disable, Reactivate, Replace, SetPassword,
         ChangeMemberships, ChangeGroup, SaveService, ChangesPolicy
    <2> QED
      BY <1>0, <2>1, <2>2, <2>3 DEF TypeOK
  <1>5. CASE UNCHANGED vars
    BY <1>5 DEF vars, TypeOK
  <1> QED
    BY <1>1, <1>2, <1>3, <1>4, <1>5 DEF Next, Step

-----------------------------------------------------------------------------
(* What no step takes back.                                                *)

\* The steps that change the tables.
LEMMA TablesChange ==
    ASSUME TypeOK, [Next]_vars
    PROVE  \/ UNCHANGED Tables
           \/ \E r \in Requests : IssueTicket(r) \/ Redeem(r)
           \/ TimePasses
           \/ Administrators
  <1>1. ASSUME NEW r \in Requests, Arrive(r) \/ Check(r) PROVE UNCHANGED Tables
    BY <1>1, RecordsOfArrivals, RecordsOfChecks
  <1>2. ASSUME NEW r \in Requests, ReachService(r) \/ Abandon(r)
        PROVE  UNCHANGED Tables
    BY <1>2 DEF ReachService, Abandon
  <1>3. CASE UNCHANGED vars
    BY <1>3 DEF vars, Tables
  <1> QED
    BY <1>1, <1>2, <1>3 DEF Next, Step, Finish

\* A session that was drawn stays drawn, and no account falls back to a
\* temporary password while its session counts.
LEMMA VettedStays ==
    ASSUME TypeOK, [Next]_vars, NEW s \in Sessions
    PROVE  /\ sessions[s] # "unused" => sessions'[s] # "unused"
           /\ Vetted(s) => Vetted(s)'
  <1> USE DEF Vetted, TypeOK
  <1>1. CASE UNCHANGED Tables
    BY <1>1 DEF Tables
  <1>2. CASE \E r \in Requests : IssueTicket(r) \/ Redeem(r)
    BY <1>2 DEF IssueTicket, FreshTicket, Redeem
  <1>3. CASE TimePasses
    BY <1>3 DEF TimePasses, SignIn, EndSession, ExpireTicket
  <1>4. CASE \E u \in Users : Disable(u)
    BY <1>4 DEF Disable, ChangesPolicy, SignsOut, Policies
  <1>5. CASE \E u \in Users : Reactivate(u)
    BY <1>5 DEF Reactivate, ChangesPolicy, Policies
  <1>6. CASE \E u \in Users : Replace(u)
    BY <1>6 DEF Replace, ChangesPolicy, SignsOut, Policies
  <1>7. CASE \E u \in Users : SetPassword(u)
    BY <1>7 DEF SetPassword, ChangesPolicy, SignsOut, Policies
  <1>8. CASE \E u \in Users : ChangeMemberships(u)
    BY <1>8 DEF ChangeMemberships, ChangesPolicy, Policies
  <1>9. CASE \E g \in Groups : ChangeGroup(g)
    BY <1>9 DEF ChangeGroup, ChangesPolicy, Policies
  <1>10. CASE \E x \in Services : SaveService(x)
    BY <1>10 DEF SaveService, ChangesPolicy, Policies
  <1> QED
    BY <1>1, <1>2, <1>3, <1>4, <1>5, <1>6, <1>7, <1>8, <1>9, <1>10, TablesChange
    DEF Administrators

LEMMA OnlyRequestsAndTimeTouchTickets ==
    ASSUME Administrators
    PROVE  UNCHANGED <<tickets, cookies, redeemed, req>>
  BY DEF Administrators, Disable, Reactivate, Replace, SetPassword,
     ChangeMemberships, ChangeGroup, SaveService, ChangesPolicy

\* A ticket keeps its session and service, and a consumed one stays consumed.
LEMMA TicketsStay ==
    ASSUME TypeOK, [Next]_vars, NEW t \in Tickets, Issued(t)
    PROVE  /\ Issued(t)'
           /\ tickets'[t].sess = tickets[t].sess
           /\ tickets'[t].svc = tickets[t].svc
           /\ tickets[t].st = "consumed" => tickets'[t] = tickets[t]
  <1>0. tickets[t] \in TicketRows
    BY DEF Issued, TypeOK
  <1> USE DEF Issued, TypeOK, TicketRows, UnusedTicket
  <1>1. CASE UNCHANGED Tables
    BY <1>0, <1>1 DEF Tables
  <1>2. CASE \E r \in Requests : IssueTicket(r)
    BY <1>0, <1>2 DEF IssueTicket, FreshTicket
  <1>3. CASE \E r \in Requests : Redeem(r)
    BY <1>0, <1>3 DEF Redeem, Swaps
  <1>4. CASE TimePasses
    BY <1>0, <1>4 DEF TimePasses, SignIn, EndSession, ExpireTicket
  <1>5. CASE Administrators
    BY <1>0, <1>5, OnlyRequestsAndTimeTouchTickets
  <1> QED
    BY <1>1, <1>2, <1>3, <1>4, <1>5, TablesChange

\* Nothing takes a cookie out of a browser that wants to keep it.
LEMMA CookiesStay ==
    ASSUME TypeOK, [Next]_vars
    PROVE  cookies \subseteq cookies'
  <1>1. CASE UNCHANGED Tables
    BY <1>1 DEF Tables
  <1>2. CASE \E r \in Requests : IssueTicket(r) \/ Redeem(r)
    BY <1>2 DEF IssueTicket, FreshTicket, Redeem
  <1>3. CASE TimePasses
    BY <1>3 DEF TimePasses, SignIn, EndSession, ExpireTicket
  <1>4. CASE Administrators
    BY <1>4, OnlyRequestsAndTimeTouchTickets
  <1> QED
    BY <1>1, <1>2, <1>3, <1>4, TablesChange

\* So what a request record says stays true while the request waits.
LEMMA LinkedStays ==
    ASSUME TypeOK, [Next]_vars, NEW r \in Requests, req[r] \in ReqRecords,
           Linked(req[r]), req'[r] = req[r]
    PROVE  Linked(req[r])'
  <1>1. req[r].sess \in Sessions
    BY DEF ReqRecords
  <1>2. Vetted(req[r].sess) => Vetted(req[r].sess)'
    BY <1>1, VettedStays DEF Vetted
  <1>3. sessions'[req'[r].sess] # "unused"
    BY <1>1, VettedStays DEF Linked
  <1>4. ASSUME req[r].kind = "bootstrap"
        PROVE  /\ req[r].tk \in Tickets /\ Issued(req[r].tk)'
               /\ tickets'[req[r].tk].sess = req[r].sess
               /\ req[r].ph # "arrived" => tickets'[req[r].tk].svc = req[r].svc
    BY <1>4, TicketsStay DEF Linked, Issued
  <1> QED
    BY <1>2, <1>3, <1>4, CookiesStay DEF Linked, Issued

-----------------------------------------------------------------------------
(* The steps of a request.                                                 *)

LEMMA ArriveOK ==
    ASSUME IInv, Remember, NEW r \in Requests, Arrive(r)
    PROVE  RequestOK(r)'
  <1>0. TypeOK /\ UNCHANGED Tables
    BY RecordsOfArrivals DEF IInv
  <1> USE <1>0 DEF TypeOK, Arrives, Becomes, Tables
  <1>1. ASSUME NEW kind \in Kinds, NEW s \in Sessions, NEW svc \in Services,
               NEW t, Arrives(r, kind, s, svc, t), sessions[s] # "unused",
               kind # "direct",
               kind = "bootstrap" =>
                 t \in Tickets /\ Issued(t) /\ tickets[t].sess = s,
               kind \in {"forward", "socket"} =>
                 [sess |-> s, svc |-> svc] \in cookies
        PROVE  RequestOK(r)'
    <2>1. req'[r] = [ph |-> "arrived", kind |-> kind, svc |-> svc, sess |-> s,
                     tk |-> t]
      BY <1>1
    <2>2. /\ req'[r].ph = "arrived" /\ req'[r].kind = kind
          /\ req'[r].svc = svc /\ req'[r].sess = s /\ req'[r].tk = t
      BY <2>1
    <2>3. Passed(req[r], held[r])'
      BY <1>1, <2>2 DEF Passed
    <2>4. Linked(req[r])'
      BY <1>1, <2>2 DEF Linked, Issued
    <2> QED
      BY <2>3, <2>4 DEF RequestOK
  <1>2. CASE Launch(r)
    BY <1>1, <1>2 DEF Launch, Kinds
  <1>3. CASE Bootstrap(r)
    <2>1. PICK t \in Tickets, svc \in Services :
            /\ tickets[t] # UnusedTicket
            /\ Arrives(r, "bootstrap", tickets[t].sess, svc, t)
      BY <1>3 DEF Bootstrap
    <2>2. tickets[t].sess \in Sessions /\ sessions[tickets[t].sess] # "unused"
      BY <2>1 DEF TicketRows, IInv, TicketOK, Issued, Vetted
    <2> QED
      BY <1>1, <2>1, <2>2 DEF Kinds, Issued
  <1>4. ASSUME NEW c \in cookies
        PROVE  /\ c.sess \in Sessions /\ c.svc \in Services
               /\ c = [sess |-> c.sess, svc |-> c.svc]
               /\ sessions[c.sess] # "unused"
    <2>1. c \in Cookies
      OBVIOUS
    <2>2. PICK t \in Tickets :
            tickets[t] = [st |-> "consumed", sess |-> c.sess, svc |-> c.svc]
      BY DEF IInv, CookieOK, Consumed
    <2>3. Issued(t) /\ tickets[t].sess = c.sess
      BY <2>2 DEF Issued, UnusedTicket
    <2> QED
      BY <2>1, <2>3 DEF IInv, TicketOK, Vetted, Cookies
  <1>5. CASE Visit(r)
    <2>1. PICK c \in cookies, svc \in Services :
            c.svc = svc /\ Arrives(r, "forward", c.sess, svc, NoTicket)
      BY <1>5 DEF Visit, Fits
    <2>2. [sess |-> c.sess, svc |-> svc] \in cookies /\ sessions[c.sess] # "unused"
      BY <1>4, <2>1
    <2>3. c.sess \in Sessions
      BY <1>4
    <2> QED
      BY <1>1, <2>1, <2>2, <2>3 DEF Kinds
  <1>6. CASE OpenSocket(r)
    <2>1. PICK c \in cookies, svc \in Services :
            c.svc = svc /\ Arrives(r, "socket", c.sess, svc, NoTicket)
      BY <1>6 DEF OpenSocket, Fits
    <2>2. [sess |-> c.sess, svc |-> svc] \in cookies /\ sessions[c.sess] # "unused"
      BY <1>4, <2>1
    <2>3. c.sess \in Sessions
      BY <1>4
    <2> QED
      BY <1>1, <2>1, <2>2, <2>3 DEF Kinds
  <1> QED
    BY <1>2, <1>3, <1>5, <1>6 DEF Arrive

LEMMA CheckOK ==
    ASSUME IInv, Remember, NEW r \in Requests, Check(r)
    PROVE  RequestOK(r)'
  <1>0. TypeOK /\ UNCHANGED Tables /\ req[r] \in ReqRecords
    BY RecordsOfChecks DEF IInv
  <1>1. req[r] # Idle /\ Linked(req[r]) /\ Passed(req[r], held[r])
    BY <1>0 DEF IInv, RequestOK, ReqRecords, Phases, Idle
  <1>2. PICK q \in ReqRecords :
          /\ Becomes(r, q) /\ q.ph # "arrived"
          /\ q.sess = req[r].sess /\ q.svc = req[r].svc /\ q.tk = req[r].tk
          /\ \/ q.kind = req[r].kind
             \/ q.kind = "direct" /\ req[r].kind = "launch"
    BY RecordsOfChecks DEF IInv
  <1>3. req'[r] = q /\ req'[r] # Idle
    BY <1>0, <1>2 DEF Becomes, TypeOK, ReqRecords, Phases, Idle
  <1>4. /\ held[r] \subseteq held'[r]
        /\ \A c \in Conditions : Holds(c, q, policy, sessions, tickets) => c \in held'[r]
    BY <1>0, <1>3, HistoryGrows DEF Tables
  <1>u. /\ policy' = policy /\ sessions' = sessions /\ tickets' = tickets
        /\ cookies' = cookies
    BY <1>0 DEF Tables
  <1> USE DEF Conditions, Holds
  <1>5. CASE ReadTicket(r)
    <2>1. q.ph = "ticket" /\ q.kind = req[r].kind
      BY <1>0, <1>3, <1>5 DEF ReadTicket, Goto, Becomes, TypeOK, ReqRecords
    <2>2. "ticket" \in held'[r] /\ tickets[q.tk].svc = q.svc
      BY <1>2, <1>4, <1>5, <2>1 DEF ReadTicket, Fits
    <2>3. Passed(req[r], held[r])'
      BY <1>3, <1>5, <2>1, <2>2 DEF Passed, ReadTicket
    <2>4. Linked(req[r])'
      BY <1>1, <1>2, <1>3, <1>u, <2>1, <2>2 DEF Linked, Issued
    <2> QED
      BY <2>3, <2>4 DEF RequestOK
  <1>6. CASE ReadSession(r)
    <2>1. q.ph = "session" /\ q.kind = req[r].kind
      BY <1>0, <1>3, <1>6 DEF ReadSession, Goto, Becomes, TypeOK, ReqRecords
    <2>2. "session" \in held'[r]
      BY <1>2, <1>4, <1>6 DEF ReadSession
    <2>3. /\ q.kind = "bootstrap" => req[r].ph # "arrived"
          /\ req[r].ph \in {"arrived", "ticket"}
      BY <1>6, <2>1 DEF ReadSession, At
    <2>4. Passed(req[r], held[r])'
      BY <1>1, <1>3, <1>4, <2>1, <2>2, <2>3 DEF Passed
    <2>5. Linked(req[r])'
      BY <1>1, <1>2, <1>3, <1>u, <2>1, <2>3 DEF Linked, Issued
    <2> QED
      BY <2>4, <2>5 DEF RequestOK
  <1>7. CASE ReadUser(r)
    <2>1. q.ph = "user" /\ q.kind = req[r].kind /\ req[r].ph = "session"
      BY <1>0, <1>3, <1>7 DEF ReadUser, Goto, Becomes, TypeOK, ReqRecords, At
    <2>2. "user" \in held'[r]
      BY <1>2, <1>4, <1>7 DEF ReadUser
    <2>3. Passed(req[r], held[r])'
      BY <1>1, <1>3, <1>4, <2>1, <2>2 DEF Passed
    <2>4. q.kind \in {"launch", "direct"} => Vetted(q.sess)
      BY <1>1, <1>2, <1>7, <2>1 DEF ReadUser, Vetted, Linked, Passed
    <2> QED
      BY <1>1, <1>2, <1>3, <1>u, <2>1, <2>3, <2>4
      DEF Linked, Issued, RequestOK, Vetted
  <1>8. CASE ReadService(r)
    <2>1. q.ph = "service" /\ req[r].ph = "user" /\ Enabled(policy, req[r])
      BY <1>0, <1>3, <1>8 DEF ReadService, Becomes, TypeOK, ReqRecords, At
    <2>2. "service" \in held'[r]
      BY <1>2, <1>4, <2>1 DEF Enabled
    <2>3. Passed(req[r], held[r])'
      BY <1>1, <1>2, <1>3, <1>4, <2>1, <2>2 DEF Passed
    <2> QED
      BY <1>1, <1>2, <1>3, <1>u, <2>1, <2>3 DEF Linked, Issued, RequestOK, Vetted
  <1>9. CASE ReadRules(r)
    <2>1. q.ph = "granted" /\ req[r].ph = "service" /\ q.kind = req[r].kind
      BY <1>0, <1>3, <1>9 DEF ReadRules, Goto, Becomes, TypeOK, ReqRecords, At
    <2>2. "rule" \in held'[r]
      BY <1>2, <1>4, <1>9 DEF ReadRules
    <2>3. Passed(req[r], held[r])'
      BY <1>1, <1>3, <1>4, <2>1, <2>2 DEF Passed
    <2> QED
      BY <1>1, <1>2, <1>3, <1>u, <2>1, <2>3 DEF Linked, Issued, RequestOK, Vetted
  <1> QED
    BY <1>5, <1>6, <1>7, <1>8, <1>9 DEF Check

\* The other requests wait, and their history grows.
LEMMA WaitOK ==
    ASSUME IInv, [Next]_vars, NEW r \in Requests, req'[r] = req[r]
    PROVE  RequestOK(r)'
  <1>1. CASE req[r] = Idle
    BY <1>1 DEF RequestOK
  <1>2. CASE req[r] # Idle
    <2>1. req[r] \in ReqRecords
      BY <1>2 DEF IInv, TypeOK
    <2>2. Linked(req[r]) /\ Passed(req[r], held[r])
      BY <1>2 DEF IInv, RequestOK
    <2>3. held[r] \subseteq held'[r]
      BY <1>2, HistoryGrows DEF Next, vars, IInv
    <2>4. Passed(req[r], held[r])'
      BY <2>2, <2>3 DEF Passed
    <2>5. Linked(req[r])'
      BY <2>1, <2>2, LinkedStays DEF IInv
    <2> QED
      BY <2>4, <2>5 DEF RequestOK
  <1> QED
    BY <1>1, <1>2

LEMMA RequestsKept ==
    ASSUME IInv, [Next]_vars, NEW p \in Requests
    PROVE  RequestOK(p)'
  <1>1. ASSUME NEW r \in Requests, Arrive(r) \/ Check(r), Remember
        PROVE  RequestOK(p)'
    <2>1. CASE p = r
      BY <1>1, <2>1, ArriveOK, CheckOK
    <2>2. CASE p # r
      <3>1. \E q : Becomes(r, q)
        BY <1>1, RecordsOfArrivals, RecordsOfChecks DEF IInv
      <3> QED
        BY <2>2, <3>1, WaitOK DEF Becomes, IInv, TypeOK
    <2> QED
      BY <2>1, <2>2
  <1>2. ASSUME NEW r \in Requests, Finish(r) PROVE RequestOK(p)'
    <2>1. Done(r)
      BY <1>2 DEF Finish, IssueTicket, FreshTicket, Redeem, ReachService, Abandon
    <2>2. CASE p = r
      BY <2>1, <2>2 DEF Done, Becomes, IInv, TypeOK, RequestOK
    <2>3. CASE p # r
      BY <2>1, <2>3, WaitOK DEF Done, Becomes, IInv, TypeOK
    <2> QED
      BY <2>2, <2>3
  <1>3. CASE req' = req
    BY <1>3, WaitOK
  <1>4. CASE TimePasses
    BY <1>3, <1>4 DEF TimePasses, SignIn, EndSession, ExpireTicket
  <1>5. CASE Administrators
    BY <1>3, <1>5, OnlyRequestsAndTimeTouchTickets
  <1> QED
    BY <1>1, <1>2, <1>3, <1>4, <1>5 DEF Next, Step, vars

-----------------------------------------------------------------------------
(* The steps of tickets and cookies.                                       *)

\* A ticket that no step touches in this step.
LEMMA TicketUntouched ==
    ASSUME IInv, [Next]_vars, NEW t \in Tickets,
           tickets'[t] = tickets[t], redeemed'[t] = redeemed[t]
    PROVE  TicketOK(t)'
  <1>1. TicketOK(t)
    BY DEF IInv
  <1>2. ASSUME Issued(t) PROVE Vetted(tickets[t].sess)'
    <2>1. tickets[t].sess \in Sessions
      BY <1>2 DEF IInv, TypeOK, Issued, TicketRows
    <2> QED
      BY <1>1, <1>2, <2>1, VettedStays DEF IInv, TicketOK, Vetted
  <1> QED
    BY <1>1, <1>2 DEF TicketOK, Issued

LEMMA TicketsKept ==
    ASSUME IInv, [Next]_vars, NEW t \in Tickets
    PROVE  TicketOK(t)'
  <1>0. /\ TypeOK /\ tickets[t] \in TicketRows \cup {UnusedTicket}
        /\ redeemed[t] \in Nat /\ TicketOK(t)
    BY DEF IInv, TypeOK
  <1>1. ASSUME NEW r \in Requests, IssueTicket(r) PROVE TicketOK(t)'
    <2>1. req[r] \in ReqRecords /\ req[r] # Idle
      BY <1>0, <1>1 DEF IssueTicket, FreshTicket, TypeOK, At, Idle
    <2>2. req[r].sess \in Sessions /\ Vetted(req[r].sess)
      BY <1>1, <2>1 DEF IssueTicket, FreshTicket, At, IInv, RequestOK, Linked, ReqRecords
    <2>3. PICK x \in Tickets :
            /\ tickets[x] = UnusedTicket
            /\ tickets' = [tickets EXCEPT ![x] =
                             [st |-> "open", sess |-> req[r].sess,
                              svc |-> req[r].svc]]
      BY <1>1 DEF IssueTicket, FreshTicket
    <2>4. redeemed' = redeemed
      BY <1>1 DEF IssueTicket, FreshTicket
    <2>5. CASE t = x
      <3>1. tickets'[t].st = "open" /\ tickets'[t].sess = req[r].sess
        BY <1>0, <2>3, <2>5 DEF TypeOK
      <3>2. redeemed[t] = 0
        BY <1>0, <2>3, <2>5 DEF TicketOK, UnusedTicket
      <3>3. Vetted(tickets[t].sess)'
        BY <1>0, <2>2, <3>1, VettedStays DEF Vetted
      <3> QED
        BY <2>4, <3>1, <3>2, <3>3 DEF TicketOK
    <2>6. CASE t # x
      BY <1>0, <2>3, <2>4, <2>6, TicketUntouched DEF TypeOK
    <2> QED
      BY <2>5, <2>6
  <1>2. ASSUME NEW r \in Requests, Redeem(r) PROVE TicketOK(t)'
    <2>1. CASE t = req[r].tk
      <3>1. tickets[t].st \in {"open", "expired"} /\ Issued(t)
        BY <1>2, <2>1 DEF Redeem, Swaps, Issued, UnusedTicket
      <3>2. redeemed[t] = 0
        BY <1>0, <3>1 DEF TicketOK
      <3>3. tickets'[t].st = "consumed" /\ redeemed'[t] \in {0, 1}
        BY <1>0, <1>2, <2>1, <3>1, <3>2 DEF Redeem, TypeOK, TicketRows, Issued
      <3>4. tickets[t].sess \in Sessions /\ tickets'[t].sess = tickets[t].sess
        BY <1>0, <3>1, TicketsStay DEF Issued, TicketRows
      <3>5. Vetted(tickets[t].sess)'
        BY <1>0, <3>1, <3>4, VettedStays DEF TicketOK, Vetted
      <3> QED
        BY <3>3, <3>5 DEF TicketOK
    <2>2. CASE t # req[r].tk
      BY <1>0, <1>2, <2>2, TicketUntouched DEF Redeem, TypeOK
    <2> QED
      BY <2>1, <2>2
  <1>3. CASE UNCHANGED Tables
    BY <1>3, TicketUntouched DEF Tables
  <1>4. CASE Administrators
    BY <1>4, TicketUntouched, OnlyRequestsAndTimeTouchTickets
  <1>5. CASE TimePasses
    <2>1. ASSUME NEW s \in Sessions, SignIn(s) \/ EndSession(s) PROVE TicketOK(t)'
      BY <2>1, TicketUntouched DEF SignIn, EndSession
    <2>2. ASSUME NEW x \in Tickets, ExpireTicket(x), x # t PROVE TicketOK(t)'
      BY <1>0, <2>2, TicketUntouched DEF ExpireTicket, TypeOK
    <2>3. CASE ExpireTicket(t)
      <3>1. Issued(t) /\ tickets[t].st = "open"
        BY <2>3 DEF ExpireTicket, Issued, UnusedTicket
      <3>2. tickets[t].sess \in Sessions /\ tickets'[t].sess = tickets[t].sess
        BY <1>0, <3>1, TicketsStay DEF Issued, TicketRows
      <3>3. Vetted(tickets[t].sess)'
        BY <1>0, <3>1, <3>2, VettedStays DEF TicketOK, Vetted
      <3> QED
        BY <1>0, <2>3, <3>1, <3>3 DEF TicketOK, ExpireTicket
    <2> QED
      BY <1>5, <2>1, <2>2, <2>3 DEF TimePasses
  <1> QED
    BY <1>0, <1>1, <1>2, <1>3, <1>4, <1>5, TablesChange

LEMMA CookiesKept ==
    ASSUME IInv, [Next]_vars, NEW c \in cookies'
    PROVE  CookieOK(c)'
  <1>0. TypeOK
    BY DEF IInv
  <1>1. CASE c \in cookies
    <2>1. PICK t \in Tickets :
            tickets[t] = [st |-> "consumed", sess |-> c.sess, svc |-> c.svc]
      BY <1>1 DEF IInv, CookieOK, Consumed
    <2>2. tickets'[t] = tickets[t]
      BY <1>0, <2>1, TicketsStay DEF Issued, UnusedTicket
    <2> QED
      BY <2>1, <2>2 DEF CookieOK, Consumed
  <1>2. CASE c \notin cookies
    <2>1. PICK r \in Requests : Redeem(r)
      <3>1. cookies' # cookies
        BY <1>2
      <3>2. ~UNCHANGED Tables /\ ~Administrators /\ ~TimePasses
        BY <3>1, OnlyRequestsAndTimeTouchTickets
        DEF Tables, TimePasses, SignIn, EndSession, ExpireTicket
      <3> QED
        BY <1>0, <3>1, <3>2, TablesChange DEF IssueTicket, FreshTicket
    <2>2. /\ req[r] \in ReqRecords /\ req[r].kind = "bootstrap"
          /\ req[r].ph = "granted" /\ Linked(req[r])
      BY <1>0, <2>1 DEF Redeem, TypeOK, At, Idle, IInv, RequestOK
    <2> DEFINE t == req[r].tk
    <2>3. /\ t \in Tickets /\ Issued(t)
          /\ tickets[t].sess = req[r].sess /\ tickets[t].svc = req[r].svc
      BY <2>2 DEF Linked
    <2>4. c = [sess |-> req[r].sess, svc |-> req[r].svc]
      BY <1>2, <2>1 DEF Redeem
    <2>5. tickets'[t] = [tickets[t] EXCEPT !.st = "consumed"]
      BY <1>0, <2>1, <2>3 DEF Redeem, TypeOK
    <2>6. tickets[t] \in TicketRows
      BY <1>0, <2>3 DEF TypeOK, Issued
    <2>7. tickets'[t] = [st |-> "consumed", sess |-> c.sess, svc |-> c.svc]
      BY <2>3, <2>4, <2>5, <2>6 DEF TicketRows
    <2> QED
      BY <2>3, <2>7 DEF CookieOK, Consumed
  <1> QED
    BY <1>1, <1>2

-----------------------------------------------------------------------------
(* The theorems.                                                           *)

\* The invariant holds of every reachable state.
THEOREM Invariance == Spec => []IInv
<1>1. IInv /\ [Next]_vars => IInv'
  BY TypeKept, RequestsKept, TicketsKept, CookiesKept DEF IInv
<1> QED
  BY <1>1, InitInv, PTL DEF Spec

\* The tables, the requests and their history keep their types.
THEOREM TypeCorrect == Spec => []TypeOK
<1>1. IInv => TypeOK
  BY DEF IInv
<1> QED
  BY <1>1, Invariance, PTL

\* No request takes effect on the strength of a right that was gone before it
\* arrived, whatever the administrators change between its reads.
THEOREM RequestsAreAuthorized == Spec => []AuthorizedSinceArrival
<1>1. IInv => AuthorizedSinceArrival
  <2> SUFFICES ASSUME IInv, NEW r \in Requests, At(r, "granted")
               PROVE  Required(req[r].kind) \subseteq held[r]
    BY DEF AuthorizedSinceArrival
  <2>1. Passed(req[r], held[r])
    BY DEF IInv, RequestOK, At, Idle
  <2> QED
    BY <2>1 DEF Passed, Required, Conditions, At
<1> QED
  BY <1>1, Invariance, PTL

\* One ticket, at most one cookie, however many requests race for it.
THEOREM OneCookiePerTicket == Spec => []TicketsAreRedeemedOnce
<1>1. IInv => TicketsAreRedeemedOnce
  BY DEF IInv, TicketOK, TicketsAreRedeemedOnce
<1> QED
  BY <1>1, Invariance, PTL

\* A service host forwards only for a session that was launched into it.
THEOREM NoForwardWithoutLaunch == Spec => []ForwardedAfterLaunch
<1>1. IInv => ForwardedAfterLaunch
  <2> SUFFICES ASSUME IInv, NEW r \in Requests, At(r, "granted"),
                      req[r].kind \in {"forward", "socket"}
               PROVE  Consumed(req[r].sess, req[r].svc)
    BY DEF ForwardedAfterLaunch
  <2>1. Linked(req[r])
    BY DEF IInv, RequestOK, At, Idle
  <2> DEFINE c == [sess |-> req[r].sess, svc |-> req[r].svc]
  <2>2. CookieOK(c)
    BY <2>1 DEF Linked, IInv
  <2> QED
    BY <2>2 DEF CookieOK
<1> QED
  BY <1>1, Invariance, PTL

\* The credential check of the portal covers the service hosts too.
THEOREM CookiesImplyAPassword == Spec => []CookieOwnersChoseTheirPassword
<1>1. IInv => CookieOwnersChoseTheirPassword
  <2> SUFFICES ASSUME IInv, NEW c \in cookies PROVE Vetted(c.sess)
    BY DEF CookieOwnersChoseTheirPassword, Vetted
  <2>1. PICK t \in Tickets :
          tickets[t] = [st |-> "consumed", sess |-> c.sess, svc |-> c.svc]
    BY DEF IInv, CookieOK, Consumed
  <2> QED
    BY <2>1 DEF IInv, TicketOK, Issued, UnusedTicket
<1> QED
  BY <1>1, Invariance, PTL
=============================================================================

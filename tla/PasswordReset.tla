--------------------------- MODULE PasswordReset ---------------------------
(***************************************************************************)
(* Password resets: an administrator has a link mailed to a user, and the  *)
(* link sets one new password.  Each SELECT of a request and each of its   *)
(* transactions is a step; the mail is sent between two transactions.      *)
(* Accounts are removed and created, and people sign in, at the same time. *)
(*                                                                         *)
(* The checks of the administrator and of the target's revision come       *)
(* before the first step here and are those of UserAdmin.                  *)
(***************************************************************************)
EXTENDS Naturals, FiniteSets

CONSTANTS
    Ids,            \* the ids that the users table gives out
    People,         \* the accounts that may be created, each of them once
    Nobody,         \* whom an id without a row belongs to
    Links,          \* the reset secrets that may be drawn
    NoLink,         \* a secret nobody drew; a password set without a link
    Keys,           \* the ids that password_reset_requests gives out
    Operators,      \* request slots that run administrators' resets
    Visitors,       \* request slots of people without a session
    MaxSessions     \* bound: live sessions at a time

NoId == 0

ASSUME IdsAssumption == Ids \subseteq Nat \ {NoId}

ASSUME KeysAssumption == Keys \subseteq Nat \ {NoId}

ASSUME NobodyAssumption == Nobody \notin People

ASSUME NoLinkAssumption == NoLink \notin Links

ASSUME SlotsAssumption == IsFiniteSet(Operators) /\ IsFiniteSet(Visitors)

VARIABLES
    holder,         \* the users table: whose account has which id
    born,           \* the accounts that were created
    password,       \* for each id, the link that its password was set with
    sessions,       \* live sessions: the id and the password that opened them
    links,          \* the password_reset_requests table
    req,            \* what each request slot is doing
    uses            \* history: the passwords set with each link

vars == <<holder, born, password, sessions, links, req, uses>>

Passwords == Links \cup {NoLink}

\* A row of password_reset_requests with its id (`key`); `for` is a history
\* of the row: whose account had the user id when the row was inserted.
LinkRows ==
    [st : {"unused", "row", "deleted"}, key : Keys \cup {NoId},
     id : Ids \cup {NoId},
     for : People \cup {Nobody},
     marks : SUBSET {"consumed", "invalidated", "expired"}, mailed : BOOLEAN]

UnusedLink ==
    [st |-> "unused", key |-> NoId, id |-> NoId, for |-> Nobody,
     marks |-> {}, mailed |-> FALSE]

Requests == Operators \cup Visitors

Phases ==
    {"idle",
     "target",      \* the administrator may reset this account
     "active",      \* initiate_reset read the target's active requests
     "sending",     \* ... and committed the new one
     "failed",      \* ... whose delivery failed
     "presented",   \* a link came back
     "link",        \* complete_reset found its request usable
     "owner",       \* ... and read the account
     "signing"}     \* authenticate accepted a password

ReqRecords ==
    [ph : Phases, id : Ids \cup {NoId}, link : Passwords, seen : SUBSET Links,
     pw : Passwords]

Idle ==
    [ph |-> "idle", id |-> NoId, link |-> NoLink, seen |-> {}, pw |-> NoLink]

TypeOK ==
    /\ holder \in [Ids -> People \cup {Nobody}]
    /\ born \subseteq People
    /\ password \in [Ids -> Passwords]
    /\ sessions \subseteq Ids \X Passwords
    /\ links \in [Links -> LinkRows]
    /\ req \in [Requests -> ReqRecords]
    /\ uses \in [Links -> Nat]

Init ==
    /\ holder = [u \in Ids |-> Nobody] /\ born = {}
    /\ password = [u \in Ids |-> NoLink]
    /\ sessions = {}
    /\ links = [l \in Links |-> UnusedLink]
    /\ req = [r \in Requests |-> Idle]
    /\ uses = [l \in Links |-> 0]

At(r, ph) == req[r].ph = ph

Becomes(r, q) == req' = [req EXCEPT ![r] = q]

Goto(r, ph) == Becomes(r, [req[r] EXCEPT !.ph = ph])

Done(r) == Becomes(r, Idle)

Tables == <<holder, born, password, sessions, links, uses>>

-----------------------------------------------------------------------------
UsableThoughConsumed(l) ==
    links[l].st = "row" /\ links[l].marks \subseteq {"consumed"}

\* _active_request: known, not consumed, not invalidated, not expired.
Usable(l) == links[l].st = "row" /\ links[l].marks = {}

NoActiveLinks(u) == {}

\* The requests that initiate_reset supersedes.
ActiveLinks(u) ==
    {l \in Links : /\ links[l].st = "row" /\ links[l].id = u
                   /\ links[l].marks \subseteq {"expired"}}

MarkedInstead(row, m) == [row EXCEPT !.marks = {m}]

\* The ORM writes the one column that was assigned.
Marked(row, m) == [row EXCEPT !.marks = @ \cup {m}]

\* The rows that UPDATE ... WHERE id = ? finds when it writes requests that
\* were read as ls.
RowsFound(ls) ==
    {k \in Links : /\ links[k].st = "row"
                   /\ \E l \in ls : links[k].key = links[l].key}

\* An UPDATE that finds no row fails the flush.
Found(l) == RowsFound({l}) # {}

Marking(ls, m) ==
    [k \in Links |-> IF k \in RowsFound(ls) THEN Marked(links[k], m)
                     ELSE links[k]]

\* SQLite gives out the id after the largest one that is there.
IsNextKey(n) ==
    /\ \A l \in Links : links[l].st = "row" => links[l].key < n
    /\ n = 1 \/ \E l \in Links : links[l].st = "row" /\ links[l].key = n - 1

SessionsKept(u) == sessions

\* revoke_user_sessions and the DELETE of delete_user.
SessionsEnded(u) == {x \in sessions : x[1] # u}

-----------------------------------------------------------------------------
(* initiate_reset.                                                         *)

StartReset(o) ==
    /\ At(o, "idle")
    /\ \E u \in Ids :
         /\ holder[u] # Nobody
         /\ Becomes(o, [Idle EXCEPT !.ph = "target", !.id = u])
    /\ UNCHANGED Tables

ReadActiveLinks(o) ==
    /\ At(o, "target")
    /\ Becomes(o, [req[o] EXCEPT !.ph = "active",
                                 !.seen = ActiveLinks(req[o].id)])
    /\ UNCHANGED Tables

\* Invalidates the requests that were read and inserts one; no foreign key
\* asks whether the account is still there.
InsertLink(o) ==
    LET q == req[o] IN
    /\ At(o, "active")
    /\ \A l \in q.seen : Found(l)
    /\ \E new \in Links, n \in Keys :
         /\ links[new] = UnusedLink /\ IsNextKey(n)
         /\ links' = [Marking(q.seen, "invalidated") EXCEPT
                ![new] = [UnusedLink EXCEPT !.st = "row", !.key = n,
                                            !.id = q.id, !.for = holder[q.id]]]
         /\ Becomes(o, [q EXCEPT !.ph = "sending", !.link = new])
    /\ UNCHANGED <<holder, born, password, sessions, uses>>

\* The mail leaves, and the request is over.
Deliver(o) ==
    /\ At(o, "sending")
    /\ links' = [links EXCEPT ![req[o].link].mailed = TRUE]
    /\ Done(o)
    /\ UNCHANGED <<holder, born, password, sessions, uses>>

\* send raises, before or after the server took the mail.
FailToDeliver(o) ==
    /\ At(o, "sending")
    /\ \E out \in BOOLEAN :
         links' = [links EXCEPT ![req[o].link].mailed = out]
    /\ Goto(o, "failed")
    /\ UNCHANGED <<holder, born, password, sessions, uses>>

\* The new request is invalidated in a transaction of its own.
Withdraw(o) ==
    LET l == req[o].link IN
    /\ At(o, "failed") /\ Found(l)
    /\ links' = Marking({l}, "invalidated")
    /\ Done(o)
    /\ UNCHANGED <<holder, born, password, sessions, uses>>

-----------------------------------------------------------------------------
(* complete_reset.                                                         *)

\* A link from a mail, or a secret that no request has (any more).
PresentLink(v) ==
    /\ At(v, "idle")
    /\ \E l \in {k \in Links : links[k].mailed} \cup {NoLink} :
         Becomes(v, [Idle EXCEPT !.ph = "presented", !.link = l])
    /\ UNCHANGED Tables

ReadLink(v) ==
    LET l == req[v].link IN
    /\ At(v, "presented")
    /\ l # NoLink /\ Usable(l)
    /\ Becomes(v, [req[v] EXCEPT !.ph = "link", !.id = links[l].id])
    /\ UNCHANGED Tables

ReadOwner(v) ==
    /\ At(v, "link")
    /\ holder[req[v].id] # Nobody
    /\ Goto(v, "owner")
    /\ UNCHANGED Tables

\* One flush updates the account and the request, and the sessions are read
\* and revoked under its write lock.
CompleteReset(v) ==
    LET u == req[v].id  l == req[v].link IN
    /\ At(v, "owner")
    /\ holder[u] # Nobody /\ Found(l)
    /\ password' = [password EXCEPT ![u] = l]
    /\ links' = Marking({l}, "consumed")
    /\ sessions' = SessionsEnded(u)
    /\ uses' = [uses EXCEPT ![l] = @ + 1]
    /\ Done(v)
    /\ UNCHANGED <<holder, born>>

-----------------------------------------------------------------------------
(* What runs beside.                                                       *)

\* authenticate: the password was right when it was compared.
CheckPassword(v) ==
    /\ At(v, "idle")
    /\ \E u \in Ids :
         /\ holder[u] # Nobody
         /\ Becomes(v, [Idle EXCEPT !.ph = "signing", !.id = u,
                                    !.pw = password[u]])
    /\ UNCHANGED Tables

\* create_session.
OpenSession(v) ==
    /\ At(v, "signing") /\ Cardinality(sessions) < MaxSessions
    /\ sessions' = sessions \cup {<<req[v].id, req[v].pw>>}
    /\ Done(v)
    /\ UNCHANGED <<holder, born, password, links, uses>>

\* Sign-out, expiry, or another revocation.
EndSession ==
    /\ \E x \in sessions : sessions' = sessions \ {x}
    /\ UNCHANGED <<holder, born, password, links, req, uses>>

\* create_user; the id is larger than those that are there.
CreateAccount(u) ==
    /\ \A w \in Ids : holder[w] # Nobody => w < u
    /\ holder[u] = Nobody
    /\ \E p \in People \ born :
         /\ holder' = [holder EXCEPT ![u] = p]
         /\ born' = born \cup {p}
    /\ password' = [password EXCEPT ![u] = NoLink]
    /\ UNCHANGED <<sessions, links, req, uses>>

LinksKept(u) == links

\* What is left of a deleted row is what requests have read of it.
Gone(row) == [UnusedLink EXCEPT !.st = "deleted", !.key = row.key, !.id = row.id]

\* DELETE FROM password_reset_requests WHERE user_id = u.
LinksDeleted(u) ==
    [l \in Links |-> IF links[l].id = u THEN Gone(links[l]) ELSE links[l]]

\* delete_user.
DeleteAccount(u) ==
    /\ holder[u] # Nobody
    /\ holder' = [holder EXCEPT ![u] = Nobody]
    /\ links' = LinksDeleted(u)
    /\ sessions' = SessionsEnded(u)
    /\ password' = [password EXCEPT ![u] = NoLink]
    /\ UNCHANGED <<born, req, uses>>

\* The lifetime of a link passes.
ExpireLink(l) ==
    /\ Usable(l)
    /\ links' = [links EXCEPT ![l] = Marked(links[l], "expired")]
    /\ UNCHANGED <<holder, born, password, sessions, req, uses>>

\* A check or a statement fails, or the process is gone; the mail that was
\* to be sent is not.
Abandon(r) ==
    /\ ~At(r, "idle")
    /\ Done(r)
    /\ UNCHANGED Tables

Initiate(o) ==
    \/ StartReset(o) \/ ReadActiveLinks(o) \/ InsertLink(o)
    \/ Deliver(o) \/ FailToDeliver(o) \/ Withdraw(o)

Complete(v) ==
    PresentLink(v) \/ ReadLink(v) \/ ReadOwner(v) \/ CompleteReset(v)

SignIn(v) == CheckPassword(v) \/ OpenSession(v)

Next ==
    \/ \E o \in Operators : Initiate(o)
    \/ \E v \in Visitors : Complete(v) \/ SignIn(v)
    \/ \E r \in Requests : Abandon(r)
    \/ \E u \in Ids : CreateAccount(u) \/ DeleteAccount(u)
    \/ \E l \in Links : ExpireLink(l)
    \/ EndSession

Spec == Init /\ [][Next]_vars

-----------------------------------------------------------------------------
(* Properties.                                                             *)

\* initiate_reset and complete_reset write rows that they read before: when
\* both write one row, the table still tells that the link set a password.
UsedLinksAreConsumed ==
    \A l \in Links :
        uses[l] > 0 /\ links[l].st = "row" => "consumed" \in links[l].marks

\* delete_user removes the links of the account with it: a link that was made
\* for an account is not there when the id belongs to the next one.
LinksLeaveWithTheirAccount ==
    \A l \in Links :
        links[l].st = "row" /\ links[l].for # Nobody
            => holder[links[l].id] = links[l].for

\* A reset leaves no session that was opened with the replaced password: such
\* a session comes only from a sign-in that compared it before.
ResetsEndSessions ==
    [][\A x \in sessions' :
         holder' = holder /\ x[2] # password'[x[1]]
             => x \notin sessions \/ x[2] # password[x[1]]]_vars

UsableLinks(u) == {l \in Links : Usable(l) /\ links[l].id = u}

\* The completions that found l usable and have not yet set a password.
Racing(l) ==
    {v \in Visitors : (At(v, "link") \/ At(v, "owner")) /\ req[v].link = l}

\* initiate_reset reads the active requests before the transaction that
\* supersedes them, so resets that run at once may each leave one; a user has
\* never more usable links than resets that can run at once, however many
\* follow each other, fail to deliver, expire or lose their account.
NoMoreLinksThanResetsAtOnce ==
    \A u \in Ids : Cardinality(UsableLinks(u)) <= Cardinality(Operators)

\* complete_reset checks the link before the transaction that consumes it: a
\* used link is refused to whoever comes later, so besides the first only the
\* completions that were already past the check can set a password with it.
NoMorePasswordsThanRacers ==
    \A l \in Links :
        uses[l] > 0 => uses[l] + Cardinality(Racing(l)) <= Cardinality(Visitors)

=============================================================================

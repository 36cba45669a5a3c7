----------------------------- MODULE UserAdmin ------------------------------
(***************************************************************************)
(* User administration: the web and CLI requests that create, change and   *)
(* delete accounts, the sign-ins, sign-outs and first password changes     *)
(* that run beside them, and the tables they share.                        *)
(*                                                                         *)
(* Every request runs on its own database session (repositories/           *)
(* database.py).  Its SELECTs run outside a transaction, so each sees what *)
(* is committed at that moment; its first INSERT, UPDATE or DELETE takes   *)
(* SQLite's write lock, which it keeps until it commits.  A handler is     *)
(* therefore one action per read and one action for its whole transaction, *)
(* and other requests step in between.  Whatever refuses, fails or kills a *)
(* request before its commit leaves the tables alone: that is Abandon.     *)
(***************************************************************************)
EXTENDS Accounts

CONSTANTS
    Operators,      \* request slots that run administrators' operations
    Visitors,       \* request slots that sign in, sign out, set a password
    Forms,          \* the operations that may be asked for
    InitialUsers,   \* the users tables an installation may start from
    MaxRevision     \* bound: a row at this revision is not changed again

AdminOps == {"rename", "profile", "status", "delete", "memberships", "create"}

VisitorOps == {"sign_out", "change_password"}

\* The CLI has no command for deleting an account.
CliOps == AdminOps \ {"delete"}

AllForms ==
    [op : AdminOps \cup VisitorOps, admin : BOOLEAN, st : Statuses,
     groups : SUBSET Groups]

ASSUME FormsAssumption == Forms \subseteq AllForms

ASSUME MaxRevisionAssumption == MaxRevision \in Nat

\* An installation starts with the administrator bootstrap created.
ASSUME InitialUsersAssumption ==
    /\ InitialUsers \subseteq [UserIds -> UserRows]
    /\ \A t \in InitialUsers : \E u \in UserIds : UsableAdmin(t[u])

NoForm == [op |-> "rename", admin |-> FALSE, st |-> "active", groups |-> {}]

VARIABLES
    users,          \* the users table
    memberOf,       \* group_memberships: the groups of each user id
    sessions,       \* the sessions table
    req             \* what each request slot is doing

vars == <<users, memberOf, sessions, req>>

Requests == Operators \cup Visitors

Phases ==
    {"idle",            \* no request
     "opened",          \* sent, its form loaded at revision rev
     "cookie",          \* validate_session read a live session
     "identified",      \* ... and an active user
     "authenticated",   \* ... and committed last_seen_at
     "rechecked",       \* require_admin_actor passed
     "loaded",          \* the target was read and is at revision rev
     "cleared",         \* every check passed, the write comes next
     "signing"}         \* authenticate() accepted a password

ReqRecords ==
    [ph : Phases, form : AllForms, target : UserIds \cup {NoUser}, rev : Nat,
     sess : SessionIds \cup {NoSession}, actor : UserIds \cup {NoUser},
     seen : UserRows]

Idle ==
    [ph |-> "idle", form |-> NoForm, target |-> NoUser, rev |-> 0,
     sess |-> NoSession, actor |-> NoUser, seen |-> AbsentRow]

TypeOK ==
    /\ users \in [UserIds -> UserRows]
    /\ memberOf \in [UserIds -> SUBSET Groups]
    /\ sessions \in [SessionIds -> SessionRows]
    /\ req \in [Requests -> ReqRecords]

Init ==
    /\ users \in InitialUsers
    /\ memberOf = [u \in UserIds |-> {}]
    /\ sessions = [s \in SessionIds |-> UnusedSession]
    /\ req = [r \in Requests |-> Idle]

At(r, ph) == req[r].ph = ph

Asks(r, op) == req[r].form.op = op

\* Only the record of request r changes.
Becomes(r, q) == req' = [req EXCEPT ![r] = q]

Done(r) == Becomes(r, Idle)

Goto(r, ph) ==
    /\ Becomes(r, [req[r] EXCEPT !.ph = ph])
    /\ UNCHANGED <<users, memberOf, sessions>>

-----------------------------------------------------------------------------
(* Arrival: a page or the CLI operator shows the target at a revision, and *)
(* the form that comes back carries it as expected_revision.               *)

OpenTargeted(r, f, u, s) ==
    /\ Present(users, u)
    /\ Becomes(r, [Idle EXCEPT !.ph = "opened", !.form = f, !.target = u,
                               !.rev = users[u].rev, !.sess = s])

OpenUntargeted(r, f, s) ==
    Becomes(r, [Idle EXCEPT !.ph = "opened", !.form = f, !.sess = s])

\* A browser sends the cookie of a session it was given at some time.
OpenInBrowser(r) ==
    /\ At(r, "idle")
    /\ \E f \in Forms, s \in SessionIds :
         /\ sessions[s].st # "unused"
         /\ f.op \in (IF r \in Operators THEN AdminOps ELSE {})
                     \cup (IF r \in Visitors THEN VisitorOps ELSE {})
         /\ IF f.op \in AdminOps \ {"create"}
            THEN \E u \in UserIds : OpenTargeted(r, f, u, s)
            ELSE OpenUntargeted(r, f, s)
    /\ UNCHANGED <<users, memberOf, sessions>>

OpenOnCommandLine(r) ==
    /\ At(r, "idle") /\ r \in Operators
    /\ \E f \in Forms :
         /\ f.op \in CliOps
         /\ IF f.op = "create" THEN OpenUntargeted(r, f, NoSession)
            ELSE \E u \in UserIds : OpenTargeted(r, f, u, NoSession)
    /\ UNCHANGED <<users, memberOf, sessions>>

-----------------------------------------------------------------------------
(* Who is asking.                                                          *)

\* validate_session, its first read: the session is live.
ReadCookie(r) ==
    /\ At(r, "opened") /\ req[r].sess # NoSession
    /\ sessions[req[r].sess].st = "live"
    /\ Becomes(r, [req[r] EXCEPT !.ph = "cookie",
                                 !.actor = sessions[req[r].sess].user])
    /\ UNCHANGED <<users, memberOf, sessions>>

\* validate_session, its second read: the user is active.  The identity it
\* returns is what require_admin and change_password judge later.
ReadUser(r) ==
    LET row == users[req[r].actor] IN
    /\ At(r, "cookie")
    /\ req[r].actor # NoUser /\ row.st = "active"
    /\ req[r].form.op \in AdminOps => UsableAdmin(row)
    /\ Asks(r, "change_password") => row.cred = "temporary"
    /\ Becomes(r, [req[r] EXCEPT !.ph = "identified",
                                 !.seen = IF Asks(r, "change_password")
                                          THEN row ELSE AbsentRow])
    /\ UNCHANGED <<users, memberOf, sessions>>

\* validate_session writes last_seen_at; the row must still be there.
TouchSession(r) ==
    /\ At(r, "identified")
    /\ sessions[req[r].sess].st # "deleted"
    /\ sessions' = Touched(sessions, req[r].sess)
    /\ Becomes(r, [req[r] EXCEPT !.ph = "authenticated"])
    /\ UNCHANGED <<users, memberOf>>

\* authenticate_cli_actor: the operator types an administrator's password.
CliSignIn(r) ==
    /\ At(r, "opened") /\ req[r].sess = NoSession
    /\ \E a \in UserIds :
         /\ UsableAdmin(users[a])
         /\ Becomes(r, [req[r] EXCEPT !.ph = "authenticated", !.actor = a])
    /\ UNCHANGED <<users, memberOf, sessions>>

-----------------------------------------------------------------------------
(* The checks of an administrator's operation, each its own SELECT.        *)

\* require_admin_actor reads the actor again.
RecheckActor(r) ==
    /\ At(r, "authenticated") /\ req[r].form.op \in AdminOps
    /\ UsableAdmin(users[req[r].actor])
    /\ Goto(r, "rechecked")

\* _target_for_change, and the first read of change_memberships.
LoadTarget(r) ==
    LET row == users[req[r].target] IN
    /\ At(r, "rechecked") /\ ~Asks(r, "create")
    /\ row.st # "absent" /\ row.rev = req[r].rev
    /\ row.rev < MaxRevision
    /\ Becomes(r, [req[r] EXCEPT !.ph = "loaded", !.seen = row])
    /\ UNCHANGED <<users, memberOf, sessions>>

\* The operation of record q takes rights away, by the row it read.
Losing(q) ==
    LET f == q.form  seen == q.seen IN
    \/ f.op = "profile" /\ ~f.admin /\ seen.admin
    \/ f.op = "status" /\ f.st = "disabled" /\ seen.st = "active"
    \/ f.op = "delete" /\ (seen.admin \/ seen.st = "active")

\* The operation would change nothing: it answers no_change.
NoChange(r) ==
    LET f == req[r].form IN
    \/ f.op = "status" /\ f.st = req[r].seen.st
    \/ f.op = "memberships" /\ f.groups = memberOf[req[r].target]

\* _protect_admin_change counts the other administrators; change_memberships
\* compares the memberships; create_user looks the e-mail and groups up.
ClearChecks(r) ==
    /\ IF Asks(r, "create") THEN At(r, "rechecked") ELSE At(r, "loaded")
    /\ MayLoseAdmin(users, req[r].actor, req[r].target, req[r].seen,
                    Losing(req[r]))
    /\ ~NoChange(r)
    /\ Goto(r, "cleared")

-----------------------------------------------------------------------------
(* The write transactions, from the first statement to the commit.  An     *)
(* UPDATE of a mapped row that is gone fails the flush (StaleDataError).   *)

CommitProfile(r) ==
    LET f == req[r].form  u == req[r].target  seen == req[r].seen IN
    /\ At(r, "cleared") /\ f.op \in {"rename", "profile"}
    /\ Present(users, u)
    /\ IF f.op = "rename" \/ f.admin = seen.admin
       THEN /\ users' = [users EXCEPT ![u] = Renamed(users[u], seen)]
            /\ UNCHANGED sessions
       ELSE /\ users' = [users EXCEPT ![u] = WithAdmin(users[u], seen, f.admin)]
            /\ sessions' = Revoked(sessions, u)
    /\ Done(r)
    /\ UNCHANGED memberOf

CommitStatus(r) ==
    LET f == req[r].form  u == req[r].target IN
    /\ At(r, "cleared") /\ f.op = "status"
    /\ Present(users, u)
    /\ users' = [users EXCEPT ![u] = WithStatus(users[u], req[r].seen, f.st)]
    /\ sessions' = IF f.st = "disabled" THEN Revoked(sessions, u) ELSE sessions
    /\ Done(r)
    /\ UNCHANGED memberOf

\* The DELETE statements match by id; a row that is already gone is only
\* warned about.
CommitDelete(r) ==
    LET u == req[r].target IN
    /\ At(r, "cleared") /\ Asks(r, "delete")
    /\ users' = [users EXCEPT ![u] = AbsentRow]
    /\ memberOf' = [memberOf EXCEPT ![u] = {}]
    /\ sessions' = Deleted(sessions, u)
    /\ Done(r)

SwapsAtAnyRevision(r, row) == row.st # "absent"

\* The one write that compares: UPDATE ... WHERE id = u AND revision = rev.
SwapsAt(r, row) == row.st # "absent" /\ row.rev = req[r].rev

CommitMemberships(r) ==
    LET u == req[r].target IN
    /\ At(r, "cleared") /\ Asks(r, "memberships")
    /\ SwapsAt(r, users[u])
    /\ users' = [users EXCEPT ![u] = Counted(users[u])]
    /\ memberOf' = [memberOf EXCEPT ![u] = req[r].form.groups]
    /\ Done(r)
    /\ UNCHANGED sessions

\* INSERT INTO users, then the memberships of the new id.
CommitCreate(r) ==
    LET f == req[r].form IN
    /\ At(r, "cleared") /\ f.op = "create"
    /\ \E u \in UserIds :
         /\ IsNextId(users, u)
         /\ users' = [users EXCEPT ![u] = Created(f.st, f.admin)]
         /\ memberOf' = [memberOf EXCEPT ![u] = @ \cup f.groups]
    /\ Done(r)
    /\ UNCHANGED sessions

-----------------------------------------------------------------------------
(* Visitors: sign in, sign out, replace the temporary password.            *)

\* authenticate() accepts the password of a user that is active.
Authenticate(r) ==
    /\ At(r, "idle") /\ r \in Visitors
    /\ \E u \in UserIds :
         /\ users[u].st = "active"
         /\ Becomes(r, [Idle EXCEPT !.ph = "signing", !.actor = u])
    /\ UNCHANGED <<users, memberOf, sessions>>

\* create_session inserts a fresh token; SQLite enforces no foreign key.
CreateSession(r) ==
    /\ At(r, "signing")
    /\ \E s \in SessionIds :
         /\ sessions[s].st = "unused"
         /\ sessions' = [sessions EXCEPT ![s] = [user |-> req[r].actor,
                                                 st |-> "live"]]
    /\ Done(r)
    /\ UNCHANGED <<users, memberOf>>

\* change_password writes through the identity the session check returned.
CommitPassword(r) ==
    LET u == req[r].actor IN
    /\ At(r, "authenticated") /\ Asks(r, "change_password")
    /\ Present(users, u) /\ req[r].seen.rev < MaxRevision
    /\ users' = [users EXCEPT ![u] = WithPassword(users[u], req[r].seen)]
    /\ Done(r)
    /\ UNCHANGED <<memberOf, sessions>>

\* sign_out revokes the session it has just validated.
CommitSignOut(r) ==
    LET s == req[r].sess IN
    /\ At(r, "authenticated") /\ Asks(r, "sign_out")
    /\ sessions[s].st # "deleted"
    /\ sessions' = [sessions EXCEPT ![s].st = "ended"]
    /\ Done(r)
    /\ UNCHANGED <<users, memberOf>>

-----------------------------------------------------------------------------
\* A check refused, the client asked for a preview, a statement failed (a
\* lost swap, a duplicate e-mail, a locked database) or the process died.
Abandon(r) ==
    /\ ~At(r, "idle")
    /\ Done(r)
    /\ UNCHANGED <<users, memberOf, sessions>>

\* The lifetime of a session passes.
Expire(s) ==
    /\ sessions[s].st = "live"
    /\ sessions' = [sessions EXCEPT ![s].st = "ended"]
    /\ UNCHANGED <<users, memberOf, req>>

Arrive(r) == OpenInBrowser(r) \/ OpenOnCommandLine(r) \/ Authenticate(r)

Identify(r) ==
    ReadCookie(r) \/ ReadUser(r) \/ TouchSession(r) \/ CliSignIn(r)

Check(r) == RecheckActor(r) \/ LoadTarget(r) \/ ClearChecks(r)

Commit(r) ==
    \/ CommitProfile(r) \/ CommitStatus(r) \/ CommitDelete(r)
    \/ CommitMemberships(r) \/ CommitCreate(r)
    \/ CreateSession(r) \/ CommitPassword(r) \/ CommitSignOut(r)

Next ==
    \/ \E r \in Requests :
         Arrive(r) \/ Identify(r) \/ Check(r) \/ Commit(r) \/ Abandon(r)
    \/ \E s \in SessionIds : Expire(s)

Spec == Init /\ [][Next]_vars

-----------------------------------------------------------------------------
(* Properties.                                                             *)

\* Somebody is left who passes require_admin_actor: without one, nobody can
\* change an account again, and bootstrap_admin refuses a second time.
SomeUsableAdmin == \E u \in UserIds : UsableAdmin(users[u])

\* The rule of the data model: an active administrator after every mutation.
SomeActiveAdmin == \E u \in UserIds : ActiveAdmin(users[u])

\* The account with id u is the same account before and after the step.
Kept(u) == Present(users, u) /\ Present(users, u)'

\* Request r leaves its checked form behind in this step: it has committed.
Finishes(r) == At(r, "cleared") /\ At(r, "idle")'

\* In this step the account u is deleted, disabled, promoted or demoted.
RightsChange(u) ==
    /\ Present(users, u)
    /\ \/ ~Present(users, u)'
       \/ users[u].admin # users'[u].admin
       \/ users[u].st = "active" /\ users'[u].st = "disabled"

SignedOut(u) ==
    \A s \in SessionIds : sessions[s] # [user |-> u, st |-> "live"]

\* update_user, set_user_status and delete_user: when an account is disabled,
\* deleted, promoted or demoted, no session it had survives the commit, not
\* even one that was opened while the request was between its checks.
RightsChangeEndsSessions ==
    [][\A u \in UserIds : RightsChange(u) => SignedOut(u)']_vars

SessionStaysEnded(s) ==
    sessions[s].st \in {"ended", "deleted"} =>
        sessions'[s].st \in {"ended", "deleted"}

\* validate_session, revoke_user_sessions, delete_user: a session that was
\* revoked, expired or deleted is never live again, though requests that read
\* it while it was live still write to its row.
EndedSessionsStayEnded ==
    [][\A s \in SessionIds : SessionStaysEnded(s)]_vars

\* A request that asked for this very value of u's column commits.
StatusRequested(u) ==
    \E r \in Requests :
      /\ Finishes(r) /\ Asks(r, "status")
      /\ req[r].target = u /\ req[r].form.st = users'[u].st

AdminRequested(u) ==
    \E r \in Requests :
      /\ Finishes(r) /\ Asks(r, "profile")
      /\ req[r].target = u /\ req[r].form.admin = users'[u].admin

ColumnsRequested(u) ==
    Kept(u) => /\ users[u].st # users'[u].st => StatusRequested(u)
               /\ users[u].admin # users'[u].admin => AdminRequested(u)

\* update_user, set_user_status and change_password write the columns they
\* were asked to: a status or an admin flag changes only when the request that
\* commits asked for that value, so a rename, a password change or a second
\* form that read the row earlier never puts back what it had seen.
ColumnsChangeOnRequest ==
    [][\A u \in UserIds : ColumnsRequested(u)]_vars

\* In this step the account u is demoted or disabled.
Removed(u) ==
    /\ Kept(u)
    /\ \/ users[u].admin /\ ~users'[u].admin
       \/ users[u].st = "active" /\ users'[u].st = "disabled"

RemovedByAnother(u) ==
    \E r \in Requests : Finishes(r) /\ req[r].target = u /\ req[r].actor # u

\* _protect_admin_change: whatever else commits between a request's reads and
\* its write, no request takes the admin flag or the active status away from
\* the account that sent it.
NobodyRemovesThemselves ==
    [][\A u \in UserIds : Removed(u) => RemovedByAnother(u)]_vars

\* In this step u gets the memberships of one form, and is still at the
\* revision that the form was made for.
ReplacedAtItsRevision(u) ==
    \E r \in Operators :
      /\ Finishes(r) /\ req[r].target = u
      /\ req[r].form.groups = memberOf'[u]
      /\ req[r].rev = users[u].rev /\ users'[u].rev = users[u].rev + 1

\* change_memberships: a replacement of the memberships is exactly the set of
\* one form, and the account is still at the revision that form was made for.
MembershipsReplacedAtTheirRevision ==
    [][\A u \in UserIds :
         Kept(u) /\ memberOf[u] # memberOf'[u] => ReplacedAtItsRevision(u)]_vars

-----------------------------------------------------------------------------
(* What user administration promises, as one atomic change at a time.      *)

\* The account behind a row; an id without a row has none.
Account(row) ==
    LET x == IF row.st = "absent" THEN AbsentRow ELSE row
    IN  [st |-> x.st, cred |-> x.cred, admin |-> x.admin]

Directory == INSTANCE UserDirectory
    WITH Ids <- UserIds, accounts <- [u \in UserIds |-> Account(users[u])]

\* While one administrator's request runs at a time, user administration is
\* the directory of UserDirectory: each commit is one change, made by somebody
\* who is a usable administrator at that moment and stays one.
DirectorySpec == Directory!Spec

\* The step of the directory, or none, as the accounts show it.
DirectoryStep ==
    Directory!Next \/ UNCHANGED [u \in UserIds |-> Account(users[u])]

\* Request r commits although its administrator lost the rights after
\* require_admin_actor had granted them: they are gone at the commit, or were
\* gone when the request loaded its own administrator's account as target.
CommitsOvertaken(r) ==
    LET q == req[r] IN
    /\ Finishes(r)
    /\ \/ ~UsableAdmin(users[q.actor])
       \/ q.form.op # "create" /\ q.target = q.actor /\ ~UsableAdmin(q.seen)

\* user_admin_service.py with any number of administrators: a commit is one
\* change of the directory by its administrator, unless that administrator
\* was overtaken.  Stale forms, lost revisions, the count of administrators
\* and ids given out again cause no other departure.
OnlyTheOvertakenLeaveTheDirectory ==
    [][DirectoryStep \/ \E r \in Operators : CommitsOvertaken(r)]_vars

\* _protect_admin_change: the last usable administrator is removed only by a
\* request whose own administrator was removed while it ran; the race of two
\* removals is the one way to lock everybody out.
OnlyTheOvertakenRemoveTheLast ==
    [][SomeUsableAdmin /\ ~SomeUsableAdmin' =>
         \E r \in Operators : CommitsOvertaken(r)]_vars
=============================================================================

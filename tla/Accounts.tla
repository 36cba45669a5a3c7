------------------------------ MODULE Accounts ------------------------------
(***************************************************************************)
(* The rows of the users and sessions tables, and the pure part of what    *)
(* the services do to them: which columns a statement writes, and which    *)
(* guards read which rows.  An ORM flush writes only the columns that were *)
(* assigned, to the row that is in the table when the write lock is held,  *)
(* but a new revision is computed from the row the request READ, so a      *)
(* write takes both: `row` is the row in the table, `seen` the one read.   *)
(***************************************************************************)
EXTENDS Integers

CONSTANTS
    MaxUserId,      \* bound: the largest id the users table gives out
    Groups,         \* the groups (their own life cycle is not part of this)
    SessionIds,     \* the session tokens that may be drawn
    NoSession       \* the absence of a session cookie (a local CLI actor)

\* SQLite ids are positive integers; 0 stands for the absence of a user.
ASSUME MaxUserIdAssumption == MaxUserId \in Nat \ {0}

UserIds == 1..MaxUserId

\* A cookie that names no session is not a session token.
ASSUME NoSessionAssumption == NoSession \notin SessionIds

NoUser == 0

Statuses == {"active", "disabled"}

\* A row of the users table; "absent" is the status of an id with no row.
UserRows ==
    [st : Statuses \cup {"absent"}, cred : {"temporary", "active"},
     admin : BOOLEAN, rev : Nat]

AbsentRow == [st |-> "absent", cred |-> "active", admin |-> FALSE, rev |-> 0]

\* A row of the sessions table.  A revoked and an expired session are the
\* same to every reader ("ended"); "deleted" is a row that was there and no
\* longer is, "unused" a token that was never drawn.
SessionRows ==
    [user : UserIds \cup {NoUser}, st : {"unused", "live", "ended", "deleted"}]

UnusedSession == [user |-> NoUser, st |-> "unused"]

-----------------------------------------------------------------------------
(* Guards over the users table t.                                          *)

Present(t, u) == t[u].st # "absent"

\* The administrators whom _protect_admin_change counts.
ActiveAdmin(row) == row.st = "active" /\ row.admin

\* The administrators whom require_admin_actor lets in.
UsableAdmin(row) == ActiveAdmin(row) /\ row.cred = "active"

\* SQLite gives a new row the id after the largest one in the table, so the
\* id of a deleted last row is given out again.
IsNextId(t, u) ==
    /\ ~Present(t, u)
    /\ \A v \in UserIds : Present(t, v) => v < u
    /\ u = 1 \/ Present(t, u - 1)

MayLoseAdminByCountAlone(t, actor, u, seen, losing) ==
    losing /\ ActiveAdmin(seen) => \E v \in UserIds \ {u} : ActiveAdmin(t[v])

\* _protect_admin_change: nobody disables, demotes or deletes themselves, and
\* another active administrator must be in the table when it is counted.
MayLoseAdmin(t, actor, u, seen, losing) ==
    losing =>
      /\ u # actor
      /\ ActiveAdmin(seen) => \E v \in UserIds \ {u} : ActiveAdmin(t[v])

-----------------------------------------------------------------------------
(* The columns each mutation writes.                                       *)

RenamedWholeRow(row, seen) == [seen EXCEPT !.rev = seen.rev + 1]

\* update_user when only email or display name was requested.
Renamed(row, seen) == [row EXCEPT !.rev = seen.rev + 1]

\* update_user when is_admin was requested and differs from the row read.
WithAdmin(row, seen, admin) ==
    [row EXCEPT !.admin = admin, !.rev = seen.rev + 1]

\* set_user_status.
WithStatus(row, seen, st) == [row EXCEPT !.st = st, !.rev = seen.rev + 1]

\* change_password: the temporary credential is replaced.
WithPassword(row, seen) ==
    [row EXCEPT !.cred = "active", !.rev = seen.rev + 1]

\* change_memberships: UPDATE users SET revision = revision + 1.
Counted(row) == [row EXCEPT !.rev = row.rev + 1]

\* create_user: a generated password that must be replaced at first sign-in.
Created(st, admin) ==
    [st |-> st, cred |-> "temporary", admin |-> admin, rev |-> 1]

-----------------------------------------------------------------------------
(* The sessions table ss.                                                  *)

SessionsOf(ss, u) == {s \in SessionIds : ss[s].user = u}

NoneRevoked(ss, u) == ss

\* revoke_user_sessions: the SELECT autoflushes the caller's UPDATE first, so
\* the sessions are read under the write lock and none slips in between.
Revoked(ss, u) ==
    [s \in SessionIds |->
        IF s \in SessionsOf(ss, u) /\ ss[s].st = "live"
        THEN [ss[s] EXCEPT !.st = "ended"] ELSE ss[s]]

\* DELETE FROM sessions WHERE user_id = u.
Deleted(ss, u) ==
    [s \in SessionIds |->
        IF s \in SessionsOf(ss, u)
        THEN [user |-> NoUser, st |-> "deleted"] ELSE ss[s]]

TouchedWholeRow(ss, s) == [ss EXCEPT ![s].st = "live"]

\* validate_session writes last_seen_at only: a revocation that committed
\* after the row was read is not undone.
Touched(ss, s) == ss
=============================================================================

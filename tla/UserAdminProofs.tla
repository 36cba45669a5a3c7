-------------------------- MODULE UserAdminProofs ---------------------------
(***************************************************************************)
(* Theorems about UserAdmin, for every number of accounts, groups,         *)
(* sessions and requests.                                                  *)
(***************************************************************************)
EXTENDS UserAdmin, TLAPS

-----------------------------------------------------------------------------
(* What the writes of Accounts return.                                     *)

\* Every statement that writes users leaves a well-formed row.
LEMMA RevisionRaised ==
    ASSUME NEW row \in UserRows, NEW n \in Nat
    PROVE  [row EXCEPT !.rev = n + 1] \in UserRows
  BY DEF UserRows

LEMMA RenamedRow ==
    ASSUME NEW row \in UserRows, NEW seen \in UserRows
    PROVE  Renamed(row, seen) \in UserRows
  BY DEF UserRows, Renamed

LEMMA CountedRow ==
    ASSUME NEW row \in UserRows
    PROVE  Counted(row) \in UserRows
  BY DEF UserRows, Counted

LEMMA PasswordRow ==
    ASSUME NEW row \in UserRows, NEW seen \in UserRows
    PROVE  WithPassword(row, seen) \in UserRows
<1>1. [row EXCEPT !.cred = "active"] \in UserRows /\ seen.rev \in Nat
  BY DEF UserRows
<1> QED
  BY <1>1, RevisionRaised DEF WithPassword

LEMMA AdminRow ==
    ASSUME NEW row \in UserRows, NEW seen \in UserRows, NEW admin \in BOOLEAN
    PROVE  WithAdmin(row, seen, admin) \in UserRows
<1>1. [row EXCEPT !.admin = admin] \in UserRows /\ seen.rev \in Nat
  BY DEF UserRows
<1> QED
  BY <1>1, RevisionRaised DEF WithAdmin

LEMMA StatusRow ==
    ASSUME NEW row \in UserRows, NEW seen \in UserRows, NEW st \in Statuses
    PROVE  WithStatus(row, seen, st) \in UserRows
<1>1. [row EXCEPT !.st = st] \in UserRows /\ seen.rev \in Nat
  BY DEF UserRows, Statuses
<1> QED
  BY <1>1, RevisionRaised DEF WithStatus

LEMMA CreatedRow ==
    ASSUME NEW st \in Statuses, NEW admin \in BOOLEAN
    PROVE  Created(st, admin) \in UserRows
  BY DEF UserRows, Created, Statuses

LEMMA AbsentRowIsARow == AbsentRow \in UserRows
  BY DEF AbsentRow, UserRows

\* Revocation and deletion leave a well-formed sessions table.
LEMMA WrittenSessions ==
    ASSUME NEW ss \in [SessionIds -> SessionRows], NEW u \in UserIds
    PROVE  /\ Revoked(ss, u) \in [SessionIds -> SessionRows]
           /\ Deleted(ss, u) \in [SessionIds -> SessionRows]
  BY DEF SessionRows, Revoked, Deleted, SessionsOf, NoUser

\* Afterwards the user has no live session.
LEMMA RevokedEndsAll ==
    ASSUME NEW ss \in [SessionIds -> SessionRows], NEW u \in UserIds,
           NEW s \in SessionIds
    PROVE  /\ Revoked(ss, u)[s] # [user |-> u, st |-> "live"]
           /\ Deleted(ss, u)[s] # [user |-> u, st |-> "live"]
  BY DEF SessionRows, Revoked, Deleted, SessionsOf, NoUser

\* And none that had ended is live again.
LEMMA EndedIsFinal ==
    ASSUME NEW ss \in [SessionIds -> SessionRows], NEW u \in UserIds,
           NEW s \in SessionIds, ss[s].st \in {"ended", "deleted"}
    PROVE  /\ Revoked(ss, u)[s].st \in {"ended", "deleted"}
           /\ Deleted(ss, u)[s].st \in {"ended", "deleted"}
  BY DEF SessionRows, Revoked, Deleted, SessionsOf

-----------------------------------------------------------------------------
(* The inductive invariant: what the earlier phases of a request have      *)
(* established about its record.  It speaks of the record alone, so no     *)
(* step of another request can disturb it.                                 *)

RecordOK(q) ==
    /\ q \in ReqRecords
    /\ q.ph \in {"identified", "authenticated", "rechecked", "loaded",
                 "cleared", "signing"} => q.actor \in UserIds
    /\ q.ph \in {"rechecked", "loaded", "cleared"} => q.form.op \in AdminOps
    /\ q.ph \notin {"idle", "signing"} /\ q.form.op \in AdminOps \ {"create"}
         => q.target \in UserIds
    /\ q.ph \in {"loaded", "cleared"} /\ q.form.op # "create"
         => q.seen.st # "absent"
    /\ q.ph = "cleared" =>
         /\ Losing(q) => q.actor # q.target
         /\ q.form.op = "status" => q.form.st # q.seen.st

IInv == TypeOK /\ \A r \in Requests : RecordOK(req[r])

LEMMA IdleOK == RecordOK(Idle)
  BY AbsentRowIsARow DEF RecordOK, Idle, ReqRecords, NoForm, AllForms, Phases,
     AdminOps, VisitorOps, Statuses, NoUser

\* A step that gives request r a good record keeps all records good.
LEMMA RecordReplaced ==
    ASSUME IInv, NEW r \in Requests, NEW q, RecordOK(q), Becomes(r, q)
    PROVE  /\ req' \in [Requests -> ReqRecords]
           /\ \A p \in Requests : RecordOK(req'[p])
  <1>1. q \in ReqRecords
    BY DEF RecordOK
  <1> QED
    BY <1>1 DEF IInv, TypeOK, Becomes

\* The records do not depend on the tables, so a step that also writes tables
\* only has to leave them well formed.
LEMMA StepPreserves ==
    ASSUME IInv, NEW r \in Requests, NEW q, RecordOK(q), Becomes(r, q),
           users' \in [UserIds -> UserRows],
           memberOf' \in [UserIds -> SUBSET Groups],
           sessions' \in [SessionIds -> SessionRows]
    PROVE  IInv'
  BY RecordReplaced DEF IInv, TypeOK, RecordOK, Losing

LEMMA InitInv == Init => IInv
  <1> SUFFICES ASSUME Init PROVE IInv
    OBVIOUS
  <1>1. users \in [UserIds -> UserRows]
    BY InitialUsersAssumption DEF Init
  <1>2. sessions \in [SessionIds -> SessionRows]
    BY DEF Init, UnusedSession, SessionRows
  <1>3. Idle \in ReqRecords
    BY IdleOK DEF RecordOK
  <1> QED
    BY <1>1, <1>2, <1>3, IdleOK DEF Init, TypeOK, IInv

-----------------------------------------------------------------------------
(* One lemma per group of actions: each preserves the invariant.           *)

LEMMA ArriveInv ==
    ASSUME IInv, NEW r \in Requests, Arrive(r)
    PROVE  IInv'
  <1> USE DEF IInv, TypeOK
  <1>0. ASSUME NEW f \in Forms, NEW s \in SessionIds \cup {NoSession},
               UNCHANGED <<users, memberOf, sessions>>,
               IF f.op \in AdminOps \ {"create"}
               THEN \E u \in UserIds : OpenTargeted(r, f, u, s)
               ELSE OpenUntargeted(r, f, s)
        PROVE  IInv'
    <2>1. f \in AllForms
      BY FormsAssumption
    <2>2. CASE f.op \in AdminOps \ {"create"}
      <3>1. PICK u \in UserIds : OpenTargeted(r, f, u, s)
        BY <1>0, <2>2
      <3>2. users[u].rev \in Nat
        BY DEF UserRows
      <3> DEFINE q == [Idle EXCEPT !.ph = "opened", !.form = f, !.target = u,
                                   !.rev = users[u].rev, !.sess = s]
      <3>3. RecordOK(q)
        BY <2>1, <3>2, IdleOK DEF RecordOK, ReqRecords, Phases, Idle
      <3> QED
        BY <1>0, <3>1, <3>3, StepPreserves DEF OpenTargeted
    <2>3. CASE f.op \notin AdminOps \ {"create"}
      <3> DEFINE q == [Idle EXCEPT !.ph = "opened", !.form = f, !.sess = s]
      <3>1. RecordOK(q)
        BY <2>1, <2>3, IdleOK DEF RecordOK, ReqRecords, Phases, Idle
      <3> QED
        BY <1>0, <2>3, <3>1, StepPreserves DEF OpenUntargeted
    <2> QED
      BY <2>2, <2>3
  <1>1. CASE OpenInBrowser(r)
    BY <1>0, <1>1 DEF OpenInBrowser
  <1>2. CASE OpenOnCommandLine(r)
    <2>1. PICK f \in Forms :
            /\ f.op \in CliOps
            /\ IF f.op = "create" THEN OpenUntargeted(r, f, NoSession)
               ELSE \E u \in UserIds : OpenTargeted(r, f, u, NoSession)
      BY <1>2 DEF OpenOnCommandLine
    <2>2. f.op \in AdminOps /\ UNCHANGED <<users, memberOf, sessions>>
      BY <1>2, <2>1 DEF OpenOnCommandLine, CliOps
    <2> QED
      BY <1>0, <2>1, <2>2
  <1>3. CASE Authenticate(r)
    <2>1. PICK u \in UserIds :
            Becomes(r, [Idle EXCEPT !.ph = "signing", !.actor = u])
      BY <1>3 DEF Authenticate
    <2>2. RecordOK([Idle EXCEPT !.ph = "signing", !.actor = u])
      BY IdleOK DEF RecordOK, ReqRecords, Phases, Idle
    <2> QED
      BY <1>3, <2>1, <2>2, StepPreserves DEF Authenticate
  <1> QED
    BY <1>1, <1>2, <1>3 DEF Arrive

LEMMA IdentifyInv ==
    ASSUME IInv, NEW r \in Requests, Identify(r)
    PROVE  IInv'
  <1> USE DEF IInv, TypeOK
  <1>0. RecordOK(req[r]) /\ req[r] \in ReqRecords
    BY DEF RecordOK
  <1>1. CASE ReadCookie(r)
    <2> DEFINE q == [req[r] EXCEPT !.ph = "cookie",
                                   !.actor = sessions[req[r].sess].user]
    <2>1. sessions[req[r].sess].user \in UserIds \cup {NoUser}
      BY <1>0, <1>1 DEF ReadCookie, ReqRecords, SessionRows
    <2>2. RecordOK(q)
      BY <1>0, <1>1, <2>1 DEF RecordOK, ReadCookie, ReqRecords, Phases, At
    <2> QED
      BY <1>1, <2>2, StepPreserves DEF ReadCookie
  <1>2. CASE ReadUser(r)
    <2> DEFINE q == [req[r] EXCEPT !.ph = "identified",
                                   !.seen = IF Asks(r, "change_password")
                                            THEN users[req[r].actor]
                                            ELSE AbsentRow]
    <2>1. req[r].actor \in UserIds
      BY <1>0, <1>2 DEF ReadUser, ReqRecords
    <2>2. q.seen \in UserRows
      BY <1>0, <2>1, AbsentRowIsARow DEF ReqRecords
    <2>3. RecordOK(q)
      BY <1>0, <1>2, <2>1, <2>2 DEF RecordOK, ReadUser, ReqRecords, Phases, At
    <2> QED
      BY <1>2, <2>3, StepPreserves DEF ReadUser
  <1>3. CASE TouchSession(r)
    <2>1. RecordOK([req[r] EXCEPT !.ph = "authenticated"])
      BY <1>0, <1>3 DEF RecordOK, TouchSession, ReqRecords, Phases, At
    <2> QED
      BY <1>3, <2>1, StepPreserves DEF TouchSession, Touched
  <1>4. CASE CliSignIn(r)
    <2>1. PICK a \in UserIds :
            Becomes(r, [req[r] EXCEPT !.ph = "authenticated", !.actor = a])
      BY <1>4 DEF CliSignIn
    <2>2. RecordOK([req[r] EXCEPT !.ph = "authenticated", !.actor = a])
      BY <1>0, <1>4 DEF RecordOK, CliSignIn, ReqRecords, Phases, At
    <2> QED
      BY <1>4, <2>1, <2>2, StepPreserves DEF CliSignIn
  <1> QED
    BY <1>1, <1>2, <1>3, <1>4 DEF Identify

LEMMA CheckInv ==
    ASSUME IInv, NEW r \in Requests, Check(r)
    PROVE  IInv'
  <1> USE DEF IInv, TypeOK
  <1>0. RecordOK(req[r]) /\ req[r] \in ReqRecords
    BY DEF RecordOK
  <1>1. CASE RecheckActor(r)
    <2>1. RecordOK([req[r] EXCEPT !.ph = "rechecked"])
      BY <1>0, <1>1 DEF RecordOK, RecheckActor, ReqRecords, Phases, At
    <2> QED
      BY <1>1, <2>1, StepPreserves DEF RecheckActor, Goto
  <1>2. CASE LoadTarget(r)
    <2> DEFINE row == users[req[r].target]
    <2>1. req[r].target \in UserIds
      BY <1>0, <1>2 DEF RecordOK, LoadTarget, At, Asks
    <2>2. row \in UserRows /\ row.st # "absent"
      BY <1>2, <2>1 DEF LoadTarget
    <2>3. RecordOK([req[r] EXCEPT !.ph = "loaded", !.seen = row])
      BY <1>0, <1>2, <2>1, <2>2 DEF RecordOK, LoadTarget, ReqRecords, Phases, At
    <2> QED
      BY <1>2, <2>3, StepPreserves DEF LoadTarget
  <1>3. CASE ClearChecks(r)
    <2> DEFINE q == [req[r] EXCEPT !.ph = "cleared"]
    <2>1. Losing(q) = Losing(req[r])
      BY <1>0 DEF Losing, ReqRecords
    <2>2. q \in ReqRecords
      BY <1>0 DEF ReqRecords, Phases
    <2>3. RecordOK(q)
      BY <1>0, <1>3, <2>1, <2>2
      DEF RecordOK, ClearChecks, At, Asks, NoChange, MayLoseAdmin, ReqRecords
    <2> QED
      BY <1>3, <2>3, StepPreserves DEF ClearChecks, Goto
  <1> QED
    BY <1>1, <1>2, <1>3 DEF Check

LEMMA CommitInv ==
    ASSUME IInv, NEW r \in Requests, Commit(r)
    PROVE  IInv'
  <1> USE DEF IInv, TypeOK
  <1>0. RecordOK(req[r]) /\ req[r] \in ReqRecords
    BY DEF RecordOK
  <1> USE IdleOK
  <1>u. ASSUME Done(r), users' \in [UserIds -> UserRows],
               memberOf' \in [UserIds -> SUBSET Groups],
               sessions' \in [SessionIds -> SessionRows]
        PROVE  IInv'
    BY <1>u, StepPreserves DEF Done
  <1>1. CASE CommitProfile(r)
    <2>1. req[r].target \in UserIds
      BY <1>0, <1>1 DEF RecordOK, CommitProfile, At, AdminOps
    <2>2. /\ req[r].seen \in UserRows /\ req[r].form.admin \in BOOLEAN
          /\ users[req[r].target] \in UserRows
      BY <1>0, <2>1 DEF ReqRecords, AllForms
    <2> DEFINE u == req[r].target  renamed == Renamed(users[u], req[r].seen)
               changed == WithAdmin(users[u], req[r].seen, req[r].form.admin)
    <2>3. renamed \in UserRows /\ changed \in UserRows
      BY <2>2, RenamedRow, AdminRow
    <2>4. \/ users' = [users EXCEPT ![u] = renamed] /\ sessions' = sessions
          \/ /\ users' = [users EXCEPT ![u] = changed]
             /\ sessions' = Revoked(sessions, u)
      BY <1>1 DEF CommitProfile
    <2> HIDE DEF renamed, changed
    <2>5. /\ users' \in [UserIds -> UserRows]
          /\ sessions' \in [SessionIds -> SessionRows]
      BY <2>1, <2>3, <2>4, WrittenSessions
    <2> QED
      BY <1>1, <1>u, <2>5 DEF CommitProfile
  <1>2. CASE CommitStatus(r)
    <2>1. req[r].target \in UserIds
      BY <1>0, <1>2 DEF RecordOK, CommitStatus, At, AdminOps
    <2>2. /\ req[r].seen \in UserRows /\ req[r].form.st \in Statuses
          /\ users[req[r].target] \in UserRows
      BY <1>0, <2>1 DEF ReqRecords, AllForms
    <2>3. /\ users' \in [UserIds -> UserRows]
          /\ sessions' \in [SessionIds -> SessionRows]
      BY <1>2, <2>1, <2>2, StatusRow, WrittenSessions DEF CommitStatus
    <2> QED
      BY <1>2, <1>u, <2>3 DEF CommitStatus
  <1>3. CASE CommitDelete(r)
    <2>1. req[r].target \in UserIds
      BY <1>0, <1>3 DEF RecordOK, CommitDelete, At, Asks, AdminOps
    <2>2. /\ users' \in [UserIds -> UserRows]
          /\ memberOf' \in [UserIds -> SUBSET Groups]
          /\ sessions' \in [SessionIds -> SessionRows]
      BY <1>3, <2>1, AbsentRowIsARow, WrittenSessions DEF CommitDelete
    <2> QED
      BY <1>3, <1>u, <2>2 DEF CommitDelete
  <1>4. CASE CommitMemberships(r)
    <2>1. req[r].target \in UserIds /\ req[r].form.groups \in SUBSET Groups
      BY <1>0, <1>4
      DEF RecordOK, CommitMemberships, At, Asks, AdminOps, ReqRecords, AllForms
    <2>2. /\ users' \in [UserIds -> UserRows]
          /\ memberOf' \in [UserIds -> SUBSET Groups]
      BY <1>4, <2>1, CountedRow DEF CommitMemberships
    <2> QED
      BY <1>4, <1>u, <2>2 DEF CommitMemberships
  <1>5. CASE CommitCreate(r)
    <2>1. /\ req[r].form.groups \in SUBSET Groups
          /\ req[r].form.st \in Statuses /\ req[r].form.admin \in BOOLEAN
      BY <1>0 DEF ReqRecords, AllForms
    <2>2. PICK u \in UserIds :
            /\ users' = [users EXCEPT ![u] =
                            Created(req[r].form.st, req[r].form.admin)]
            /\ memberOf' = [memberOf EXCEPT ![u] = @ \cup req[r].form.groups]
      BY <1>5 DEF CommitCreate
    <2>3. /\ users' \in [UserIds -> UserRows]
          /\ memberOf' \in [UserIds -> SUBSET Groups]
      BY <2>1, <2>2, CreatedRow
    <2> QED
      BY <1>5, <1>u, <2>3 DEF CommitCreate
  <1>6. CASE CreateSession(r)
    <2>1. req[r].actor \in UserIds
      BY <1>0, <1>6 DEF RecordOK, CreateSession, At
    <2>2. sessions' \in [SessionIds -> SessionRows]
      BY <1>6, <2>1 DEF CreateSession, SessionRows
    <2> QED
      BY <1>6, <1>u, <2>2 DEF CreateSession
  <1>7. CASE CommitPassword(r)
    <2>1. req[r].actor \in UserIds /\ req[r].seen \in UserRows
      BY <1>0, <1>7 DEF RecordOK, CommitPassword, At, ReqRecords
    <2>2. users' \in [UserIds -> UserRows]
      BY <1>7, <2>1, PasswordRow DEF CommitPassword
    <2> QED
      BY <1>7, <1>u, <2>2 DEF CommitPassword
  <1>8. CASE CommitSignOut(r)
    <2>1. sessions' \in [SessionIds -> SessionRows]
      BY <1>8 DEF CommitSignOut, SessionRows
    <2> QED
      BY <1>8, <1>u, <2>1 DEF CommitSignOut
  <1> QED
    BY <1>1, <1>2, <1>3, <1>4, <1>5, <1>6, <1>7, <1>8 DEF Commit

LEMMA NextInv == IInv /\ [Next]_vars => IInv'
<1> SUFFICES ASSUME IInv, [Next]_vars PROVE IInv'
  OBVIOUS
<1>1. ASSUME NEW r \in Requests, Abandon(r) PROVE IInv'
  BY <1>1, IdleOK, StepPreserves DEF Abandon, Done, IInv, TypeOK
<1>2. ASSUME NEW s \in SessionIds, Expire(s) PROVE IInv'
  <2>1. sessions' \in [SessionIds -> SessionRows]
    BY <1>2 DEF Expire, IInv, TypeOK, SessionRows
  <2> QED
    BY <1>2, <2>1 DEF Expire, IInv, TypeOK, RecordOK, Losing
<1>3. CASE UNCHANGED vars
  BY <1>3 DEF vars, IInv, TypeOK, RecordOK, Losing
<1> QED
  BY <1>1, <1>2, <1>3, ArriveInv, IdentifyInv, CheckInv, CommitInv DEF Next

THEOREM Invariance == Spec => []IInv
  BY InitInv, NextInv, PTL DEF Spec

\* The tables and the request records always hold what their columns and
\* fields may hold: in particular no request reaches a write with an account
\* id, a row or a form it has not read or been sent.
THEOREM TypeCorrect == Spec => []TypeOK
<1>1. IInv => TypeOK
  BY DEF IInv
<1> QED
  BY <1>1, Invariance, PTL

-----------------------------------------------------------------------------
(* Sessions.                                                               *)

LEMMA SessionStep ==
    ASSUME IInv, [Next]_vars, NEW s \in SessionIds
    PROVE  SessionStaysEnded(s)
  <1> USE DEF SessionStaysEnded
  <1>0. sessions \in [SessionIds -> SessionRows]
    BY DEF IInv, TypeOK
  <1>1. CASE UNCHANGED sessions
    BY <1>1
  <1>2. ASSUME NEW r \in Requests, TouchSession(r) PROVE SessionStaysEnded(s)
    BY <1>2 DEF TouchSession, Touched
  <1>3. ASSUME NEW u \in UserIds,
               sessions' = Revoked(sessions, u) \/ sessions' = Deleted(sessions, u)
        PROVE  SessionStaysEnded(s)
    BY <1>0, <1>3, EndedIsFinal
  <1>4. ASSUME NEW r \in Requests,
               CommitProfile(r) \/ CommitStatus(r) \/ CommitDelete(r)
        PROVE  SessionStaysEnded(s)
    <2>1. req[r].target \in UserIds
      BY <1>4 DEF IInv, RecordOK, CommitProfile, CommitStatus, CommitDelete, At,
                  Asks, AdminOps
    <2> QED
      BY <1>1, <1>3, <1>4, <2>1 DEF CommitProfile, CommitStatus, CommitDelete
  <1>5. ASSUME NEW r \in Requests, CreateSession(r) \/ CommitSignOut(r)
        PROVE  SessionStaysEnded(s)
    BY <1>0, <1>5 DEF CreateSession, CommitSignOut, SessionRows
  <1>6. ASSUME NEW x \in SessionIds, Expire(x) PROVE SessionStaysEnded(s)
    BY <1>0, <1>6 DEF Expire, SessionRows
  <1>7. ASSUME NEW r \in Requests,
               \/ Arrive(r) \/ ReadCookie(r) \/ ReadUser(r) \/ CliSignIn(r)
               \/ Check(r) \/ Abandon(r) \/ CommitMemberships(r)
               \/ CommitCreate(r) \/ CommitPassword(r)
        PROVE  UNCHANGED sessions
    BY <1>7 DEF Arrive, OpenInBrowser, OpenOnCommandLine, Authenticate,
       ReadCookie, ReadUser, CliSignIn, Check, RecheckActor, LoadTarget,
       ClearChecks, Goto, Abandon, CommitMemberships, CommitCreate,
       CommitPassword
  <1>8. CASE UNCHANGED vars
    BY <1>8 DEF vars
  <1> QED
    BY <1>1, <1>2, <1>4, <1>5, <1>6, <1>7, <1>8 DEF Next, Identify, Commit

\* A session that was revoked, expired or deleted is never live again, however
\* the request that validated it earlier interleaves with its revocation.
THEOREM EndedSessionsAreFinal == Spec => EndedSessionsStayEnded
<1>1. IInv /\ [Next]_vars => [\A s \in SessionIds : SessionStaysEnded(s)]_vars
  BY SessionStep
<1> QED
  BY <1>1, Invariance, PTL DEF Spec, EndedSessionsStayEnded

-----------------------------------------------------------------------------
(* The steps that write the users table.                                   *)

\* A step that changes the users table is one of the six writes.
LEMMA UsersWrite ==
    ASSUME [Next]_vars, users' # users
    PROVE  \E r \in Requests :
             \/ CommitProfile(r) \/ CommitStatus(r) \/ CommitDelete(r)
             \/ CommitMemberships(r) \/ CommitCreate(r) \/ CommitPassword(r)
  BY DEF Next, vars, Expire, Arrive, OpenInBrowser, OpenOnCommandLine,
     Authenticate, Identify, ReadCookie, ReadUser, TouchSession, CliSignIn,
     Check, RecheckActor, LoadTarget, ClearChecks, Goto, Abandon, Commit,
     CreateSession, CommitSignOut

\* What each of them does to one row.
LEMMA RowAfterWrite ==
    ASSUME NEW row \in UserRows, NEW seen \in UserRows
    PROVE  /\ /\ Renamed(row, seen).st = row.st
              /\ Renamed(row, seen).admin = row.admin
           /\ /\ Counted(row).st = row.st /\ Counted(row).admin = row.admin
           /\ /\ WithPassword(row, seen).st = row.st
              /\ WithPassword(row, seen).admin = row.admin
  BY DEF UserRows, Renamed, Counted, WithPassword

LEMMA RowAfterChange ==
    ASSUME NEW row \in UserRows, NEW seen \in UserRows,
           NEW admin \in BOOLEAN, NEW st \in Statuses
    PROVE  /\ /\ WithAdmin(row, seen, admin).st = row.st
              /\ WithAdmin(row, seen, admin).admin = admin
           /\ /\ WithStatus(row, seen, st).st = st
              /\ WithStatus(row, seen, st).admin = row.admin
  BY DEF UserRows, WithAdmin, WithStatus

Writes(r) ==
    \/ CommitProfile(r) \/ CommitStatus(r) \/ CommitDelete(r)
    \/ CommitMemberships(r) \/ CommitCreate(r) \/ CommitPassword(r)

\* Only set_user_status changes the status of an account that stays.
StatusWritten(r, u) ==
    /\ CommitStatus(r) /\ req[r].target = u
    /\ users'[u].st = req[r].form.st

\* Only update_user changes its admin flag, and not to the value it read.
AdminWritten(r, u) ==
    /\ CommitProfile(r) /\ req[r].target = u /\ Asks(r, "profile")
    /\ req[r].form.admin # req[r].seen.admin
    /\ users'[u].admin = req[r].form.admin
    /\ sessions' = Revoked(sessions, u)

LEMMA WriteEffect ==
    ASSUME IInv, NEW r \in Requests, Writes(r), NEW u \in UserIds
    PROVE  /\ Kept(u) /\ users'[u].st # users[u].st => StatusWritten(r, u)
           /\ Kept(u) /\ users'[u].admin # users[u].admin => AdminWritten(r, u)
           /\ Present(users, u) /\ ~Present(users, u)'
                => CommitDelete(r) /\ req[r].target = u
  <1> DEFINE row == users[u]  seen == req[r].seen  f == req[r].form
  <1> USE DEF Kept, Present
  <1>0. /\ row \in UserRows /\ seen \in UserRows
        /\ f.admin \in BOOLEAN /\ f.st \in Statuses
        /\ users \in [UserIds -> UserRows]
    BY DEF IInv, TypeOK, ReqRecords, AllForms
  <1>1. CASE CommitProfile(r)
    <2>1. CASE u # req[r].target
      BY <1>0, <1>1, <2>1 DEF CommitProfile
    <2>2. CASE u = req[r].target /\ (f.op = "rename" \/ f.admin = seen.admin)
      <3>1. users'[u] = Renamed(row, seen)
        BY <1>0, <1>1, <2>2 DEF CommitProfile
      <3> QED
        BY <1>0, <1>1, <3>1, RowAfterWrite DEF CommitProfile
    <2>3. CASE u = req[r].target /\ ~(f.op = "rename" \/ f.admin = seen.admin)
      <3>1. /\ users'[u] = WithAdmin(row, seen, f.admin)
            /\ sessions' = Revoked(sessions, u)
        BY <1>0, <1>1, <2>3 DEF CommitProfile
      <3>2. users'[u].st = row.st /\ users'[u].admin = f.admin
        BY <1>0, <3>1, RowAfterChange
      <3> QED
        BY <1>1, <2>3, <3>1, <3>2 DEF CommitProfile, AdminWritten, Asks
    <2> QED
      BY <2>1, <2>2, <2>3
  <1>2. CASE CommitStatus(r)
    <2>1. CASE u # req[r].target
      BY <1>0, <1>2, <2>1 DEF CommitStatus
    <2>2. CASE u = req[r].target
      <3>1. users'[u] = WithStatus(row, seen, f.st)
        BY <1>0, <1>2, <2>2 DEF CommitStatus
      <3>2. users'[u].st = f.st /\ users'[u].admin = row.admin
        BY <1>0, <3>1, RowAfterChange
      <3> QED
        BY <1>0, <1>2, <2>2, <3>2 DEF StatusWritten, Statuses
    <2> QED
      BY <2>1, <2>2
  <1>3. CASE CommitDelete(r)
    BY <1>0, <1>3 DEF CommitDelete, AbsentRow
  <1>4. CASE CommitMemberships(r)
    <2>1. users'[u] = row \/ users'[u] = Counted(row)
      BY <1>0, <1>4 DEF CommitMemberships
    <2> QED
      BY <1>0, <2>1, RowAfterWrite
  <1>5. CASE CommitCreate(r)
    BY <1>0, <1>5 DEF CommitCreate, IsNextId
  <1>6. CASE CommitPassword(r)
    <2>1. users'[u] = row \/ users'[u] = WithPassword(row, seen)
      BY <1>0, <1>6 DEF CommitPassword
    <2> QED
      BY <1>0, <2>1, RowAfterWrite
  <1> QED
    BY <1>1, <1>2, <1>3, <1>4, <1>5, <1>6 DEF Writes

\* A write is the last step of its request.
LEMMA WriteEndsRequest ==
    ASSUME IInv, NEW r \in Requests, Writes(r)
    PROVE  req'[r] = Idle
  BY DEF IInv, TypeOK, Writes, CommitProfile, CommitStatus, CommitDelete,
         CommitMemberships, CommitCreate, CommitPassword, Done, Becomes

\* A request that commits has left its checked form behind.
LEMMA CommitFinishes ==
    ASSUME IInv, NEW r \in Requests,
           CommitProfile(r) \/ CommitStatus(r) \/ CommitDelete(r)
    PROVE  Finishes(r)
  <1>1. req'[r] = Idle
    BY DEF IInv, TypeOK, CommitProfile, CommitStatus, CommitDelete, Done, Becomes
  <1> QED
    BY <1>1 DEF CommitProfile, CommitStatus, CommitDelete, Finishes, At, Idle

\* A status or an admin flag changes only to a value that the request which
\* commits asked for: no stale row is ever written back.
THEOREM ColumnsOnlyOnRequest == Spec => ColumnsChangeOnRequest
<1>1. ASSUME IInv, [Next]_vars, NEW u \in UserIds
      PROVE  ColumnsRequested(u)
  <2> SUFFICES ASSUME users' # users PROVE ColumnsRequested(u)
    BY DEF ColumnsRequested
  <2>1. PICK r \in Requests : Writes(r)
    BY <1>1, UsersWrite DEF Writes
  <2>2. StatusWritten(r, u) => StatusRequested(u)
    BY <1>1, <2>1, CommitFinishes
    DEF StatusWritten, StatusRequested, CommitStatus, Asks
  <2>3. AdminWritten(r, u) => AdminRequested(u)
    BY <1>1, <2>1, CommitFinishes DEF AdminWritten, AdminRequested, Asks
  <2> QED
    BY <1>1, <2>1, <2>2, <2>3, WriteEffect DEF ColumnsRequested
<1>2. IInv /\ [Next]_vars => [\A u \in UserIds : ColumnsRequested(u)]_vars
  BY <1>1
<1> QED
  BY <1>2, Invariance, PTL DEF Spec, ColumnsChangeOnRequest

\* No account is demoted or disabled by its own request, because the request
\* compared the two ids and the write still goes to the id it compared.
THEOREM NobodyRemovesOneself == Spec => NobodyRemovesThemselves
<1>1. ASSUME IInv, [Next]_vars, NEW u \in UserIds, Removed(u)
      PROVE  RemovedByAnother(u)
  <2>1. users' # users
    BY <1>1 DEF Removed
  <2>2. PICK r \in Requests : Writes(r)
    BY <1>1, <2>1, UsersWrite DEF Writes
  <2>0. /\ RecordOK(req[r]) /\ req[r].seen \in UserRows
        /\ req[r].form.admin \in BOOLEAN
        /\ users[u] \in UserRows
    BY <1>1 DEF IInv, TypeOK, RecordOK, ReqRecords, AllForms
  <2>3. CASE users[u].admin /\ ~users'[u].admin
    <3>1. AdminWritten(r, u)
      BY <1>1, <2>2, <2>3, WriteEffect DEF Removed
    <3>2. Losing(req[r])
      BY <2>0, <2>3, <3>1 DEF AdminWritten, Losing, Asks, UserRows
    <3>3. req[r].ph = "cleared"
      BY <3>1 DEF AdminWritten, CommitProfile, At
    <3> QED
      BY <1>1, <2>0, <3>1, <3>2, <3>3, CommitFinishes
      DEF RecordOK, RemovedByAnother, AdminWritten
  <2>4. CASE users[u].st = "active" /\ users'[u].st = "disabled"
    <3>1. StatusWritten(r, u)
      BY <1>1, <2>2, <2>4, WriteEffect DEF Removed
    <3>2. req[r].ph = "cleared" /\ req[r].form.op = "status"
      BY <3>1 DEF StatusWritten, CommitStatus, At
    <3>3. Losing(req[r])
      BY <2>0, <2>4, <3>1, <3>2
      DEF StatusWritten, Losing, RecordOK, UserRows, AdminOps, Statuses
    <3> QED
      BY <1>1, <2>0, <3>1, <3>2, <3>3, CommitFinishes
      DEF RecordOK, RemovedByAnother, StatusWritten
  <2> QED
    BY <1>1, <2>3, <2>4 DEF Removed
<1>2. IInv /\ [Next]_vars
        => [\A u \in UserIds : Removed(u) => RemovedByAnother(u)]_vars
  BY <1>1
<1> QED
  BY <1>2, Invariance, PTL DEF Spec, NobodyRemovesThemselves

\* When an account is deleted, disabled, promoted or demoted, it is signed out
\* by the same commit: no session opened beside the change is left behind.
THEOREM RightsChangeSignsOut == Spec => RightsChangeEndsSessions
<1>1. ASSUME IInv, [Next]_vars, NEW u \in UserIds, RightsChange(u)
      PROVE  SignedOut(u)'
  <2>1. users' # users
    BY <1>1 DEF RightsChange, Present
  <2>2. PICK r \in Requests : Writes(r)
    BY <1>1, <2>1, UsersWrite DEF Writes
  <2>3. ASSUME sessions' = Revoked(sessions, u) \/ sessions' = Deleted(sessions, u)
        PROVE  SignedOut(u)'
    BY <1>1, <2>3, RevokedEndsAll DEF SignedOut, IInv, TypeOK
  <2>4. CASE ~Present(users, u)'
    BY <1>1, <2>2, <2>3, <2>4, WriteEffect DEF RightsChange, CommitDelete
  <2>5. CASE Kept(u) /\ users[u].admin # users'[u].admin
    BY <1>1, <2>2, <2>3, <2>5, WriteEffect DEF AdminWritten
  <2>6. CASE Kept(u) /\ users[u].st = "active" /\ users'[u].st = "disabled"
    BY <1>1, <2>2, <2>3, <2>6, WriteEffect DEF StatusWritten, CommitStatus
  <2> QED
    BY <1>1, <2>4, <2>5, <2>6 DEF RightsChange, Kept
<1>2. IInv /\ [Next]_vars
        => [\A u \in UserIds : RightsChange(u) => SignedOut(u)']_vars
  BY <1>1
<1> QED
  BY <1>2, Invariance, PTL DEF Spec, RightsChangeEndsSessions

-----------------------------------------------------------------------------
(* Memberships are replaced at the revision of the form.                   *)

\* Only operators are asked to administrate.
OperatorAsks(q, r) ==
    q.ph \notin {"idle", "signing"} /\ q.form.op \in AdminOps => r \in Operators

OperatorsAsk == \A r \in Requests : OperatorAsks(req[r], r)

LEMMA AskerReplaced ==
    ASSUME IInv, OperatorsAsk, NEW r \in Requests, NEW q, Becomes(r, q),
           OperatorAsks(q, r)
    PROVE  OperatorsAsk'
BY DEF IInv, TypeOK, OperatorsAsk, Becomes

\* A request that moves on keeps its form.
LEMMA AskerMovesOn ==
    ASSUME IInv, OperatorsAsk, NEW r \in Requests, NEW q, Becomes(r, q),
           q.form = req[r].form, ~At(r, "idle"), ~At(r, "signing")
    PROVE  OperatorsAsk'
<1>1. OperatorAsks(q, r)
  BY DEF OperatorsAsk, OperatorAsks, At
<1> QED BY <1>1, AskerReplaced

LEMMA ArriveAsks ==
    ASSUME IInv, OperatorsAsk, NEW r \in Requests, Arrive(r)
    PROVE  OperatorsAsk'
<1>1. ASSUME NEW f \in Forms, NEW s,
             f.op \in AdminOps => r \in Operators,
             (\E u \in UserIds : OpenTargeted(r, f, u, s)) \/ OpenUntargeted(r, f, s)
      PROVE  OperatorsAsk'
  <2>1. ASSUME NEW u \in UserIds, OpenTargeted(r, f, u, s) PROVE OperatorsAsk'
    <3> DEFINE q == [Idle EXCEPT !.ph = "opened", !.form = f, !.target = u,
                                 !.rev = users[u].rev, !.sess = s]
    <3>1. OperatorAsks(q, r)
      BY <1>1 DEF OperatorAsks, Idle
    <3> QED BY <2>1, <3>1, AskerReplaced DEF OpenTargeted
  <2>2. CASE OpenUntargeted(r, f, s)
    <3> DEFINE q == [Idle EXCEPT !.ph = "opened", !.form = f, !.sess = s]
    <3>1. OperatorAsks(q, r)
      BY <1>1 DEF OperatorAsks, Idle
    <3> QED BY <2>2, <3>1, AskerReplaced DEF OpenUntargeted
  <2> QED BY <1>1, <2>1, <2>2
<1>2. CASE OpenInBrowser(r)
  <2>1. PICK f \in Forms, s \in SessionIds :
          /\ f.op \in (IF r \in Operators THEN AdminOps ELSE {})
                      \cup (IF r \in Visitors THEN VisitorOps ELSE {})
          /\ (\E u \in UserIds : OpenTargeted(r, f, u, s)) \/ OpenUntargeted(r, f, s)
    BY <1>2 DEF OpenInBrowser
  <2>2. f.op \in AdminOps => r \in Operators
    BY <2>1 DEF AdminOps, VisitorOps
  <2> QED BY <1>1, <2>1, <2>2
<1>3. CASE OpenOnCommandLine(r)
  BY <1>1, <1>3 DEF OpenOnCommandLine
<1>4. CASE Authenticate(r)
  <2>1. PICK u \in UserIds :
          Becomes(r, [Idle EXCEPT !.ph = "signing", !.actor = u])
    BY <1>4 DEF Authenticate
  <2>2. OperatorAsks([Idle EXCEPT !.ph = "signing", !.actor = u], r)
    BY DEF OperatorAsks, Idle
  <2> QED BY <2>1, <2>2, AskerReplaced
<1> QED BY <1>2, <1>3, <1>4 DEF Arrive

LEMMA InitAsks == Init => OperatorsAsk
  BY DEF Init, OperatorsAsk, OperatorAsks, Idle

LEMMA NextAsks == IInv /\ OperatorsAsk /\ [Next]_vars => OperatorsAsk'
<1> SUFFICES ASSUME IInv, OperatorsAsk, [Next]_vars PROVE OperatorsAsk'
  OBVIOUS
<1>0. \A r \in Requests : req[r] \in ReqRecords
  BY DEF IInv, TypeOK
<1>1. ASSUME NEW r \in Requests, Identify(r) PROVE OperatorsAsk'
  <2>1. CASE ReadCookie(r)
    <3> DEFINE q == [req[r] EXCEPT !.ph = "cookie",
                                   !.actor = sessions[req[r].sess].user]
    <3>1. q.form = req[r].form
      BY <1>0 DEF ReqRecords
    <3> QED BY <2>1, <3>1, AskerMovesOn DEF ReadCookie, At
  <2>2. CASE ReadUser(r)
    <3> DEFINE q == [req[r] EXCEPT !.ph = "identified",
                                   !.seen = IF Asks(r, "change_password")
                                            THEN users[req[r].actor]
                                            ELSE AbsentRow]
    <3>1. q.form = req[r].form
      BY <1>0 DEF ReqRecords
    <3> QED BY <2>2, <3>1, AskerMovesOn DEF ReadUser, At
  <2>3. CASE TouchSession(r)
    <3>1. [req[r] EXCEPT !.ph = "authenticated"].form = req[r].form
      BY <1>0 DEF ReqRecords
    <3> QED BY <2>3, <3>1, AskerMovesOn DEF TouchSession, At
  <2>4. CASE CliSignIn(r)
    <3>1. PICK a \in UserIds :
            Becomes(r, [req[r] EXCEPT !.ph = "authenticated", !.actor = a])
      BY <2>4 DEF CliSignIn
    <3>2. [req[r] EXCEPT !.ph = "authenticated", !.actor = a].form = req[r].form
      BY <1>0 DEF ReqRecords
    <3> QED BY <2>4, <3>1, <3>2, AskerMovesOn DEF CliSignIn, At
  <2> QED BY <1>1, <2>1, <2>2, <2>3, <2>4 DEF Identify
<1>2. ASSUME NEW r \in Requests, Check(r) PROVE OperatorsAsk'
  <2>1. ASSUME NEW ph, Goto(r, ph), ~At(r, "idle"), ~At(r, "signing")
        PROVE  OperatorsAsk'
    <3>1. [req[r] EXCEPT !.ph = ph].form = req[r].form
      BY <1>0 DEF ReqRecords
    <3> QED BY <2>1, <3>1, AskerMovesOn DEF Goto
  <2>2. CASE LoadTarget(r)
    <3>1. [req[r] EXCEPT !.ph = "loaded", !.seen = users[req[r].target]].form
            = req[r].form
      BY <1>0 DEF ReqRecords
    <3> QED BY <2>2, <3>1, AskerMovesOn DEF LoadTarget, At
  <2>3. CASE RecheckActor(r) \/ ClearChecks(r)
    BY <2>1, <2>3 DEF RecheckActor, ClearChecks, At
  <2> QED BY <1>2, <2>2, <2>3 DEF Check
<1>3. ASSUME NEW r \in Requests, Commit(r) \/ Abandon(r) PROVE OperatorsAsk'
  <2>1. Done(r)
    BY <1>3 DEF Commit, Abandon, CommitProfile, CommitStatus, CommitDelete,
       CommitMemberships, CommitCreate, CreateSession, CommitPassword, CommitSignOut
  <2>2. OperatorAsks(Idle, r)
    BY DEF OperatorAsks, Idle
  <2> QED BY <2>1, <2>2, AskerReplaced DEF Done
<1>4. CASE (\E s \in SessionIds : Expire(s)) \/ UNCHANGED vars
  BY <1>4 DEF Expire, vars, OperatorsAsk, OperatorAsks
<1> QED BY <1>1, <1>2, <1>3, <1>4, ArriveAsks DEF Next

LEMMA MembersWrite ==
    ASSUME IInv, [Next]_vars, memberOf' # memberOf
    PROVE  \E r \in Requests :
             CommitDelete(r) \/ CommitMemberships(r) \/ CommitCreate(r)
  BY DEF Next, vars, Expire, Arrive, OpenInBrowser, OpenOnCommandLine,
     Authenticate, Identify, ReadCookie, ReadUser, TouchSession, CliSignIn,
     Check, RecheckActor, LoadTarget, ClearChecks, Goto, Abandon, Commit,
     CommitProfile, CommitStatus, CreateSession, CommitPassword, CommitSignOut

LEMMA MembershipsEffect ==
    ASSUME IInv, OperatorsAsk, [Next]_vars, NEW u \in UserIds,
           Kept(u), memberOf[u] # memberOf'[u]
    PROVE  ReplacedAtItsRevision(u)
<1> SUFFICES \E r \in Operators :
               /\ Finishes(r) /\ req[r].target = u
               /\ req[r].form.groups = memberOf'[u]
               /\ req[r].rev = users[u].rev
               /\ users'[u].rev = users[u].rev + 1
  BY DEF ReplacedAtItsRevision
<1>1. PICK r \in Requests :
        CommitDelete(r) \/ CommitMemberships(r) \/ CommitCreate(r)
  BY MembersWrite
<1>2. /\ users \in [UserIds -> UserRows] /\ memberOf \in [UserIds -> SUBSET Groups]
      /\ req \in [Requests -> ReqRecords]
  BY DEF IInv, TypeOK
<1>3. CASE CommitDelete(r)
  BY <1>2, <1>3 DEF CommitDelete, Kept, Present, AbsentRow
<1>4. CASE CommitCreate(r)
  BY <1>2, <1>4 DEF CommitCreate, Kept, Present, IsNextId
<1>5. CASE CommitMemberships(r)
  <2>1. /\ req[r].target = u /\ req[r].form.groups = memberOf'[u]
        /\ req[r].rev = users[u].rev /\ users'[u] = Counted(users[u])
    BY <1>2, <1>5 DEF CommitMemberships, SwapsAt
  <2>2. users'[u].rev = users[u].rev + 1
    <3>1. users[u] \in UserRows
      BY <1>2
    <3> QED BY <2>1, <3>1 DEF Counted, UserRows
  <2>3. r \in Operators
    BY <1>5 DEF CommitMemberships, At, Asks, AdminOps, OperatorsAsk, OperatorAsks
  <2>4. req'[r] = Idle
    <3> HIDE DEF Idle
    <3> QED BY <1>2, <1>5 DEF CommitMemberships, Done, Becomes
  <2>5. Finishes(r)
    BY <1>5, <2>4 DEF CommitMemberships, Finishes, At, Idle
  <2> QED BY <2>1, <2>2, <2>3, <2>5
<1> QED BY <1>1, <1>3, <1>4, <1>5

\* However many requests change an account, its memberships are replaced by
\* the whole set of one operator's form, and only while the account is at
\* the revision which that form was made for.
THEOREM MembershipsAtTheirRevision == Spec => MembershipsReplacedAtTheirRevision
<1>2. IInv /\ OperatorsAsk /\ [Next]_vars =>
        [\A u \in UserIds :
           Kept(u) /\ memberOf[u] # memberOf'[u] => ReplacedAtItsRevision(u)]_vars
  BY MembershipsEffect
<1> QED
  BY <1>2, InitAsks, NextAsks, Invariance, PTL
  DEF Spec, MembershipsReplacedAtTheirRevision

-----------------------------------------------------------------------------
(* Refinement: a commit is one step of UserDirectory that its actor makes, *)
(* unless the actor was overtaken.  Nothing is assumed of the schedule:    *)
(* what the directory needs of the actor is what the hypothesis            *)
(* ~CommitsOvertaken(r) says, and RecordOK says that the actor is not the  *)
(* target of a request that takes a right away.                            *)

\* What the writes do to the account behind a row.
LEMMA AccountAfterWrite ==
    ASSUME NEW row \in UserRows, NEW seen \in UserRows
    PROVE  /\ Account(row) \in Directory!AccountRows
           /\ Account(Renamed(row, seen)) = Account(row)
           /\ Account(Counted(row)) = Account(row)
           /\ Account(WithPassword(row, seen))
                = [Account(row) EXCEPT !.cred = "active"]
<1>1. Account(row) \in Directory!AccountRows
  BY DEF Account, AbsentRow, Directory!AccountRows, UserRows, Statuses
<1>2. /\ Account(Renamed(row, seen)) = Account(row)
      /\ Account(Counted(row)) = Account(row)
  BY DEF Account, AbsentRow, UserRows, Renamed, Counted
<1>3. /\ WithPassword(row, seen).st = row.st
      /\ WithPassword(row, seen).admin = row.admin
      /\ WithPassword(row, seen).cred = "active"
  BY DEF UserRows, WithPassword
<1>4. Account(WithPassword(row, seen)) = [Account(row) EXCEPT !.cred = "active"]
  <2> DEFINE after == WithPassword(row, seen)
  <2> HIDE DEF after
  <2>1. after.st = row.st /\ after.admin = row.admin /\ after.cred = "active"
    BY <1>3 DEF after
  <2>2. Account(after) = [Account(row) EXCEPT !.cred = "active"]
    <3>1. CASE row.st = "absent"
      BY <2>1, <3>1 DEF Account, AbsentRow
    <3>2. CASE row.st # "absent"
      BY <2>1, <3>2 DEF Account
    <3> QED
      BY <3>1, <3>2
  <2> QED
    BY <2>2 DEF after
<1> QED
  BY <1>1, <1>2, <1>4

\* One row replaced is one account replaced.
LEMMA AccountReplaced ==
    ASSUME NEW u \in UserIds, NEW row, users \in [UserIds -> UserRows],
           users' = [users EXCEPT ![u] = row]
    PROVE  [v \in UserIds |-> Account(users'[v])]
             = [[v \in UserIds |-> Account(users[v])] EXCEPT ![u] = Account(row)]
  OBVIOUS

\* The same when the new account is the old one: a stutter.
LEMMA AccountKept ==
    ASSUME NEW u \in UserIds, NEW row, users \in [UserIds -> UserRows],
           users' = [users EXCEPT ![u] = row], Account(row) = Account(users[u])
    PROVE  [v \in UserIds |-> Account(users'[v])]
             = [v \in UserIds |-> Account(users[v])]
  OBVIOUS

LEMMA DirectoryWrite ==
    ASSUME IInv, NEW r \in Requests, Writes(r),
           CommitPassword(r) \/ ~CommitsOvertaken(r)
    PROVE  [Directory!Next]_([u \in UserIds |-> Account(users[u])])
  <1> DEFINE a == req[r].actor  u == req[r].target
             seen == req[r].seen  f == req[r].form
             accounts == [v \in UserIds |-> Account(users[v])]
  <1>0. /\ RecordOK(req[r]) /\ seen \in UserRows
        /\ f.admin \in BOOLEAN /\ f.st \in Statuses
        /\ users \in [UserIds -> UserRows]
    BY DEF IInv, TypeOK, RecordOK, ReqRecords, AllForms
  <1>1. ~CommitPassword(r) => req[r].ph = "cleared"
    BY DEF Writes, CommitProfile, CommitStatus, CommitDelete, CommitMemberships,
           CommitCreate, At
  <1>f. ~CommitPassword(r) => Finishes(r)
    BY <1>1, WriteEndsRequest DEF Finishes, At, Idle
  <1>2. ~CommitPassword(r) => a \in UserIds /\ Directory!Usable(accounts[a])
    BY <1>0, <1>1, <1>f
    DEF CommitsOvertaken, RecordOK, UsableAdmin, ActiveAdmin, Directory!Usable,
        Account
  <1>3. ASSUME f.op # "create", a = u, ~CommitPassword(r)
        PROVE  seen.admin /\ seen.st = "active" /\ ~Losing(req[r])
    BY <1>0, <1>1, <1>f, <1>3
    DEF RecordOK, CommitsOvertaken, UsableAdmin, ActiveAdmin
  <1> HIDE DEF accounts
  <1>o. ASSUME ~CommitPassword(r), u \in UserIds, a # u, Present(users, u),
               NEW row \in UserRows, users' = [users EXCEPT ![u] = row]
        PROVE  Directory!Next
    <2>1. accounts' = [accounts EXCEPT ![u] = Account(row)]
      BY <1>0, <1>o, AccountReplaced DEF accounts
    <2>2. Account(row) \in Directory!AccountRows /\ accounts[u].st # "absent"
      BY <1>o, AccountAfterWrite DEF accounts, Present, Account
    <2>3. Directory!ChangeOther(a, u)
      BY <1>2, <1>o, <2>1, <2>2 DEF Directory!ChangeOther, accounts
    <2> QED
      BY <1>2, <1>o, <2>3 DEF Directory!Next
  <1>4. CASE CommitProfile(r)
    <2>1. u \in UserIds /\ ~CommitPassword(r) /\ f.op # "create"
      BY <1>0, <1>4 DEF RecordOK, CommitProfile, CommitPassword, At, AdminOps
    <2>2. /\ users[u] \in UserRows
          /\ Renamed(users[u], seen) \in UserRows
          /\ WithAdmin(users[u], seen, f.admin) \in UserRows
      BY <1>0, <2>1, RenamedRow, AdminRow
    <2>3. CASE f.op = "rename" \/ f.admin = seen.admin
      <3>1. users' = [users EXCEPT ![u] = Renamed(users[u], seen)]
        BY <1>4, <2>3 DEF CommitProfile
      <3> QED
        BY <1>0, <2>1, <2>2, <3>1, AccountAfterWrite, AccountKept
    <2>4. CASE ~(f.op = "rename" \/ f.admin = seen.admin)
      <3>1. /\ users' = [users EXCEPT ![u] = WithAdmin(users[u], seen, f.admin)]
            /\ Present(users, u)
        BY <1>4, <2>4 DEF CommitProfile
      <3>2. a # u
        BY <1>0, <1>3, <1>4, <2>1, <2>4 DEF CommitProfile, Losing
      <3> QED
        BY <1>o, <2>1, <2>2, <3>1, <3>2
    <2> QED
      BY <2>3, <2>4
  <1>5. CASE CommitStatus(r)
    <2>1. u \in UserIds /\ ~CommitPassword(r) /\ f.op # "create"
      BY <1>0, <1>5 DEF RecordOK, CommitStatus, CommitPassword, At, AdminOps
    <2>2. WithStatus(users[u], seen, f.st) \in UserRows
      BY <1>0, <2>1, StatusRow
    <2>3. a # u
      BY <1>0, <1>1, <1>3, <1>5, <2>1 DEF CommitStatus, Losing, RecordOK, Statuses
    <2> QED
      BY <1>5, <1>o, <2>1, <2>2, <2>3 DEF CommitStatus
  <1>6. CASE CommitDelete(r)
    <2>1. u \in UserIds /\ ~CommitPassword(r) /\ f.op # "create"
      BY <1>0, <1>6 DEF RecordOK, CommitDelete, CommitPassword, At, Asks, AdminOps
    <2>2. a # u
      BY <1>3, <1>6, <2>1 DEF CommitDelete, Asks, Losing
    <2>3. CASE Present(users, u)
      BY <1>6, <1>o, <2>1, <2>2, <2>3, AbsentRowIsARow DEF CommitDelete
    <2>4. CASE ~Present(users, u)
      BY <1>0, <1>6, <2>1, <2>4, AccountKept
      DEF CommitDelete, Present, Account, AbsentRow
    <2> QED
      BY <2>3, <2>4
  <1>7. CASE CommitMemberships(r)
    <2>1. u \in UserIds
      BY <1>0, <1>7 DEF RecordOK, CommitMemberships, At, Asks, AdminOps
    <2>2. Account(Counted(users[u])) = Account(users[u])
      BY <1>0, <2>1, AccountAfterWrite
    <2> QED
      BY <1>0, <1>7, <2>1, <2>2, AccountKept DEF CommitMemberships
  <1>8. CASE CommitCreate(r)
    <2>1. PICK v \in UserIds :
            /\ IsNextId(users, v)
            /\ users' = [users EXCEPT ![v] = Created(f.st, f.admin)]
      BY <1>8 DEF CommitCreate
    <2>2. accounts' = [accounts EXCEPT ![v] = Account(Created(f.st, f.admin))]
      BY <1>0, <2>1, AccountReplaced DEF accounts
    <2>3. /\ Account(Created(f.st, f.admin))
               = [st |-> f.st, cred |-> "temporary", admin |-> f.admin]
          /\ accounts[v].st = "absent"
      BY <1>0, <2>1
      DEF Account, Created, accounts, IsNextId, Present, Statuses, AbsentRow
    <2>4. Directory!Create(a, v)
      BY <1>0, <1>2, <1>8, <2>2, <2>3
      DEF Directory!Create, accounts, Statuses, CommitCreate, CommitPassword, At
    <2> QED
      BY <1>2, <1>8, <2>4 DEF Directory!Next, CommitCreate, CommitPassword, At
  <1>9. CASE CommitPassword(r)
    <2>1. /\ a \in UserIds /\ Present(users, a) /\ users[a] \in UserRows
          /\ users' = [users EXCEPT ![a] = WithPassword(users[a], seen)]
      BY <1>0, <1>9 DEF RecordOK, CommitPassword, At
    <2>2. accounts' = [accounts EXCEPT ![a] = [Account(users[a]) EXCEPT !.cred = "active"]]
      BY <1>0, <2>1, AccountReplaced, AccountAfterWrite DEF accounts
    <2>3. Directory!SetPassword(a)
      BY <2>1, <2>2 DEF Directory!SetPassword, accounts, Present, Account
    <2> QED
      BY <2>1, <2>3 DEF Directory!Next
  <1> QED
    BY <1>4, <1>5, <1>6, <1>7, <1>8, <1>9 DEF Writes

\* A step is one of the directory, or the commit of somebody overtaken.
LEMMA OvertakenOrDirectory ==
    ASSUME IInv, OperatorsAsk, [Next]_vars
    PROVE  DirectoryStep \/ \E r \in Operators : CommitsOvertaken(r)
<1>1. CASE users' = users
  BY <1>1 DEF DirectoryStep
<1>2. CASE users' # users
  <2>1. PICK r \in Requests : Writes(r)
    BY <1>2, UsersWrite DEF Writes
  <2>2. CASE CommitPassword(r) \/ ~CommitsOvertaken(r)
    BY <2>1, <2>2, DirectoryWrite DEF DirectoryStep
  <2>3. CASE ~CommitPassword(r) /\ CommitsOvertaken(r)
    <3>1. req[r].ph = "cleared" /\ RecordOK(req[r])
      BY <2>3 DEF CommitsOvertaken, Finishes, At, IInv
    <3>2. r \in Operators
      BY <3>1 DEF RecordOK, OperatorsAsk, OperatorAsks
    <3> QED BY <2>3, <3>2
  <2> QED BY <2>2, <2>3
<1> QED BY <1>1, <1>2

\* However many requests interleave, the tables leave the directory only by a
\* commit whose administrator lost its rights while the request ran.
THEOREM CommitsAreDirectorySteps == Spec => OnlyTheOvertakenLeaveTheDirectory
<1>1. IInv /\ OperatorsAsk /\ [Next]_vars
        => [DirectoryStep \/ \E r \in Operators : CommitsOvertaken(r)]_vars
  BY OvertakenOrDirectory
<1> QED
  BY <1>1, InitAsks, NextAsks, Invariance, PTL
  DEF Spec, OnlyTheOvertakenLeaveTheDirectory

DirectoryHolds == Directory!TypeOK /\ Directory!SomeUsable

\* The administrator who makes a change is the witness that one is left,
\* because no action takes a right from the account that performs it.
LEMMA DirectoryKeepsOne ==
    ASSUME DirectoryHolds,
           [Directory!Next]_([u \in UserIds |-> Account(users[u])])
    PROVE  DirectoryHolds'
<1> DEFINE db == [u \in UserIds |-> Account(users[u])]
<1>1. db \in [UserIds -> Directory!AccountRows]
  BY DEF DirectoryHolds, Directory!TypeOK
<1>2. PICK w \in UserIds : Directory!Usable(db[w])
  BY DEF DirectoryHolds, Directory!SomeUsable
<1> HIDE DEF db
<1>3. ASSUME NEW u \in UserIds, NEW x \in Directory!AccountRows,
             db' = [db EXCEPT ![u] = x],
             NEW a \in UserIds, Directory!Usable(db'[a])
      PROVE  DirectoryHolds'
  <2>1. db' \in [UserIds -> Directory!AccountRows]
    BY <1>1, <1>3
  <2> QED BY <1>3, <2>1 DEF DirectoryHolds, Directory!TypeOK,
         Directory!SomeUsable, db
<1>4. ASSUME NEW a \in UserIds, NEW u \in UserIds, Directory!ChangeOther(a, u)
      PROVE  DirectoryHolds'
  <2>1. Directory!Usable(db[a]) /\ a # u
    BY <1>4 DEF Directory!ChangeOther, db
  <2>2. PICK x \in Directory!AccountRows : db' = [db EXCEPT ![u] = x]
    BY <1>4 DEF Directory!ChangeOther, db
  <2>3. db'[a] = db[a]
    BY <1>1, <2>1, <2>2
  <2> QED BY <1>3, <2>1, <2>2, <2>3
<1>5. ASSUME NEW a \in UserIds, NEW u \in UserIds, Directory!Create(a, u)
      PROVE  DirectoryHolds'
  <2>1. Directory!Usable(db[a]) /\ db[u].st = "absent"
    BY <1>5 DEF Directory!Create, db
  <2>2. PICK st \in {"active", "disabled"}, admin \in BOOLEAN :
           db' = [db EXCEPT ![u] = [st |-> st, cred |-> "temporary", admin |-> admin]]
    BY <1>5 DEF Directory!Create, db
  <2>3. [st |-> st, cred |-> "temporary", admin |-> admin] \in Directory!AccountRows
    BY DEF Directory!AccountRows
  <2>4. a # u
    BY <2>1 DEF Directory!Usable
  <2>5. db'[a] = db[a]
    BY <1>1, <2>2, <2>4
  <2> QED BY <1>3, <2>1, <2>2, <2>3, <2>5
<1>6. ASSUME NEW u \in UserIds, Directory!SetPassword(u)
      PROVE  DirectoryHolds'
  <2>1. db' = [db EXCEPT ![u] = [db[u] EXCEPT !.cred = "active"]]
    BY <1>6 DEF Directory!SetPassword, db
  <2> DEFINE x == [db[u] EXCEPT !.cred = "active"]
  <2>2. x \in Directory!AccountRows /\ x.st = db[u].st /\ x.admin = db[u].admin
          /\ x.cred = "active"
    BY <1>1 DEF Directory!AccountRows
  <2> HIDE DEF x
  <2>3. db' = [db EXCEPT ![u] = x]
    BY <2>1 DEF x
  <2>4. Directory!Usable(db'[w])
    BY <1>1, <1>2, <2>2, <2>3 DEF Directory!Usable
  <2> QED BY <1>3, <2>2, <2>3, <2>4
<1>7. CASE UNCHANGED db
  <2>1. db' \in [UserIds -> Directory!AccountRows] /\ Directory!Usable(db'[w])
    BY <1>1, <1>2, <1>7
  <2> QED BY <2>1 DEF DirectoryHolds, Directory!TypeOK,
         Directory!SomeUsable, db
<1>8. Directory!Next \/ UNCHANGED db
  BY DEF db
<1> QED BY <1>4, <1>5, <1>6, <1>7, <1>8 DEF Directory!Next

\* What the directory promises, whatever the ids and however many accounts:
\* an administrator who can manage the others is always left.
THEOREM DirectoryKeepsAnAdministrator ==
    DirectorySpec => []DirectoryHolds
<1>1. Directory!Init => DirectoryHolds
  BY DEF Directory!Init, DirectoryHolds
<1> QED
  BY <1>1, DirectoryKeepsOne, PTL DEF DirectorySpec, Directory!Spec

\* The accounts have a usable administrator when the table has one.
LEMMA UsableOnBothLevels ==
    ASSUME NEW row
    PROVE  Directory!Usable(Account(row)) <=> UsableAdmin(row)
BY DEF Directory!Usable, Account, AbsentRow, UsableAdmin, ActiveAdmin

\* The last usable administrator is removed only by an administrator who was
\* removed while the request ran, whatever else goes on.
THEOREM OvertakenRemoveTheLast == Spec => OnlyTheOvertakenRemoveTheLast
<1>1. ASSUME IInv, OperatorsAsk, [Next]_vars, SomeUsableAdmin, ~SomeUsableAdmin'
      PROVE  \E r \in Operators : CommitsOvertaken(r)
  <2> SUFFICES ASSUME DirectoryStep PROVE FALSE
    BY <1>1, OvertakenOrDirectory DEF SomeUsableAdmin, vars
  <2>1. \A u \in UserIds : Account(users[u]) \in Directory!AccountRows
    BY <1>1, AccountAfterWrite DEF IInv, TypeOK
  <2>2. DirectoryHolds
    BY <1>1, <2>1, UsableOnBothLevels
    DEF DirectoryHolds, Directory!TypeOK, Directory!SomeUsable, SomeUsableAdmin
  <2>3. DirectoryHolds'
    BY <2>2, DirectoryKeepsOne DEF DirectoryStep
  <2> QED
    BY <1>1, <2>3, UsableOnBothLevels
    DEF DirectoryHolds, Directory!SomeUsable, SomeUsableAdmin
<1>2. IInv /\ OperatorsAsk /\ [Next]_vars =>
        [SomeUsableAdmin /\ ~SomeUsableAdmin' =>
            \E r \in Operators : CommitsOvertaken(r)]_vars
  BY <1>1
<1> QED
  BY <1>2, InitAsks, NextAsks, Invariance, PTL
  DEF Spec, OnlyTheOvertakenRemoveTheLast
=============================================================================

# Verification of auth-ingress

TLA+ specifications of auth-ingress, the portal that authenticates users and
lets them enter internal services, with TLC configurations and proofs checked
by TLAPS. Paths without a prefix are relative to `src/auth_ingress/` of the
repository.

## 1. The system

auth-ingress is a FastAPI application and a command line over one relational
database (SQLite by default). Its processes share nothing but the tables; each
process also keeps a few in-memory structures. Three kinds of concurrency meet:

- synchronous routes run on a pool of threads, asynchronous ones and the proxy
  middleware on the event loop, the command line in a process of its own;
- each request has a database session of its own (`repositories/database.py`).
  With SQLite and its Python driver a SELECT runs outside a transaction and
  sees what is committed at that moment, and the first INSERT, UPDATE or DELETE
  takes the write lock until the commit. An ORM flush writes only the columns
  that were assigned, `WHERE id = ...`; only `change_memberships` and
  `consume_launch_ticket` put what they had read into the WHERE clause;
- the proxy awaits upstream services and browsers in the middle of a request.

### Inventory

| Component | State | Operations | What is hard | What makes it correct |
|---|---|---|---|---|
| User administration and sessions (`services/user_admin_service.py`, `session_service.py`, `authentication_service.py`, `web/routes/auth.py`, `admin_users.py`, `security/dependencies.py`, CLI `users`) | `users`, `group_memberships`, `sessions` | create, rename, promote and demote, disable and reactivate, delete, replace memberships; sign in, validate, sign out, first password | check-then-write across transactions; revisions; ids given out again; sign-in racing a disable | somebody can always administer; a change of rights signs out; an ended session stays ended; columns change only on request; memberships are replaced at their revision |
| Launch and proxy authorization (`services/proxy_authorization_service.py`, `access_service.py`, `web/routes/services.py`, `proxy.py`, `security/cookies.py`) | `proxy_launch_tickets`, signed cookies; reads nearly every table | launch, bootstrap, forward, WebSocket handshake | one ticket in two browsers; policy changed between reads; a ticket or cookie of another service | one cookie per ticket; no forward without a launch of the same session and service; every condition held after the request arrived |
| Password reset (`services/password_reset_service.py`) | `password_reset_requests` | initiate, deliver, complete, invalidate | double consumption; two initiations; delivery failing after the commit | a used link is refused to whoever comes later; a new link supersedes the older ones; links leave with their account |
| Installation (`services/bootstrap_service.py`, `repositories/schema.py`, `cli.py`, `main.py`) | `installation_state`, the schema | create and upgrade the schema, backfill keys, bootstrap, seed demo data | processes racing and killed; DDL that commits by itself | one first administrator; initialized for good; keys are those of the names; somebody gets ready |
| Group administration (`services/group_admin_service.py`, `web/routes/admin_groups.py`) | `groups` | create, update, deactivate, reactivate, remove | revision, guard and dependencies checked before the write; ids given out again | a life cycle change was allowed at some moment since its form |
| Service catalogue (`services/service_admin_service.py`, `service_compatibility_service.py`, `web/routes/admin_services.py`) | `service_entries`, `access_rules` | save, check compatibility | merged columns; a check's result stored after the destination changed | enabled services have rules, sockets imply proxy and a result belongs to its policy, but where forms and checks race |
| Access queries (`services/access_service.py`) | none | `permitted_service_query`, `may_enter`, `effective_access_for_user` | three formulations of one policy, dangling rows | they agree |
| Rate limiting (`security/rate_limit.py`) | attempts per key | blocked, failure, success, allow | check and count are two critical sections; times taken before the lock | bounded overshoot; no way past a full window; lockouts end |
| Health (`services/health_service.py`, `web/routes/health.py`) | last status | indicators, overall status, transitions | nine reads of a changing database, any of which may fail | healthy and every reason were true meanwhile; transitions make a chain |
| WebSocket relay (`services/proxy_websocket_service.py`) | open connections | connect, accept, pump both ways, time out, clean up, close at shutdown | two pumps, a deadline and failures on each path | nothing outlives its relay; the registry has the open ones |
| Event loop and connection pool (`web/routes/proxy.py`, `services/proxy_http_service.py`, `repositories/database.py`) | checked-out connections, the loop | check out, await an upstream, give back | a synchronous wait for a connection that only the stopped loop gives back; uploads without a timeout | each connection comes back; each request ends whose browser sends its body |
| HTTP forwarding (`services/proxy_http_service.py`, header policy, destinations) | none | forward, rewrite headers and redirects | none: pure functions of one request | - |
| Audit (`services/audit_service.py`) | `audit_events` | append, query | separate commits under a crash | evidence for each change |
| Release scripts (`scripts/release/`) | none | build and verify | none: sequential | - |

`PROJECT.json` lists the hazards at their lines.

## 2. The modules

    UserDirectory  <--implements--  UserAdmin  --EXTENDS-->  Accounts
                                       |
                                    UserAdminProofs, MCUserAdmin

    ProxyAccess    <--  ProxyAccessProofs, MCProxyAccess
    PasswordReset  <--  PasswordResetProofs, MCPasswordReset
    AccessPolicy
         ^
         +--EXTENDS--  Catalogue  <--  CatalogueProofs, MCCatalogue
    SignInLimiter  <--  SignInLimiterProofs, MCSignInLimiter
    Health         <--  HealthProofs, MCHealth
    Installation   <--  InstallationProofs, MCInstallation
    EventLoop      <--  EventLoopProofs, MCEventLoop

**Accounts** has the rows of `users` and `sessions`, the guards that read them
and the columns that each mutation writes, as operators without state. A write
takes the row in the table and the row the request read (`row`, `seen`): the
assigned columns replace those of the row in the table, the new revision is
computed from the row that was read.

**UserAdmin** is the component with its concurrency. Its variables are the
tables (`users`, `memberOf`, `sessions`) and one record per request slot (`req`)
with what a handler keeps in its local variables: the form, the target and its
expected revision, the cookie's session, the actor, the row of the target that
was read. A handler is one action per SELECT and one per write transaction:

| Code | Actions |
|---|---|
| a page or CLI call with a revision | `OpenInBrowser`, `OpenOnCommandLine` |
| `validate_session` | `ReadCookie`, `ReadUser`, `TouchSession` |
| `authenticate_cli_actor` | `CliSignIn` |
| `require_admin_actor` | `RecheckActor` |
| `_target_for_change` | `LoadTarget` |
| `_protect_admin_change`, no-change answers, look-ups of `create_user` | `ClearChecks` |
| `update_user`, `set_user_status`, `delete_user`, `change_memberships`, `create_user` | `CommitProfile`, `CommitStatus`, `CommitDelete`, `CommitMemberships`, `CommitCreate` |
| `authenticate`, `create_session` of sign-in | `Authenticate`, `CreateSession` |
| `change_password`, `sign_out` | `CommitPassword`, `CommitSignOut` |
| refusals, previews, failed statements, a killed process | `Abandon` |
| the end of a session's lifetime | `Expire` |

A form is any operation with any value, a browser sends any cookie it was ever
given, and a slot may be abandoned between any two steps.

**UserDirectory** says what user administration promises without requests: each
change is one step of somebody who is a usable administrator (active, with a
password of his own, flagged) and who keeps that right in this step. With one
administrator's request at a time `UserAdmin` implements it (`DirectorySpec`); with
several it departs from it in one way only, the commit of a request whose
administrator lost the rights after `require_admin_actor`
(`OnlyTheOvertakenLeaveTheDirectory`). A commit on another account is
`ChangeOther`, a creation `Create`, a first password `SetPassword`; renames,
memberships, sessions and reads are stutters.

**ProxyAccess** has the policy tables as one record of sets, the sessions, the
tickets, the cookies that browsers hold, and one record per request. `Launch`
starts `enter_service`, `Bootstrap` `consume_launch_ticket`, `Visit` and
`OpenSocket` `authorize_proxy_cookie` for HTTP and WebSockets. They share the
reads (`ReadTicket`, `ReadSession`, `ReadUser`, `ReadService`, `ReadRules`),
which are separate steps, and end in `IssueTicket`, `Redeem`, `ReachService` or
`Abandon`. Between them run sign-ins, sign-outs, expiries and every administrator's
change of an account, a membership, a group and a service, each the effect of
its commit. `Redeem` may lose the answer after the commit. Two history variables
record which conditions were true since a request arrived (`held`) and how many
cookies a ticket was turned into (`redeemed`); no guard reads them.

**PasswordReset** has the accounts with their user ids, the password of each
id (named by the link that set it), the open sessions with the password that
opened them, the table of reset requests, and one record per request slot.

| Code | Actions |
|---|---|
| the `reset_password` route | `StartReset` |
| `initiate_reset` | `ReadActiveLinks`, `InsertLink`, then `Deliver`, or `FailToDeliver` and `Withdraw` |
| `reset_form` and the form's submission | `PresentLink` |
| `complete_reset` | `ReadLink`, `ReadOwner`, `CompleteReset` |
| `authenticate`, `create_session` of sign-in | `CheckPassword`, `OpenSession` |
| `create_user`, `delete_user` | `CreateAccount`, `DeleteAccount` |
| lifetimes, sign-outs, failures | `ExpireLink`, `EndSession`, `Abandon` |

Rows are written by primary key (`RowsFound`): SQLite gives out the id of a
removed request again, so an UPDATE may find the row of another one. Delivery
may fail before or after the mail left, and the process may be gone between the
commit of a link and its withdrawal. Two histories, who had the id when a link
was inserted (`for`) and how many passwords it set (`uses`), are read by no guard.

**AccessPolicy** has the three access queries as operators on a database, a
record of the tables that they join. A rule or a membership may name a group
that is absent. **Catalogue** extends it and has the tables that the queries
read, with the pages that write them:

| Code | Actions |
|---|---|
| `persist`, `update_service` | `SendForm` |
| `save_service` | `FindGroups`, `FindService`, `CheckSlug`, `CommitSave` |
| `check_service_compatibility` | `AskUpstream`, `CommitAnswer` |
| `create_group` | `NameGroup`, `CommitNewGroup` |
| a group's page | `ShowGroup` |
| `_group`, `_check_revision` | `LoadGroup` |
| `update_group` | `CheckName`, `CommitGroupUpdate` |
| `_protect_last_admin_group_change` | `ReadAdministrators`, `ReadMemberAdministrators` |
| `dependency_summary`, as `remove_group` uses it | `CountMembers`, `CountServices` |
| the writes of a life cycle | `CommitDeactivation`, `CommitReactivation`, `CommitRemoval` |
| `change_memberships` | `CheckMemberships`, `CommitMemberships` |
| `set_user_status` | `ChangeUserStatus` |

A service form and a compatibility check write the columns that differ from the
row they read (`Flushed`), so two of them merge in one row. A group form is
shown with a revision and sent at any later time. Histories, which no guard
reads: the creation that a group comes from (`serial`), also in the rows that
were written for it; the policy that a compatibility result was measured with
(`for`); and what held since a group form was made (`since`).

**SignInLimiter** has the deque of each key and a record per thread. A moment is
written as its age and every age grows with `Tick`, so the clock may go on for
ever in a finite model. `blocked` is `Arrive` (the clock) and `Ask` (the critical
section), `failure` is `TakeTimeOfFailure` and `CountFailure`, `success` is
`Forget`. `Pruned` is the loop of `_prune` on a deque that need not be sorted.
The history `failures` keeps the failures of the window without pruning.

**Health** has the facts that hold now (`world`), which `Change` replaces at any
time, and a record per probe: what it has read so far and its result. Each
question is an action and may fail; `Checks` are the five indicators, `Overall`
their fold, in the order of the code. `ReadPrevious`, `LogTransition` and
`ReplacePrevious` are `emit_health_transition`. The histories are the facts that
held during each evaluation and the last answer.

**Installation** has the database file (which tables, columns and indexes there
are, the named rows of `users` and `groups`, the row of `installation_state`),
the holder of the write lock, and a record per process.

| Code | Actions |
|---|---|
| the commands of `cli.py`, the lifespan | `Start`, `Stop` |
| `_add_columns` | `Inspect`, `Alter` |
| `_backfill_normalized_emails`, `_backfill_normalized_groups` | `ReadRows`, `WriteRows` |
| `Base.metadata.create_all` | `ListTables`, `CreateTable`, `CreateIndex` |
| `_ensure_installation_state` | `ReadState`, `ReadCount`, `WriteState` |
| `bootstrap_admin` | `Begin`, `Refuse`, `Allow`, `CommitBootstrap` |
| `seed_demo` | `LookForUsers`, `CommitSeed` |
| `update_user`, `update_group` in the portal | `Rename` |
| a lock that is not given, a process that is killed | `LockTimesOut`, `Kill` |

ALTER and CREATE commit by themselves; a statement that SQLite refuses ends the
process. What is written in one transaction is one action, its commit; only
`bootstrap_admin` reads under the write lock, which is why `Begin` takes it and
the later steps of others wait for it.

**EventLoop** has what requests share: the connections of the pool (`holds`), the
loop, which a checkout stops while the pool is empty (`blocker`), and the registry
of upstream sockets (`active`; `stale` counts the entries of relays that are
over). `Lookup`, `Authorize`, `Refresh`, `Decide`, `Record` and `Exit` are common to
`handle_proxy_http` and `handle_proxy_websocket`. A request asks for a connection
three times: for the service of its host, for `db.refresh(service)` after
`validate_session` has committed and so given the connection back, and for the
audit event. Between `Decide` and `Record` are the forwarding, or the relay:
`Connects` or `ConnectFails`, `Accepts` or `AcceptFails`, the two pumps
(`UpPumpEnds`, `DownPumpEnds`), `FirstCompleted` or `LifetimeEnds` with
`CloseUpstream` and `CloseBrowser`, then `CleanUp` and `Leave`. `forward_http`
sends the body as the browser sends it: a request in `uploading` may stay there
for ever (`UploadEnds` owes nothing) and keeps its connection, unless the
forwarding fails early (`ForwardedEarly`); otherwise it is `Forwarded`. A page of
the portal is dispatched by the loop, waits for its connection in a thread of its own
(`Ask`, `Work`) and needs the loop to close its session. Browsers and upstreams
leave at any time.

## 3. The runs

The check for deadlock is on in every run. Each run has a question of its own:

| Run | Bounds | Shows |
|---|---|---|
| `admins_interleaved` | 2 administrators' requests, 2 accounts, 1 group, 1 token, revisions up to 3; rename, demote, disable, reactivate, join | Columns change only as requested, nobody removes himself, memberships are swapped at their revision; only a request whose administrator was overtaken departs from `UserDirectory` or removes the last administrator |
| `one_admin_at_a_time` | 1 administrator's request, 1 visitor, every operation, an administrator and a newcomer, 1 token | `UserDirectory`, in which a usable administrator remains, is implemented; a change of rights ends sessions, for good |
| `ticket_races` | 2 requests, 2 tickets, 2 services, 2 sessions | One cookie per ticket; no forward without launch |
| `access_revoked` | 1 request, all changes of the policy | Every condition held since the arrival; cookies imply a password |
| `resets` | 2 requests, each a reset, a completion or a sign-in; 2 accounts with one id, 3 links, 1 open session | An account has no more usable links than resets can race; a used link serves only who was past its check, and its row tells that it was used; it leaves with its account; a reset ends sessions |
| `catalogue` | 2 service forms or checks, 1 group form, 1 membership form at a time, 5 in all; 2 groups, 2 services, 2 administrators, 7 service forms, revisions up to 2 | Services become invalid only by merges of two forms, and results outdated only by races with a save; no life cycle change passes by a state that never was; the access queries agree on every database that is left |
| `sign_in_limits` | 2 threads, one account from 2 clients, 2 attempts, a window of 2 ticks, a stall of 1 | Overshoot below the number of threads; nobody passes a full window; lockouts end |
| `health` | 1 probe, 3 of 9 states of the installation during one evaluation | Healthy, and every reason, was true meanwhile; the transitions of one prober make a chain that misses nothing |
| `installation` | 2 processes, 2 tables, 2 rows, 3 spellings of which 2 are typed, 1 kill, 1 rename, 4 files to start from | One first administrator; initialized for good; setup means nobody; keys of the names; somebody gets ready |
| `event_loop` | 1 HTTP request, 1 relay, 1 page, 2 connections | Connections come back; nothing outlives its relay; the registry has the open relays; every request ends or waits for its own browser's upload |
| `last_admin_race`, `new_group_inherits` | as `admins_interleaved`; one group and one membership form | Violations, see below |

Bounds. Two requests are enough for every race between a check and a write,
because each property relates one request to one other commit; more requests
only repeat it. `one_admin_at_a_time` is the exception: the refinement holds with
one administrator's request, and what happens with two is stated in
`admins_interleaved`. Two accounts are what "the other administrator" needs. Three
revisions let a form become stale and a second one commit: `MaxRevision` stops a
row from being changed again. A token is
drawn once (`SessionIds`), so its number bounds the sign-ins; a ticket is issued
once (`Tickets`). `access_revoked` has one request because conditions are read
per request and requests influence each other only through tickets, which
`ticket_races` covers. In `PasswordReset` one user id is enough, since links of
different ids meet only in the ids of their rows, and those are given out again
within one account's removals already; two accounts make one reuse of each id;
links are drawn once, so their number bounds the resets: two that race and one
before or after them. `MaxSessions` bounds the sign-ins that are open at a time.
Slots, tickets, links and accounts are symmetric.

In `Catalogue` two requests on the service pages are the two forms that merge, or
the check and the form that race; five requests are a creation, the two, and two
more that meet them; the forms contain a renaming, a destination and a
flag that change, and both that are refused. Two groups are "another group" for
the guard and for the name. In `SignInLimiter` a second attempt is the first that
fills a key, and a window of two ticks lets one event expire before another; a
call is not delayed beyond `MaxStall` ticks between the clock and the lock, which
stands for a delay shorter than the window (the setting is minutes). In `Health`
three states are one more than a mixture of two; probes share only the last
status, and more than one at a time is a disagreement below. In `Installation`
one more kill or rename repeats the first; the four files are an empty one, a
release before normalized names, the same with two names that collide, and one that
is up to date but whose state row is behind its users; `service_entries` and `audit_events` only get
columns, as `users` does. In `EventLoop` a request, a relay and a page are one
more than the pool has; `MaxStale` counts failed handshakes no further.
The proofs below hold without these bounds.

Fairness is stated where something must happen, and only as far as the code
justifies it. `SignInLimiter`: the clock goes on, and a thread that has the
password compared and the lock given goes on; clients need not stop trying.
`Installation`: a process that can go on does, and somebody starts the commands
again; nothing is assumed of locks that time out, kills or renames. `EventLoop`:
the callbacks of asyncio run in the order in which they became ready, so a task
that can run again and again does, although the loop is stopped in between
(strong fairness of `LoopStep`); a wait for the pool ends, with a connection or
after `pool_timeout`; threads run. That an upstream that has the body answers or
times out is `downstream_timeout_seconds` (of each read; that it does not send
pieces of an answer for ever is assumed). Nothing is assumed of browsers: they need
not send the rest of a body, nor leave, and so `Forwarded` is fair only after the
upload, and `EveryRequestEnds` excepts a request whose own upload stands still
(`Stalled`), but none of those that it keeps waiting. No request need arrive.
The other specifications state no fairness: a request there ends by its own steps
or by `Abandon`, which nothing promises.

### Disagreements between documents and code

Two have a run that TLC finds violated:

| Run | The documents say | The code does |
|---|---|---|
| `last_admin_race` | `specs/004-manage-user-access/data-model.md:67`: at least one active administrator after every committed mutation | two administrators who demote or disable each other both count the other (`user_admin_service.py:132`), both commit |
| `new_group_inherits` | `specs/008-group-management/spec.md:65`: stale submissions do not attach to the wrong group; `:69`: a form for a deleted group fails without a dangling relationship | a membership form finds its groups before its transaction and compares only the user's revision in it (`user_admin_service.py:71`); the row it leaves is inherited by the next group with the id (`group_admin_service.py:284` deletes the largest id, SQLite gives it out again). The same happens with a service form and its rules |

Others are steps of the models that the properties of the runs allow for, or show when a
bound of a run is lifted:

| Module, with | The documents say | The code does |
|---|---|---|
| `UserAdmin`, 2 administrators | 004 spec.md:148 (FR-011): conflicting writes are rejected | the revision is compared before the write transaction (`user_admin_service.py:123`), not in it |
| `UserAdmin`, 2 administrators | 004 spec.md:169 (SPR-003): authorization is checked when a mutation is executed | the actor is read before the write transaction (`:19`) |
| `UserAdmin`, a sign-in beside a removal | `docs/user-management.md:41`: removal removes sessions | a sign-in that checked the password before stores its session afterwards (`session_service.py:29`), and SQLite gives the id out again |
| `PasswordReset`, 2 resets at once | 004 data-model.md:146: only one active request per user | two resets supersede only what each read before its transaction (`password_reset_service.py:61`), and leave two usable links; the run allows one for each that can race, no more (`NoMoreLinksThanResetsAtOnce`) |
| `PasswordReset`, 2 completions at once | 004 data-model.md:149: consumed secrets cannot reset a password | two completions both find the link usable (`:81`), neither compares at its write, and both set a password; the run allows it to those that were past the check, to nobody later (`NoMorePasswordsThanRacers`) |
| `Health`, 2 probes | `specs/010-health-check-monitoring/data-model.md:144`: repeated checks that keep the same state are quiet | two probes read the last status before either replaces it (`health_service.py:531`): `TransitionsMakeAChain` fails. (The lines go to the logger `auth_ingress`, and `main.py` configures `auth_portal` only.) |
| `Installation`, without `crossed` | 004 spec.md:148 | a rename between a backfill's SELECT and UPDATE gets the key, and for a group the name, of before (`schema.py:56`, `:88`); every `users` command runs the backfill |
| `Installation` | 004 spec.md:161 (FR-024): bootstrap, and nothing else, on an installation without identities | `seed_demo` looks for users once, before it asks for passwords (`cli.py:36`), and adds its accounts to whoever came meanwhile |
| `Installation`, a kill between CREATE TABLE and CREATE INDEX | 004 data-model: normalized e-mail is unique | the index is missing until the next start backfills (`schema.py:69`) |
| `Catalogue`, 2 administrators on one service | `specs/001-auth-entry-portal/data-model.md:125`: each enabled service entry must have at least one access rule | the UPDATE writes the columns in which a form differs from the row that was read, and replaces the rules (`service_admin_service.py:89`): a valid form that leaves a disabled service disabled takes away the rules with which another form enabled it meanwhile; likewise sockets without the proxy, and a result kept beside a policy it was not measured at. `OnlyMergesMakeServicesInvalid` and `OnlyRacesOutdateResults` say that these races are the only ways |
| `EventLoop` | - | the entry of a handshake that fails at accept stays in `_active_connections` (`proxy_websocket_service.py:88`); a request whose browser stops in the middle of its body keeps its handler and its connection, and no timeout ends it (`proxy_http_service.py:33`); a checkout on an empty pool stops the loop until a thread gives a connection back or 30 seconds have passed; the lifetime of a relay is computed before `connect` (`:74`) and begins after it |

The properties except three schedules of the same kinds, which the code admits:
a sign-in whose password was compared before an account is disabled or its
password is reset stores its session afterwards (`RightsChangeEndsSessions` and
`ResetsEndSessions` speak of the sessions that are there at the commit); a reset
that read its target before the removal inserts a link afterwards
(`LinksLeaveWithTheirAccount` excepts a link made while nobody had the id); and
`complete_reset`, which writes by primary keys, may find the rows of the next
account when both ids were given out again before its commit. And
`LifecycleChangesWereAllowed` excepts a change of the active administrators
between the two SELECTs of the guard, which compares two sets of different
moments, and asks for each condition at some moment since the form was made,
not for all at the commit.

## 4. The theorems

All hold for every value of the constants and every bound, under the assumptions
that the modules name (for instance a positive id bound, tokens that differ from
"none", forms and initial tables of the right type, an initial usable
administrator, an owner for each session, a positive limit and window, a finite
set of threads, tables listed in order with `users` among those that have keys, a
file to start from whose keys are those of its names where it has keys, and at
least one slug, destination and name). No theorem assumes a schedule: all are about
any number of concurrent requests, which may interleave at every read and commit.
Each safety property that a run checks is Each safety property that a run checks is stated by a theorem, but for three, see
"Model-checked only".

**UserAdminProofs.** `Invariance`: the inductive invariant `IInv` adds to
`TypeOK`, for each request, what its phase says about its record: an actor who
was identified has an id; a request past `RecheckActor` carries an
administrator's operation; a form about a user has a target; the row that was
read is the row of somebody; and a request that passed the checks and takes
rights away has a target other than its actor, a status change a status other
than the one it read. The typing alone is not inductive, because a commit
copies from the row that was read. From it follow `EndedSessionsAreFinal`,
`ColumnsOnlyOnRequest`, `NobodyRemovesOneself` and `RightsChangeSignsOut`, each
by cases of the step, for any number of concurrent requests.
`MembershipsAtTheirRevision` needs one fact more, `OperatorsAsk`: only an operator's
request carries an administrative form. The replacement of the memberships is
then traced to one form, whose set it is, and whose revision the account still
has in the transaction that writes.

`CommitsAreDirectorySteps` says how far user administration implements the
directory with any number of administrators: a commit whose actor is still a usable
administrator (and was one when loaded as the target, if it is its own) is one step
of the directory by that actor, who keeps the right in it (`_protect_admin_change` refuses self-removal, so
the invariant gives a target other than the actor). Hence stale forms, lost
revisions, the count of administrators and ids given out again cause no departure;
only a request whose administrator was overtaken (`CommitsOvertaken`) can.
`OvertakenRemoveTheLast` combines this with the promise of the directory itself,
that each step leaves somebody usable (`DirectoryKeepsOne`, and as a theorem about
the directory `DirectoryKeepsAnAdministrator`): only such a request locks
everybody out, and `last_admin_race` shows that it does.

**ProxyAccessProofs.** The inductive invariant connects the four kinds of state:
a request's phase says which conditions are in its history (`Passed`); its
session was drawn, its ticket or cookie is real and of the same session and
service (`Linked`); an issued ticket belongs to a session whose owner, if it is
still live, has a password of his own (`Vetted`), since every change that gives
an account a temporary password ends its sessions; a ticket that is not consumed
has been turned into no cookie; a cookie has a consumed ticket. `AuthorizedSinceArrival`,
`TicketsAreRedeemedOnce`, `ForwardedAfterLaunch` and
`CookieOwnersChoseTheirPassword` follow.

**PasswordResetProofs.** The inductive invariant: a link that is not drawn is
blank and unused; one that is drawn has a user id, which it keeps; while its row
is there, the account it was made for has the id, and if it set a password, the
row says so; a request carries links that were drawn, and a completion has its
link's user id. `RowsWritten` and `LinksKeep` say what every UPDATE leaves
alone, so each writing step is shown to be of one of these forms.
`LinksLeave`, `UsedLinksStayConsumed` and `ResetsSignOut` hold for any number of
concurrent requests. `ResetsLeaveOneLinkEach` rests on `ResetsInv`, about every set
of resets of one account that have read its active links and are about to write: the
usable links that none of them has read, and they, are together no more than the
slots. A bound on all links and all waiting resets at once would not be inductive,
because a reset supersedes the links it has read; of those that only others have
read, each set has its own count. `RacersAloneUseALinkAgain` needs only that the
row of a used link says so (`UsedLinksAreConsumed`): a completion that passes the
check proves the link unused, and one that sets a password leaves those that race.
The rows of `PasswordReset` under "Disagreements" say how the bounds are reached.

**CatalogueProofs.** `QueriesAlwaysAgree` is about operators: for every database,
with dangling rows, the list, the decision and the report agree. It rests on one
lemma for the EXISTS of the list against that of the decision and one for the
joins of the report; `QueriesAgreeInService` applies it to what the pages leave
behind. The inductive invariant of the pages, `TInv`, adds to the types what each
phase says of a request's record (`Sound`): a form past the first checks is valid
and found its groups (`Filled`), and a service that is created starts from an empty
row. `MergesAloneMakeServicesInvalid` and `RacesAloneOutdateResults` rest on
`SInv`, that a request holds a row only of a service that exists and that a service
which does not exist has the columns of a new one. Each save and each answer is
then followed column by column: a column of the merged row is either that of the
form, which was validated together with the row that was read, or that of the table,
and where the two disagree in a way that matters another commit came between.
For `LifecycleIsChecked` the history `since` of a request
collects what was true of its group while it went on, and `AllWatched` says which of
these a request that is past each SELECT of the guard has found; between the two
that the guard compares, either the administrators are those that were read or
`since` has their turnover.

**SignInLimiterProofs.** `OvershootBound`: failures in the deque and threads
that were let through together stay below the limit plus the number of threads.
The step that matters is `Ask`, which lets a thread through only when the deque
is below the limit, and `CountFailure`, which moves one thread into the deque;
pruning and forgetting only lower it (`PrunedIsNoLonger`). `FullKeysStop`: a deque
is not sorted, and what `_prune` leaves depends on a time read before the lock,
but each recent failure of the history has an event of its own, of its own age
(`NoFailureIsLost`, an injection into the deque). Popping stops at the first recent
event, so it shifts the injection (`PruningKeepsTrack`); counting and the clock
extend it; hence what is left when a request asks is at least as long as its
history. Both are parts of one inductive invariant with the types. That lockouts
end is liveness and stays with TLC.

**HealthProofs.** The inductive invariant `HInv` (`Grounded`) says, for each probe and
each answer it has collected, that the answer was that of one of the installation's
states since the probe began (a failure: that one of the states explains it). That
history only grows, so what was learned stays grounded while others write;
`FoldJudges` carries it from the answers to the status and the reason. `HealthyIsTrue`
and `ReasonsAreTrue` follow for any number of probes and changes.
What the lines of several probes make is not promised by the code and not stated.

**InstallationProofs.** `FirstAdministrator` (one bootstrap, and only without
users), `SetupIsOver` (initialized for good) and `SetupIsForNobody`. The inductive
invariant `IInv` says for each process what it knows (`Sound`): the process
between `check` and `insert` holds the write lock, so that there is nobody is
still true when it commits; what was read of the state row only moves on; a
process that counted nobody finds nobody, or an installation that became
initialized; one that is ready finds the state row, and nobody if setup is
required. Globally, a bootstrap left an account behind (`FirstIsThere`). Every
step is shown to preserve the process that takes it, and to have an `Effect` on
the database that leaves the others sound: rows stay, the mark of an initialized
installation stays, and nobody writes while another process holds the lock. Without the lock of BEGIN IMMEDIATE
(the mutant `BeginDeferred`) TLC finds two first administrators.
`BackfilledKeys` has an invariant of its own, `KInv`, which extends `IInv`. A process
that is past a table lacks none of its columns (`Upgraded`); the rows that it read
and is about to write have kept their names, and those that came meanwhile have
their keys (`RowsKnown`); a table that it went through has its index and only keys
that are those of the names (`SawKept`). Tables with a rename between a backfill's
SELECT and UPDATE (`crossed`) are excepted. Each step is shown to do the `Upkeep` of the file on
which the knowledge of the other processes rests: columns and indexes do not go
away, and a row is as it was, or has its key. `LegaciesAssumption` says of the files
to start from what an earlier release and SQLite's unique index guarantee.

**EventLoopProofs.** For any set of requests, relays and pages and any size of the
pool: `ConnectionsReturn`, `RelaysEndClean`, `RegistryIsExact`, and, as part of
`TypeCorrect`, that no more connections are out than the pool has. The inductive
invariant `IInv` adds that the task which stops the loop is at one of its three
checkouts (`BlockerWaits`; otherwise a checkout that times out could end a relay
with its pumps running), and ties each relay's place in its program to its link
(`Tidy`): pumps run only from `relay` to `finally`, the upstream is closed wherever
there is no link, and the registry has exactly the relays from `accept` to
`finally`. A step moves one task, so `OneTaskMoves` leaves to each action what it
does to its own connection and link; that the pool is not exceeded is apart
(`PoolStays`), since it rests on cardinalities.

Model-checked only: liveness under fairness (`LockoutsEnd`, `SomebodyGetsReady`,
`EveryRequestEnds`), which is out of TLAPS's reach, as is ENABLED; and three safety
properties that hold of one prober or one administrator's request, but not of
several: `TransitionsMakeAChain` and `NoTransitionIsMissed`, and `DirectorySpec`,
whose general form is `CommitsAreDirectorySteps`. Two probes of nine questions each are too many states for
a run, so the race of two probes is only described. No
recursive function over data is modelled, so no induction over data was needed.

## 5. What is left out

- E-mail addresses, names and passwords are not values: a duplicate address is
  an `Abandon`, a wrong password no step. Audit rows written in the same commit
  change no modelled table and are left out; those that commit by themselves
  are modelled where the commit matters (`EventLoop`).
- `PasswordReset` does not repeat the checks of the administrator and of the
  target's revision, nor the revision's increment, which are `UserAdmin`'s
  pattern, nor `change_password`, which is one of its operations. Accounts
  besides those with the modelled ids only make ids larger.
- `ProxyAccess` does not repeat the write of `last_seen_at`, which
  `UserAdmin` shows to be harmless, and does not model what is forwarded.
  Services are never deleted by the code. The host parser is taken by its
  result, the service that a host names.
- `Catalogue` leaves descriptions and display names out, except that a group form
  may change nothing but the description; the actor's rights and the user's
  revision are `UserAdmin`'s. `SignInLimiter` keeps the keys of a deque that is
  empty, which the code drops, because nothing tells them apart.
- `Health`: the texts of the indicators and their redaction, severities and the
  correlation id. `Installation`: the demo's groups, services and second
  accounts; `init-db` is a start that ends at once.
- `EventLoop`: frames, subprotocols, the streaming of a response after its
  handler, the pool of httpx clients, several worker processes.
- Header policies, destinations and redirects (`proxy_header_policy.py`,
  `proxy_destination.py`, `proxy_host.py`) are pure functions on texts, with tables
  of tests; configuration, CSRF tokens, password hashes, templates and command
  output have no shared state; the release scripts are sequential. They are not
  modelled.
- A database other than SQLite: ids would not be given out again and foreign
  keys would be enforced, so the disagreements about ids that are given out again,
  and `Installation`, are about SQLite.

## 6. Plan

Left for later: the evidence that a crash between a change and its own audit
commit loses; and what two probes may log at most, once the questions of a probe
are few enough to have two.

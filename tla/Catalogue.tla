----------------------------- MODULE Catalogue ------------------------------
(***************************************************************************)
(* The administrators' pages for groups and services, and the assignment   *)
(* of memberships: group_admin_service.py, service_admin_service.py,       *)
(* service_compatibility_service.py and change_memberships.  A handler     *)
(* reads with one SELECT per step and writes in one last transaction.      *)
(* Group ids are given out again, and no foreign key is enforced.          *)
(*                                                                         *)
(* That the actor is an administrator and that a membership form shows the *)
(* current user row are questions of UserAdmin.                            *)
(***************************************************************************)
EXTENDS AccessPolicy, Naturals

CONSTANTS
    Administrators, \* the users with is_admin
    Slugs, NoSlug,  \* the names of services; a form that creates one
    Destinations,
    Forms,          \* the service forms that are submitted
    Editors,        \* request slots of the service pages
    Keepers,        \* request slots of the group pages
    Assigners,      \* request slots of the membership pages
    MaxRevision,    \* bound: the changes of one group
    MaxGroups,      \* bound: the groups that are ever created
    MaxRequests     \* bound: the requests that are ever sent

NoGroup == 0

ASSUME GroupIdsAssumption == GroupIds \subseteq Nat \ {NoGroup}

ASSUME AdministratorsAssumption == Administrators \subseteq Users

ASSUME NoSlugAssumption == NoSlug \notin Slugs

ASSUME SamplesAssumption == Slugs # {} /\ Destinations # {} /\ Names # {}

ASSUME BoundsAssumption ==
    MaxRevision \in Nat \ {0} /\ MaxGroups \in Nat /\ MaxRequests \in Nat

ServiceForms ==
    [orig : Slugs \cup {NoSlug}, slug : Slugs, st : {"enabled", "disabled"},
     dest : Destinations, px : BOOLEAN, ws : BOOLEAN, names : SUBSET Names]

ASSUME FormsAssumption == Forms \subseteq ServiceForms

VARIABLES
    users,          \* the status of each user
    groups,         \* the groups table
    services,       \* the service_entries table
    rules,          \* the access_rules table
    members,        \* the group_memberships table
    req,            \* what each request slot is doing
    made,           \* history: how many groups were created
    sent,           \* history: how many requests were sent
    since           \* history: what held at some moment since a group form was made

vars == <<users, groups, services, rules, members, req, made, sent, since>>

Serials == 0..MaxGroups

\* `serial` is a history of the row: which creation made this group.  The
\* rows of the two association tables keep the serial of the group that was
\* meant when they were written.
GroupRows ==
    [st : {"absent", "active", "deactivated"}, name : Names,
     rev : 0..MaxRevision, serial : Serials]

\* compat abstracts compatibility_status: "limited" stands for every result
\* but "compatible"; `for` is a history: what the check had seen whose result
\* was stored last.
Policies == [dest : Destinations, px : BOOLEAN, ws : BOOLEAN]

ServiceRows ==
    [st : {"absent", "enabled", "disabled"}, slug : Slugs,
     dest : Destinations, px : BOOLEAN, ws : BOOLEAN,
     compat : {"unchecked", "compatible", "limited"}, for : Policies]

PolicyOf(row) == [dest |-> row.dest, px |-> row.px, ws |-> row.ws]

Slots == Editors \cup Keepers \cup Assigners

NoForm == CHOOSE f \in ServiceForms : f.orig = NoSlug

NewService ==
    LET d == CHOOSE x \in Destinations : TRUE IN
    [st |-> "absent", slug |-> CHOOSE x \in Slugs : TRUE, dest |-> d,
     px |-> FALSE, ws |-> FALSE, compat |-> "unchecked",
     for |-> [dest |-> d, px |-> FALSE, ws |-> FALSE]]

NoGroupRow ==
    [st |-> "absent", name |-> CHOOSE n \in Names : TRUE, rev |-> 0,
     serial |-> 0]

Idle ==
    [ph |-> "idle", op |-> "none", form |-> NoForm, svc |-> {},
     seen |-> NewService, picked |-> {}, g |-> NoGroup, rev |-> 0,
     name |-> NoGroupRow.name, row |-> NoGroupRow, admins |-> {}, user |-> {}]

ReqRecords ==
    [ph : {"idle", "form", "groups", "service", "slug",    \* save_service
           "asking",                                   \* the upstream answers
           "named",                                    \* create_group
           "shown", "loaded", "distinct",              \* update_group
           "admins", "guarded", "noMembers", "unused", \* ... and life cycle
           "checked"},                                 \* change_memberships
     op : {"none", "create", "update", "deactivate", "reactivate", "remove"},
     form : Forms \cup {NoForm}, svc : SUBSET Services, seen : ServiceRows,
     picked : SUBSET (GroupIds \X Serials), g : GroupIds \cup {NoGroup},
     rev : 0..MaxRevision, name : Names, row : GroupRows,
     admins : SUBSET Users, user : SUBSET Users]

TypeOK ==
    /\ users \in [Users -> {"active", "disabled"}]
    /\ groups \in [GroupIds -> GroupRows]
    /\ services \in [Services -> ServiceRows]
    /\ rules \subseteq Services \X GroupIds \X Serials
    /\ members \subseteq Users \X GroupIds \X Serials
    /\ req \in [Slots -> ReqRecords]
    /\ made \in Serials /\ sent \in 0..MaxRequests
    /\ since \in [Keepers -> SUBSET {"outside", "no members", "no rules",
                                   "turnover"}]

Init ==
    /\ users = [u \in Users |-> "active"]
    /\ groups = [g \in GroupIds |-> NoGroupRow]
    /\ services = [s \in Services |-> NewService]
    /\ rules = {} /\ members = {}
    /\ req = [r \in Slots |-> Idle]
    /\ made = 0 /\ sent = 0
    /\ since = [k \in Keepers |-> {}]

At(r, ph) == req[r].ph = ph

Becomes(r, q) == req' = [req EXCEPT ![r] = q]

Goto(r, ph) == Becomes(r, [req[r] EXCEPT !.ph = ph])

Done(r) == Becomes(r, Idle)

\* A request arrives, and nothing is written.
Arrives(r, q) ==
    /\ At(r, "idle") /\ sent < MaxRequests
    /\ Becomes(r, q)
    /\ sent' = sent + 1
    /\ UNCHANGED <<users, groups, services, rules, members, made>>

Reads == UNCHANGED <<users, groups, services, rules, members, made, sent>>

-----------------------------------------------------------------------------
(* The service pages.                                                      *)

ExistingService(s) == services[s].st # "absent"

ServicesWithSlug(slug) ==
    {s \in Services : ExistingService(s) /\ services[s].slug = slug}

ValidPolicyOnly(form) == form.ws => form.px

\* What save_service asks of the form alone.
ValidForm(form) ==
    /\ form.ws => form.px
    /\ form.st = "enabled" => form.names # {}

\* A form is sent; for an edit, the route finds its service.
SendForm(e) ==
    \E form \in Forms :
        /\ form.orig # NoSlug => ServicesWithSlug(form.orig) # {}
        /\ Arrives(e, [Idle EXCEPT !.ph = "form", !.form = form])

\* The active groups that a form names; each name must find one.
ActiveNamedGroups(names) ==
    {g \in GroupIds : groups[g].st = "active" /\ groups[g].name \in names}

FindGroups(e) ==
    LET names == req[e].form.names
        found == ActiveNamedGroups(names) IN
    /\ At(e, "form") /\ ValidForm(req[e].form)
    /\ \A n \in names : \E g \in found : groups[g].name = n
    /\ Becomes(e, [req[e] EXCEPT
            !.ph = "groups",
            !.picked = {<<g, groups[g].serial>> : g \in found}])
    /\ Reads

\* A service that is not found any more will be created.
FindService(e) ==
    LET found == ServicesWithSlug(req[e].form.orig) IN
    /\ At(e, "groups")
    /\ \/ /\ found = {}
          /\ Goto(e, "service")
       \/ \E s \in found :
            Becomes(e, [req[e] EXCEPT !.ph = "service", !.svc = {s},
                                      !.seen = services[s]])
    /\ Reads

\* A service that is created or renamed needs a free slug.
CheckSlug(e) ==
    LET q == req[e] IN
    /\ At(e, "service")
    /\ \/ q.svc # {} /\ q.form.slug = q.form.orig
       \/ ServicesWithSlug(q.form.slug) = {}
    /\ Goto(e, "slug")
    /\ Reads

ResetOnDestinationOnly(seen, form) == seen.dest # form.dest

\* proxy_policy_changed.
PolicyChanged(seen, form) == PolicyOf(seen) # PolicyOf(form)

\* What save_service assigns to the row that it read or created.
Assigned(seen, form) ==
    [seen EXCEPT !.st = form.st, !.slug = form.slug, !.dest = form.dest,
        !.px = form.px, !.ws = form.ws,
        !.compat = IF PolicyChanged(seen, form) THEN "unchecked" ELSE @]

\* A flush writes the columns whose value is not the one that was read.
Flushed(row, seen, new) ==
    [c \in DOMAIN row |-> IF new[c] # seen[c] THEN new[c] ELSE row[c]]

\* The row and its rules are written in one transaction; UNIQUE (slug) fails
\* it when somebody else took the slug.
CommitSave(e) ==
    LET q == req[e]
        new == Assigned(q.seen, q.form) IN
    /\ At(e, "slug")
    /\ \E s \in Services :
         /\ IF q.svc = {} THEN ~ExistingService(s) ELSE s \in q.svc
         /\ services' = [services EXCEPT ![s] = Flushed(@, q.seen, new)]
         /\ ServicesWithSlug(services'[s].slug) \subseteq {s}
         /\ rules' = {rule \in rules : rule[1] # s}
                       \cup {<<s, p[1], p[2]>> : p \in q.picked}
    /\ Done(e)
    /\ UNCHANGED <<users, groups, members, made, sent>>

\* check_service_compatibility reads the row, and awaits the upstream's
\* answer.
AskUpstream(e) ==
    \E s \in Services :
        /\ ExistingService(s)
        /\ Arrives(e, [Idle EXCEPT !.ph = "asking", !.svc = {s},
                                   !.seen = services[s]])

AnswersWithReason(seen) == {"compatible", "unreachable"}

\* A service with WebSockets is at best "limited".
Answers(seen) ==
    IF seen.ws THEN {"limited"} ELSE {"compatible", "limited"}

\* The row with the answer of a check that had read `seen`.
Answered(row, seen, answer) ==
    [Flushed(row, seen, [seen EXCEPT !.compat = answer])
        EXCEPT !.for = PolicyOf(seen)]

CommitAnswer(e) ==
    LET q == req[e] IN
    /\ At(e, "asking")
    /\ \E s \in q.svc, answer \in Answers(q.seen) :
         services' = [services EXCEPT ![s] = Answered(@, q.seen, answer)]
    /\ Done(e)
    /\ UNCHANGED <<users, groups, rules, members, made, sent>>

-----------------------------------------------------------------------------
(* The group pages.                                                        *)

ExistingGroup(g) == groups[g].st # "absent"

GroupsNamed(n) == {g \in GroupIds : ExistingGroup(g) /\ groups[g].name = n}

\* SQLite gives out the id after the largest one that is there.
IsNextGroupId(g) ==
    /\ \A h \in GroupIds : ExistingGroup(h) => h < g
    /\ g = 1 \/ \E h \in GroupIds : ExistingGroup(h) /\ h = g - 1

\* create_group finds no group with this name ...
NameGroup(k) ==
    \E n \in Names :
        /\ GroupsNamed(n) = {}
        /\ Arrives(k, [Idle EXCEPT !.ph = "named", !.op = "create",
                                   !.name = n])

\* ... and inserts one; UNIQUE (normalized_name) is its last word.
CommitNewGroup(k) ==
    LET q == req[k] IN
    /\ At(k, "named") /\ made < MaxGroups
    /\ GroupsNamed(q.name) = {}
    /\ \E g \in GroupIds :
         /\ IsNextGroupId(g)
         /\ groups' = [groups EXCEPT ![g] =
                [st |-> "active", name |-> q.name, rev |-> 1,
                 serial |-> made + 1]]
    /\ made' = made + 1
    /\ Done(k)
    /\ UNCHANGED <<users, services, rules, members, sent>>

\* A form of a group is on the screen, with the revision it was made from;
\* row.serial remembers which group the administrator looks at.
ShowGroup(k) ==
    \E g \in GroupIds, op \in {"update", "deactivate", "reactivate", "remove"} :
        /\ ExistingGroup(g)
        /\ \E n \in IF op = "update" THEN Names ELSE {groups[g].name} :
             Arrives(k, [Idle EXCEPT !.ph = "shown", !.op = op, !.g = g,
                             !.rev = groups[g].rev, !.name = n,
                             !.row = groups[g]])

\* _group and _check_revision; a life cycle that is reached already is
\* NO_CHANGE.
LoadGroup(k) ==
    LET q == req[k]  row == groups[q.g] IN
    /\ At(k, "shown")
    /\ ExistingGroup(q.g) /\ row.rev = q.rev
    /\ q.op = "deactivate" => row.st # "deactivated"
    /\ q.op = "reactivate" => row.st # "active"
    /\ Becomes(k, [q EXCEPT !.ph = "loaded", !.row.st = row.st,
                            !.row.name = row.name, !.row.rev = row.rev])
    /\ Reads

\* update_group: no other group has the name.
CheckName(k) ==
    LET q == req[k] IN
    /\ At(k, "loaded") /\ q.op = "update"
    /\ GroupsNamed(q.name) \subseteq {q.g}
    /\ Goto(k, "distinct")
    /\ Reads

\* The name, or else only the description, changes.
CommitGroupUpdate(k) ==
    LET q == req[k] IN
    /\ At(k, "distinct") /\ q.row.rev < MaxRevision
    /\ ExistingGroup(q.g)
    /\ q.name # q.row.name => GroupsNamed(q.name) \subseteq {q.g}
    /\ groups' = [groups EXCEPT ![q.g] = Flushed(@, q.row,
           [q.row EXCEPT !.name = q.name, !.rev = q.row.rev + 1])]
    /\ Done(k)
    /\ UNCHANGED <<users, services, rules, members, made, sent>>

ActiveAdministrators == {u \in Administrators : users[u] = "active"}

MembersOf(g) == {m[1] : m \in {n \in members : n[2] = g}}

\* _protect_last_admin_group_change, with its two SELECTs.
ReadAdministrators(k) ==
    /\ At(k, "loaded") /\ req[k].op \in {"deactivate", "remove"}
    /\ ActiveAdministrators # {}
    /\ Becomes(k, [req[k] EXCEPT !.ph = "admins",
                                 !.admins = ActiveAdministrators])
    /\ Reads

SomebodyIsLeft(k) == req[k].admins # {}

\* The active administrators in the group are not all of them.
NotAllAreMembers(k) ==
    ActiveAdministrators \cap MembersOf(req[k].g) # req[k].admins

ReadMemberAdministrators(k) ==
    /\ At(k, "admins")
    /\ NotAllAreMembers(k)
    /\ Goto(k, "guarded")
    /\ Reads

\* dependency_summary counts members and rules; only a removal minds them.
CountMembers(k) ==
    /\ At(k, "guarded") /\ req[k].op = "remove"
    /\ MembersOf(req[k].g) = {}
    /\ Goto(k, "noMembers")
    /\ Reads

ServicesOf(g) == {rule[1] : rule \in {r \in rules : r[2] = g}}

CountServices(k) ==
    /\ At(k, "noMembers")
    /\ ServicesOf(req[k].g) = {}
    /\ Goto(k, "unused")
    /\ Reads

\* Only the assigned columns of the row are written.
CommitStatus(k, st) ==
    LET q == req[k] IN
    /\ ExistingGroup(q.g) /\ q.row.rev < MaxRevision
    /\ groups' = [groups EXCEPT ![q.g] = Flushed(@, q.row,
           [q.row EXCEPT !.st = st, !.rev = q.row.rev + 1])]
    /\ Done(k)
    /\ UNCHANGED <<users, services, rules, members, made, sent>>

CommitDeactivation(k) ==
    /\ At(k, "guarded") /\ req[k].op = "deactivate"
    /\ CommitStatus(k, "deactivated")

CommitReactivation(k) ==
    /\ At(k, "loaded") /\ req[k].op = "reactivate"
    /\ CommitStatus(k, "active")

\* DELETE FROM groups WHERE id = ?, whatever is there now.
CommitRemoval(k) ==
    /\ At(k, "unused")
    /\ groups' = [groups EXCEPT ![req[k].g] = NoGroupRow]
    /\ Done(k)
    /\ UNCHANGED <<users, services, rules, members, made, sent>>

-----------------------------------------------------------------------------
(* Memberships and users.                                                  *)

\* change_memberships finds every group of the form, active or not.
CheckMemberships(a) ==
    \E u \in Users, gs \in SUBSET GroupIds :
        /\ \A g \in gs : ExistingGroup(g)
        /\ gs # {m[2] : m \in {n \in members : n[1] = u}}
        /\ Arrives(a, [Idle EXCEPT !.ph = "checked", !.user = {u},
                          !.picked = {<<g, groups[g].serial>> : g \in gs}])

\* Requests that read user u find another revision when they commit, and end.
RevisionMoves(u) ==
    req' = [r \in Slots |-> IF At(r, "checked") /\ u \in req[r].user THEN Idle
                            ELSE req[r]]

CommitMemberships(a) ==
    /\ At(a, "checked")
    /\ \E u \in req[a].user :
         /\ members' = {m \in members : m[1] # u}
                         \cup {<<u, p[1], p[2]>> : p \in req[a].picked}
         /\ RevisionMoves(u)
    /\ UNCHANGED <<users, groups, services, rules, made, sent>>

\* set_user_status; a promotion or demotion does the same to the queries of
\* this module.
ChangeUserStatus(u) ==
    /\ users' = [users EXCEPT ![u] =
                    IF @ = "active" THEN "disabled" ELSE "active"]
    /\ RevisionMoves(u)
    /\ UNCHANGED <<groups, services, rules, members, made, sent>>

\* A check fails, or the process is gone.
Abandon(r) ==
    /\ ~At(r, "idle")
    /\ Done(r)
    /\ Reads

EditServices(e) ==
    \/ SendForm(e) \/ FindGroups(e) \/ FindService(e) \/ CheckSlug(e)
    \/ CommitSave(e) \/ AskUpstream(e) \/ CommitAnswer(e)

KeepGroups(k) ==
    \/ NameGroup(k) \/ CommitNewGroup(k)
    \/ ShowGroup(k) \/ LoadGroup(k) \/ CheckName(k) \/ CommitGroupUpdate(k)
    \/ ReadAdministrators(k) \/ ReadMemberAdministrators(k)
    \/ CountMembers(k) \/ CountServices(k)
    \/ CommitDeactivation(k) \/ CommitReactivation(k) \/ CommitRemoval(k)

Assign(a) == CheckMemberships(a) \/ CommitMemberships(a)

Step ==
    \/ \E e \in Editors : EditServices(e)
    \/ \E k \in Keepers : KeepGroups(k)
    \/ \E a \in Assigners : Assign(a)
    \/ \E r \in Slots : Abandon(r)
    \/ \E u \in Users : ChangeUserStatus(u)

\* What a commit on a group page may be asked about the time since its form
\* was made: that somebody outside the group could administrate, that it had
\* no members, that it had no rules ...
Facts(k) ==
    LET Fact(held, name) == IF held THEN {name} ELSE {} IN
    Fact(ActiveAdministrators \ MembersOf(req[k].g) # {}, "outside")
      \cup Fact(MembersOf(req[k].g) = {}, "no members")
      \cup Fact(ServicesOf(req[k].g) = {}, "no rules")

\* ... and that the active administrators were others before.
Turnover ==
    IF ActiveAdministrators' # ActiveAdministrators THEN {"turnover"} ELSE {}

Observe ==
    since' = [k \in Keepers |-> IF req'[k] = Idle THEN {}
                                ELSE since[k] \cup Turnover \cup Facts(k)']

Next == Step /\ Observe

Spec == Init /\ [][Next]_vars

-----------------------------------------------------------------------------
(* Properties.                                                             *)

Database ==
    [users |-> users,
     services |-> [s \in Services |-> services[s].st],
     groups |-> [g \in GroupIds |-> [st |-> groups[g].st,
                                     name |-> groups[g].name]],
     rules |-> {<<rule[1], rule[2]>> : rule \in rules},
     members |-> {<<m[1], m[2]>> : m \in members}]

\* permitted_service_query, may_enter and effective_access_for_user give one
\* answer on every database that the pages leave, with dangling rows too.
AccessQueriesAgree == QueriesAgree(Database)

\* 001 data-model: an enabled service has an access rule.  Rules, status and
\* the validation of a form meet over several requests.
HasItsRules(s) == services[s].st = "enabled" => \E rule \in rules : rule[1] = s

\* 002 data-model: WebSockets require full proxy mode.
SocketsNeedTheProxy(s) == services[s].ws => services[s].px

\* The compatibility result in a row was measured with the destination and
\* the flags in that row.
ResultIsOfItsPolicy(s) ==
    services[s].compat # "unchecked" => services[s].for = PolicyOf(services[s])

\* A form of service s, or the result of a check of it, is written.
Saves(e, s) == At(e, "slug") /\ s \in req[e].svc /\ req'[e] = Idle

StoresAnswer(e, s) == At(e, "asking") /\ s \in req[e].svc /\ req'[e] = Idle

\* Forms are validated one by one and merge column by column.  Only one thing
\* takes the rules of an enabled service: a form that had read it as disabled,
\* saved after another one enabled it.  And only one thing leaves WebSockets
\* without the proxy: a form saved after another one changed a flag.
OnlyMergesMakeServicesInvalid ==
    [][\A s \in Services :
         /\ HasItsRules(s) /\ ~HasItsRules(s)' =>
              \E e \in Editors : /\ Saves(e, s)
                                 /\ req[e].seen.st = "disabled"
                                 /\ services[s].st = "enabled"
         /\ SocketsNeedTheProxy(s) /\ ~SocketsNeedTheProxy(s)' =>
              \E e \in Editors :
                 /\ Saves(e, s)
                 /\ \/ req[e].seen.px /\ ~services[s].px
                    \/ services[s].ws /\ ~req[e].seen.ws]_vars

\* A result stays beside the policy that it was measured with, but for two
\* races: it is stored after a form changed the policy during the await; or a
\* form that changes the policy had read the row before the first result came,
\* and so finds nothing to reset.
OnlyRacesOutdateResults ==
    [][\A s \in Services :
         ResultIsOfItsPolicy(s) /\ ~ResultIsOfItsPolicy(s)' =>
           \E e \in Editors :
              \/ StoresAnswer(e, s) /\ PolicyOf(services[s]) # PolicyOf(req[e].seen)
              \/ /\ Saves(e, s)
                 /\ req[e].seen.compat = "unchecked"
                 /\ services[s].compat # "unchecked"]_vars

\* A group that stops granting access, or goes, did not have every active
\* administrator as a member at some moment since its form was made, unless
\* administrators came or went meanwhile; one that goes had no member and no
\* rule, each at some moment.
LifecycleChangesWereAllowed ==
    [][\A g \in GroupIds :
         LET goes == ExistingGroup(g) /\ ~ExistingGroup(g)' IN
         goes \/ (groups[g].st = "active" /\ groups'[g].st # "active")
           => \E k \in Keepers :
                /\ req[k].g = g /\ req'[k] = Idle
                /\ since[k] \cap {"outside", "turnover"} # {}
                /\ goes => {"no members", "no rules"} \subseteq since[k]]_vars

\* 008 spec: stale submissions must not silently attach to the wrong group.
\* A rule or membership is of the group that it was submitted for.
RowsAreOfTheirGroup ==
    \A g \in GroupIds : ExistingGroup(g) =>
        /\ \A rule \in rules : rule[2] = g => rule[3] = groups[g].serial
        /\ \A m \in members : m[2] = g => m[3] = groups[g].serial
=============================================================================

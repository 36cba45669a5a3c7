---------------------------- MODULE AccessPolicy ----------------------------
(***************************************************************************)
(* The three queries of access_service.py that say which services a user   *)
(* may use: the list on the portal, the decision of a launch, and the      *)
(* report on the administrators' pages.  Each joins the tables in its own  *)
(* way.  A database is a record of tables; rows of access_rules and        *)
(* group_memberships may name a group that was removed.                    *)
(***************************************************************************)
CONSTANTS
    Users, Services, GroupIds,
    Names           \* what groups may be called

GroupTables ==
    [GroupIds -> [st : {"absent", "active", "deactivated"}, name : Names]]

Databases ==
    [users : [Users -> {"active", "disabled"}],
     services : [Services -> {"absent", "enabled", "disabled"}],
     groups : GroupTables,
     rules : SUBSET (Services \X GroupIds),
     members : SUBSET (Users \X GroupIds)]

ActiveGroup(db, g) == db.groups[g].st = "active"

\* list_permitted_services: each enabled service with a rule, if the user has
\* a membership for the rule's group and that group is active.
PermittedServices(db, u) ==
    IF db.users[u] # "active" THEN {}
    ELSE {s \in Services :
            /\ db.services[s] = "enabled"
            /\ \E rule \in db.rules :
                 /\ rule[1] = s
                 /\ <<u, rule[2]>> \in db.members
                 /\ ActiveGroup(db, rule[2])}

\* may_enter.
MayEnter(db, u, s) ==
    /\ db.users[u] = "active"
    /\ db.services[s] = "enabled"
    /\ \E g \in GroupIds :
         <<s, g>> \in db.rules /\ <<u, g>> \in db.members /\ ActiveGroup(db, g)

GrantsByStatusOnly(db, u, s) ==
    {db.groups[m[2]].name :
        m \in {n \in db.members : n[1] = u /\ <<s, n[2]>> \in db.rules}}

\* effective_access_for_user: the names of the groups that grant a service,
\* whatever the states of the user and the service.
Grants(db, u, s) ==
    {db.groups[m[2]].name :
        m \in {n \in db.members :
                 /\ n[1] = u /\ <<s, n[2]>> \in db.rules
                 /\ ActiveGroup(db, n[2])}}

CurrentlyUsable(db, u, s) ==
    Grants(db, u, s) # {} /\ db.users[u] = "active" /\ db.services[s] = "enabled"

DenialReason(db, u, s) ==
    IF CurrentlyUsable(db, u, s) THEN "none"
    ELSE IF db.users[u] # "active" THEN "user_disabled"
    ELSE IF db.services[s] # "enabled" THEN "service_disabled"
    ELSE "no_matching_group"

\* What the portal lists, what a launch admits and what administrators are
\* shown as usable is the same, and the reason shown is the right one.
QueriesAgree(db) ==
    \A u \in Users, s \in Services :
        /\ s \in PermittedServices(db, u) <=> MayEnter(db, u, s)
        /\ MayEnter(db, u, s) <=> CurrentlyUsable(db, u, s)
        /\ DenialReason(db, u, s) = "no_matching_group"
             => Grants(db, u, s) = {}
=============================================================================

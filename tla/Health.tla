------------------------------- MODULE Health -------------------------------
(***************************************************************************)
(* Readiness: evaluate_readiness asks the database nine questions, one     *)
(* after the other, while the installation goes on; any of them may fail.  *)
(* It derives five indicators, folds them to one status and, for /readyz,  *)
(* compares it with the last one and logs a change.                        *)
(*                                                                         *)
(* The database is abstracted to the facts that the questions ask for.     *)
(***************************************************************************)
EXTENDS Naturals, FiniteSets

CONSTANTS
    Probes,         \* request slots of /readyz and /admin/monitoring
    Worlds,         \* the facts that hold at one time or another
    MaxWorlds       \* bound: as many of them during one evaluation

\* users: nobody; nobody active; no usable administrator; a usable one.
\* catalogue: no service; none enabled; none linked to an active group; one.
WorldRecords ==
    [storage : BOOLEAN,     \* the database answers
     audit : BOOLEAN,       \* the audit table answers
     state : {"none", "needs_bootstrap", "initialized", "other"},
     users : 0..3, catalogue : 0..3]

ASSUME WorldsAssumption == Worlds \subseteq WorldRecords /\ MaxWorlds \in Nat

VARIABLES
    world,          \* the facts now
    probe,          \* what each probe has read, and its result
    previous,       \* _previous_health_status
    log,            \* the last health_state_changed line
    told,           \* history: the status of the last answer of /readyz
    since           \* history: the worlds during each evaluation

vars == <<world, probe, previous, log, told, since>>

Statuses == {"healthy", "degraded", "setup_required", "unavailable"}

Known == Statuses \cup {"none"}

Reasons ==
    {"all_clear", "storage_unavailable", "setup_required",
     "installation_degraded", "installation_unavailable", "identity_degraded",
     "service_catalog_degraded", "service_catalog_unknown",
     "audit_unavailable", "unknown"}

CheckKeys ==
    <<"storage", "installation", "identity_workflows", "service_catalog",
      "audit_diagnostics">>

ReadRecords ==
    [state : {"none", "needs_bootstrap", "initialized", "other"},
     users : BOOLEAN, activeUsers : BOOLEAN, activeAdmins : BOOLEAN,
     services : BOOLEAN, enabled : BOOLEAN, linked : BOOLEAN,
     failed : {"no", "storage", "evaluation", "audit"}]

NothingRead ==
    [state |-> "none", users |-> FALSE, activeUsers |-> FALSE,
     activeAdmins |-> FALSE, services |-> FALSE, enabled |-> FALSE,
     linked |-> FALSE, failed |-> "no"]

NoResult == [status |-> "none", reason |-> "all_clear"]

Idle ==
    [ph |-> "idle", emit |-> FALSE, seen |-> NothingRead, result |-> NoResult,
     was |-> "none"]

ProbeRecords ==
    [ph : {"idle", "storage", "state", "users", "activeUsers", "activeAdmins",
           "services", "enabled", "linked", "audit",    \* the next question
           "fold", "compare", "log", "replace"},
     emit : BOOLEAN, seen : ReadRecords,
     result : [status : Known, reason : Reasons], was : Known]

TypeOK ==
    /\ world \in Worlds
    /\ probe \in [Probes -> ProbeRecords]
    /\ previous \in Known /\ told \in Known
    /\ log \in [from : Known, to : Known]
    /\ since \in [Probes -> SUBSET Worlds]

Init ==
    /\ world \in Worlds
    /\ probe = [p \in Probes |-> Idle]
    /\ previous = "none" /\ told = "none"
    /\ log = [from |-> "none", to |-> "none"]
    /\ since = [p \in Probes |-> {}]

At(p, ph) == probe[p].ph = ph

Evaluating(q) == q.ph \notin {"idle", "log", "replace"}

Becomes(p, rec) ==
    /\ probe' = [probe EXCEPT ![p] = rec]
    /\ since' = [since EXCEPT ![p] = IF Evaluating(rec) THEN @ \cup {world}
                                     ELSE {}]

-----------------------------------------------------------------------------
(* The questions.                                                          *)

\* /readyz emits transitions, /admin/monitoring does not.
Arrive(p) ==
    /\ At(p, "idle")
    /\ \E emit \in BOOLEAN :
         Becomes(p, [Idle EXCEPT !.ph = "storage", !.emit = emit])
    /\ UNCHANGED <<world, previous, log, told>>

\* One SELECT; when it raises, nothing more is asked.
Question(p, ph, answered, next, failure) ==
    /\ At(p, ph)
    /\ IF answered
       THEN Becomes(p, next)
       ELSE Becomes(p, [probe[p] EXCEPT !.ph = "fold", !.seen.failed = failure])
    /\ UNCHANGED <<world, previous, log, told>>

AskStorage(p) ==
    Question(p, "storage", world.storage, [probe[p] EXCEPT !.ph = "state"],
             "storage")

AskState(p) ==
    Question(p, "state", world.storage,
             [probe[p] EXCEPT !.ph = "users", !.seen.state = world.state],
             "evaluation")

SetupByStateOnly(state, anyUser) == state \in {"none", "needs_bootstrap"}

SetupRequired(state, anyUser) ==
    ~anyUser /\ state \in {"none", "needs_bootstrap"}

\* While setup is required, users and services are not asked about.
AskUsers(p) ==
    LET anyUser == world.users > 0 IN
    Question(p, "users", world.storage,
             [probe[p] EXCEPT
                !.ph = IF SetupRequired(probe[p].seen.state, anyUser)
                       THEN "audit" ELSE "activeUsers",
                !.seen.users = anyUser],
             "evaluation")

AskActiveUsers(p) ==
    Question(p, "activeUsers", world.storage,
             [probe[p] EXCEPT !.ph = "activeAdmins",
                              !.seen.activeUsers = world.users > 1],
             "evaluation")

AskActiveAdmins(p) ==
    Question(p, "activeAdmins", world.storage,
             [probe[p] EXCEPT !.ph = "services",
                              !.seen.activeAdmins = world.users > 2],
             "evaluation")

AskServices(p) ==
    Question(p, "services", world.storage,
             [probe[p] EXCEPT !.ph = "enabled",
                              !.seen.services = world.catalogue > 0],
             "evaluation")

AskEnabled(p) ==
    Question(p, "enabled", world.storage,
             [probe[p] EXCEPT !.ph = "linked",
                              !.seen.enabled = world.catalogue > 1],
             "evaluation")

AskLinked(p) ==
    Question(p, "linked", world.storage,
             [probe[p] EXCEPT !.ph = "audit",
                              !.seen.linked = world.catalogue > 2],
             "evaluation")

AskAudit(p) ==
    Question(p, "audit", world.storage /\ world.audit,
             [probe[p] EXCEPT !.ph = "fold"], "audit")

-----------------------------------------------------------------------------
(* The indicators and their fold.                                          *)

Check(status, reason) == [status |-> status, reason |-> reason]

Healthy == Check("healthy", "all_clear")

Unknown == Check("unknown", "unknown")

Installation(seen) ==
    IF SetupRequired(seen.state, seen.users)
    THEN Check("setup_required", "setup_required")
    ELSE IF seen.state = "other" THEN Check("degraded", "installation_degraded")
    ELSE Healthy

Identity(seen) ==
    IF SetupRequired(seen.state, seen.users)
    THEN Check("setup_required", "setup_required")
    ELSE IF seen.activeAdmins /\ seen.activeUsers THEN Healthy
    ELSE Check("degraded", "identity_degraded")

ServiceCatalog(seen) ==
    IF SetupRequired(seen.state, seen.users)
    THEN Check("unknown", "service_catalog_unknown")
    ELSE IF seen.services /\ seen.enabled /\ seen.linked THEN Healthy
    ELSE Check("degraded", "service_catalog_degraded")

AuditDiagnostics(seen) ==
    IF seen.failed = "audit" THEN Check("unavailable", "audit_unavailable")
    ELSE Healthy

\* Without storage, or when a question about installation, identities or
\* services failed, the rest is unknown.
Checks(seen) ==
    CASE seen.failed = "storage" ->
           <<Check("unavailable", "storage_unavailable"),
             Unknown, Unknown, Unknown, Unknown>>
      [] seen.failed = "evaluation" ->
           <<Healthy, Check("unavailable", "installation_unavailable"),
             Unknown, Unknown, Unknown>>
      [] OTHER ->
           <<Healthy, Installation(seen), Identity(seen),
             ServiceCatalog(seen), AuditDiagnostics(seen)>>

RankedWithoutAudit ==
    <<Check("degraded", "identity_degraded"),
      Check("degraded", "service_catalog_degraded"),
      Check("degraded", "installation_degraded"),
      Check("unavailable", "installation_unavailable")>>

\* What a reason of an indicator makes of the whole, the first one first.
Ranked ==
    <<Check("degraded", "identity_degraded"),
      Check("degraded", "service_catalog_degraded"),
      Check("unavailable", "audit_unavailable"),
      Check("degraded", "installation_degraded"),
      Check("unavailable", "installation_unavailable")>>

FoldRankedOnly(checks) ==
    LET Found == {i \in DOMAIN RankedWithoutAudit :
                    \E k \in DOMAIN checks :
                        checks[k].reason = RankedWithoutAudit[i].reason} IN
    IF \E k \in DOMAIN checks : checks[k].status = "setup_required"
    THEN Check("setup_required", "setup_required")
    ELSE IF Found # {}
    THEN RankedWithoutAudit[CHOOSE i \in Found : \A j \in Found : i <= j]
    ELSE Healthy

\* _overall_status.
Overall(checks) ==
    LET First(S) == CHOOSE i \in S : \A j \in S : i <= j
        Found == {i \in DOMAIN Ranked :
                    \E k \in DOMAIN checks : checks[k].reason = Ranked[i].reason}
        Unwell == {k \in DOMAIN checks : checks[k].status # "healthy"} IN
    IF checks[1].status = "unavailable"
    THEN Check("unavailable", "storage_unavailable")
    ELSE IF \E k \in DOMAIN checks : checks[k].status = "setup_required"
    THEN Check("setup_required", "setup_required")
    ELSE IF Found # {} THEN Ranked[First(Found)]
    ELSE IF Unwell # {} THEN Check("degraded", checks[First(Unwell)].reason)
    ELSE Healthy

Fold(p) ==
    /\ At(p, "fold")
    /\ Becomes(p, [probe[p] EXCEPT !.ph = "compare", !.seen = NothingRead,
                                   !.result = Overall(Checks(probe[p].seen))])
    /\ UNCHANGED <<world, previous, log, told>>

-----------------------------------------------------------------------------
(* emit_health_transition, and the answer.                                 *)

\* The page of the administrators is rendered.
Render(p) ==
    /\ At(p, "compare") /\ ~probe[p].emit
    /\ Becomes(p, Idle)
    /\ UNCHANGED <<world, previous, log, told>>

AlwaysChanged(was, status) == TRUE

ChangedForTheWorse(was, status) == was # status /\ status # "healthy"

Changed(was, status) == was # status

ReadPrevious(p) ==
    LET q == probe[p] IN
    /\ At(p, "compare") /\ q.emit
    /\ Becomes(p, [q EXCEPT
           !.was = previous,
           !.ph = IF Changed(previous, q.result.status) THEN "log"
                  ELSE "replace"])
    /\ UNCHANGED <<world, previous, log, told>>

LogTransition(p) ==
    LET q == probe[p] IN
    /\ At(p, "log")
    /\ log' = [from |-> q.was, to |-> q.result.status]
    /\ Becomes(p, [q EXCEPT !.ph = "replace"])
    /\ UNCHANGED <<world, previous, told>>

PreviousIsTheReason(p) == probe[p].result.reason

PreviousReplaced(p) == probe[p].result.status

ReplacePrevious(p) ==
    /\ At(p, "replace")
    /\ previous' = PreviousReplaced(p)
    /\ told' = probe[p].result.status
    /\ Becomes(p, Idle)
    /\ UNCHANGED <<world, log>>

\* Users, services and the installation change, and storage comes and goes.
Change ==
    /\ world' \in Worlds
    /\ since' = [p \in Probes |-> IF Evaluating(probe[p])
                                  THEN since[p] \cup {world'} ELSE {}]
    /\ \A p \in Probes : Cardinality(since'[p]) <= MaxWorlds
    /\ UNCHANGED <<probe, previous, log, told>>

Evaluate(p) ==
    \/ AskStorage(p) \/ AskState(p) \/ AskUsers(p)
    \/ AskActiveUsers(p) \/ AskActiveAdmins(p)
    \/ AskServices(p) \/ AskEnabled(p) \/ AskLinked(p) \/ AskAudit(p)
    \/ Fold(p)

Emit(p) == ReadPrevious(p) \/ LogTransition(p) \/ ReplacePrevious(p)

Next ==
    \/ \E p \in Probes : Arrive(p) \/ Evaluate(p) \/ Render(p) \/ Emit(p)
    \/ Change

Spec == Init /\ [][Next]_vars

-----------------------------------------------------------------------------
(* Properties.                                                             *)

Reported(p) == At(p, "compare")

\* What it takes to serve users.
Conditions(w) ==
    [storage |-> w.storage, audit |-> w.audit,
     installation |-> w.state # "other",
     administrator |-> w.users = 3, service |-> w.catalogue = 3]

\* No order of reads and changes makes a probe report healthy unless every
\* condition held at some moment since it arrived.
HealthyWasHealthy ==
    \A p \in Probes :
        Reported(p) /\ probe[p].result.status = "healthy"
          => \A c \in DOMAIN Conditions(world) :
               \E w \in since[p] : Conditions(w)[c]

\* The condition that a reason names.
Explains(w, reason) ==
    CASE reason = "storage_unavailable" -> ~w.storage
      [] reason = "setup_required" -> w.users = 0
      [] reason = "installation_degraded" -> w.state = "other"
      [] reason = "installation_unavailable" -> ~w.storage
      [] reason = "identity_degraded" -> w.users < 3
      [] reason = "service_catalog_degraded" -> w.catalogue < 3
      [] reason = "audit_unavailable" -> ~(w.storage /\ w.audit)
      [] OTHER -> FALSE

\* A probe that reports anything else names a condition that held at some
\* moment since it arrived.
ReasonsWereTrue ==
    \A p \in Probes :
        Reported(p) /\ probe[p].result.status # "healthy"
          => \E w \in since[p] : Explains(w, probe[p].result.reason)

\* 010 data-model: every transition leaves a line that continues the one
\* before, and repeated checks that keep the same state are quiet.
TransitionsMakeAChain ==
    [][log' # log => log'.from = log.to /\ log'.to # log'.from]_vars

\* ... and none is missed: the last line leads to the last answer.
NoTransitionIsMissed ==
    (\A p \in Probes : At(p, "idle")) => log.to = told
=============================================================================

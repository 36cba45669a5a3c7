---------------------------- MODULE HealthProofs ----------------------------
(* What a readiness probe reports was true at some moment since it arrived, *)
(* for any states of the installation and any number of probes.             *)
EXTENDS Health, TLAPS

\* A condition held, or the one that a reason names did, in one of the worlds.
Was(S, c) == \E w \in S : Conditions(w)[c]

Wrong(S, reason) == \E w \in S : Explains(w, reason)

Stage ==
    [storage |-> 1, state |-> 2, users |-> 3, activeUsers |-> 4,
     activeAdmins |-> 5, services |-> 6, enabled |-> 7, linked |-> 8,
     audit |-> 9, fold |-> 10]

Questions ==
    {"storage", "state", "users", "activeUsers", "activeAdmins", "services",
     "enabled", "linked", "audit"}

Setup(s) == SetupRequired(s.state, s.users)

\* Each answer stands for a condition, or its contrary, in one of the worlds S.
Answers(s, n, S) ==
    /\ n > 1 => Was(S, "storage")
    /\ n > 2 => IF s.state = "other" THEN Wrong(S, "installation_degraded")
                ELSE Was(S, "installation")
    /\ n > 3 /\ ~s.users => Wrong(S, "setup_required")
    /\ n \in 4..8 => ~Setup(s)
    /\ ~Setup(s) =>
         /\ n > 4 /\ ~s.activeUsers => Wrong(S, "identity_degraded")
         /\ n > 5 => IF s.activeAdmins THEN Was(S, "administrator")
                     ELSE Wrong(S, "identity_degraded")
         /\ n > 6 /\ ~s.services => Wrong(S, "service_catalog_degraded")
         /\ n > 7 /\ ~s.enabled => Wrong(S, "service_catalog_degraded")
         /\ n > 8 => IF s.linked THEN Was(S, "service")
                     ELSE Wrong(S, "service_catalog_degraded")
    /\ n > 9 /\ s.failed = "no" => Was(S, "audit")

\* What a probe has read, at the n-th question, in worlds of S.
Learned(s, n, S) ==
    /\ n < 10 => s.failed = "no"
    /\ s.failed = "storage" => Wrong(S, "storage_unavailable")
    /\ s.failed = "evaluation" => Wrong(S, "installation_unavailable")
    /\ s.failed = "audit" => Wrong(S, "audit_unavailable")
    /\ s.failed \in {"no", "audit"} => Answers(s, n, S)

ConditionNames == {"storage", "audit", "installation", "administrator", "service"}

Judged(r, S) ==
    IF r.status = "healthy" THEN \A c \in ConditionNames : Was(S, c)
    ELSE Wrong(S, r.reason)

Grounded(p) ==
    LET q == probe[p] IN
    /\ q.ph \in Questions \cup {"fold"} => Learned(q.seen, Stage[q.ph], since[p])
    /\ q.ph = "compare" => Judged(q.result, since[p])

HInv == TypeOK /\ \A p \in Probes : Grounded(p)

-----------------------------------------------------------------------------
(* Worlds, and what a wider choice of them keeps.                          *)

LEMMA MoreWorlds ==
    ASSUME NEW S, NEW T, S \subseteq T
    PROVE  /\ \A c : Was(S, c) => Was(T, c)
           /\ \A r : Wrong(S, r) => Wrong(T, r)
           /\ \A s, n : Learned(s, n, S) => Learned(s, n, T)
           /\ \A r : Judged(r, S) => Judged(r, T)
<1>1. \A c : Was(S, c) => Was(T, c)
  BY DEF Was
<1>2. \A r : Wrong(S, r) => Wrong(T, r)
  BY DEF Wrong
<1>3. \A s, n : Answers(s, n, S) => Answers(s, n, T)
  BY <1>1, <1>2 DEF Answers
<1>4. \A s, n : Learned(s, n, S) => Learned(s, n, T)
  BY <1>2, <1>3 DEF Learned
<1>5. \A r : Judged(r, S) => Judged(r, T)
  BY <1>1, <1>2 DEF Judged
<1> QED BY <1>1, <1>2, <1>4, <1>5

LEMMA WorldConditions ==
    ASSUME NEW w \in WorldRecords, NEW S, w \in S
    PROVE  /\ w.storage => Was(S, "storage")
           /\ w.audit => Was(S, "audit")
           /\ w.state # "other" => Was(S, "installation")
           /\ w.users > 2 => Was(S, "administrator")
           /\ w.catalogue > 2 => Was(S, "service")
<1>1. /\ Conditions(w)["storage"] = w.storage
      /\ Conditions(w)["audit"] = w.audit
      /\ Conditions(w)["installation"] = (w.state # "other")
      /\ Conditions(w)["administrator"] = (w.users = 3)
      /\ Conditions(w)["service"] = (w.catalogue = 3)
  BY DEF Conditions
<1>2. (w.users > 2 => w.users = 3) /\ (w.catalogue > 2 => w.catalogue = 3)
  BY DEF WorldRecords
<1> QED BY <1>1, <1>2 DEF Was

LEMMA WorldFaults ==
    ASSUME NEW w \in WorldRecords, NEW S, w \in S
    PROVE  /\ ~w.storage => /\ Wrong(S, "storage_unavailable")
                            /\ Wrong(S, "installation_unavailable")
           /\ ~(w.storage /\ w.audit) => Wrong(S, "audit_unavailable")
           /\ w.state = "other" => Wrong(S, "installation_degraded")
           /\ ~(w.users > 0) => Wrong(S, "setup_required")
           /\ ~(w.users > 2) => Wrong(S, "identity_degraded")
           /\ ~(w.catalogue > 2) => Wrong(S, "service_catalog_degraded")
<1>1. /\ Explains(w, "storage_unavailable") = ~w.storage
      /\ Explains(w, "installation_unavailable") = ~w.storage
      /\ Explains(w, "audit_unavailable") = ~(w.storage /\ w.audit)
      /\ Explains(w, "installation_degraded") = (w.state = "other")
      /\ Explains(w, "setup_required") = (w.users = 0)
      /\ Explains(w, "identity_degraded") = (w.users < 3)
      /\ Explains(w, "service_catalog_degraded") = (w.catalogue < 3)
  BY DEF Explains
<1>2. w.users \in 0..3 /\ w.catalogue \in 0..3
  BY DEF WorldRecords
<1>3. /\ (~(w.users > 0) => w.users = 0) /\ (~(w.users > 2) => w.users < 3)
      /\ (~(w.catalogue > 2) => w.catalogue < 3)
  BY <1>2
<1> QED BY <1>1, <1>3 DEF Wrong

-----------------------------------------------------------------------------
(* The fold: what is answered is judged by what was learned.               *)

LEMMA LeastIsThere ==
    ASSUME NEW F \in SUBSET (1..5), F # {}
    PROVE  \E i \in F : \A j \in F : i <= j
<1>1. CASE 1 \in F
  <2>1. \A j \in F : 1 <= j
    OBVIOUS
  <2> QED BY <1>1, <2>1
<1>2. CASE 1 \notin F /\ 2 \in F
  BY <1>2
<1>3. CASE 1 \notin F /\ 2 \notin F /\ 3 \in F
  BY <1>3
<1>4. CASE 1 \notin F /\ 2 \notin F /\ 3 \notin F /\ 4 \in F
  BY <1>4
<1>5. CASE 1 \notin F /\ 2 \notin F /\ 3 \notin F /\ 4 \notin F
  <2>1. \A j \in F : j = 5
    BY <1>5
  <2>2. \A i, j \in F : i <= j
    BY <2>1
  <2> QED BY <2>2
<1> QED BY <1>1, <1>2, <1>3, <1>4, <1>5

LEMMA ChecksOfReads ==
    ASSUME NEW s \in ReadRecords
    PROVE  /\ DOMAIN Checks(s) = 1..5
           /\ s.failed = "storage" =>
                Checks(s)[1] = Check("unavailable", "storage_unavailable")
           /\ s.failed = "evaluation" =>
                /\ Checks(s)[1] = Healthy
                /\ Checks(s)[2] = Check("unavailable", "installation_unavailable")
                /\ \A k \in 3..5 : Checks(s)[k] = Unknown
           /\ s.failed \in {"no", "audit"} =>
                /\ Checks(s)[1] = Healthy /\ Checks(s)[2] = Installation(s)
                /\ Checks(s)[3] = Identity(s) /\ Checks(s)[4] = ServiceCatalog(s)
                /\ Checks(s)[5] = AuditDiagnostics(s)
<1>1. CASE s.failed = "storage"
  <2>1. Checks(s) = <<Check("unavailable", "storage_unavailable"),
                      Unknown, Unknown, Unknown, Unknown>>
    BY <1>1 DEF Checks
  <2> QED BY <1>1, <2>1
<1>2. CASE s.failed = "evaluation"
  <2>1. Checks(s) = <<Healthy, Check("unavailable", "installation_unavailable"),
                      Unknown, Unknown, Unknown>>
    BY <1>2 DEF Checks
  <2>2. \A k \in 3..5 : k = 3 \/ k = 4 \/ k = 5
    OBVIOUS
  <2> QED BY <1>2, <2>1, <2>2
<1>3. CASE s.failed \in {"no", "audit"}
  <2>1. Checks(s) = <<Healthy, Installation(s), Identity(s),
                      ServiceCatalog(s), AuditDiagnostics(s)>>
    BY <1>3 DEF Checks
  <2> QED BY <1>3, <2>1
<1> QED BY <1>1, <1>2, <1>3 DEF ReadRecords

RankedReasons == {Ranked[i].reason : i \in 1..5}

LEMMA RankedIs ==
    /\ DOMAIN Ranked = 1..5
    /\ Ranked[1].reason = "identity_degraded"
    /\ Ranked[2].reason = "service_catalog_degraded"
    /\ Ranked[3].reason = "audit_unavailable"
    /\ Ranked[4].reason = "installation_degraded"
    /\ Ranked[5].reason = "installation_unavailable"
    /\ \A i \in 1..5 : \E st \in {"degraded", "unavailable"} :
         Ranked[i] = Check(st, Ranked[i].reason)
<1>1. \A i \in 1..5 : i = 1 \/ i = 2 \/ i = 3 \/ i = 4 \/ i = 5
  OBVIOUS
<1> QED BY <1>1 DEF Ranked, Check

\* _overall_status: without setup and with storage, the answer is one of the
\* ranked reasons that an indicator has, or that of the first one unwell.
LEMMA OverallIsFound ==
    ASSUME NEW checks, DOMAIN checks = 1..5, checks[1].status # "unavailable",
           \A k \in 1..5 : checks[k].status # "setup_required"
    PROVE  \/ \E k \in 1..5 : \E st \in {"degraded", "unavailable"} :
                /\ Overall(checks) = Check(st, checks[k].reason)
                /\ checks[k].reason \in RankedReasons
           \/ /\ \A k \in 1..5 : checks[k].reason \notin RankedReasons
              /\ \/ \E k \in 1..5 : checks[k].status # "healthy"
                 \/ Overall(checks) = Healthy
<1> DEFINE First(S) == CHOOSE i \in S : \A j \in S : i <= j
           Found == {i \in DOMAIN Ranked :
                       \E k \in DOMAIN checks : checks[k].reason = Ranked[i].reason}
           Unwell == {k \in DOMAIN checks : checks[k].status # "healthy"}
<1>1. Overall(checks) = IF Found # {} THEN Ranked[First(Found)]
                        ELSE IF Unwell # {}
                        THEN Check("degraded", checks[First(Unwell)].reason)
                        ELSE Healthy
  BY DEF Overall
<1>2. CASE Found # {}
  <2>1. Found \in SUBSET (1..5)
    BY RankedIs
  <2>2. First(Found) \in Found
    BY <1>2, <2>1, LeastIsThere
  <2>3. PICK k \in 1..5 : checks[k].reason = Ranked[First(Found)].reason
    BY <2>2
  <2>4. Overall(checks) = Ranked[First(Found)] /\ First(Found) \in 1..5
    BY <1>1, <1>2, <2>1, <2>2
  <2> HIDE DEF First, Found
  <2> QED BY <2>3, <2>4, RankedIs DEF RankedReasons
<1>3. CASE Found = {}
  <2>1. \A k \in 1..5 : checks[k].reason \notin RankedReasons
    BY <1>3, RankedIs DEF RankedReasons
  <2>2. Unwell = {} => Overall(checks) = Healthy
    BY <1>1, <1>3
  <2> QED BY <2>1, <2>2
<1> QED BY <1>2, <1>3

Results == [status : Statuses, reason : Reasons]

LEMMA FoldIsJudged ==
    ASSUME NEW s \in ReadRecords, NEW S, Learned(s, 10, S)
    PROVE  Overall(Checks(s)) \in Results /\ Judged(Overall(Checks(s)), S)
<1> DEFINE c == Checks(s)
           r == Overall(c)
<1> SUFFICES r \in Results /\ Judged(r, S)
  OBVIOUS
<1>1. /\ DOMAIN c = 1..5
      /\ s.failed \in {"no", "storage", "evaluation", "audit"}
  BY ChecksOfReads DEF ReadRecords
<1>2. /\ Healthy.status = "healthy" /\ Healthy.reason = "all_clear"
      /\ \A st, re : Check(st, re).status = st /\ Check(st, re).reason = re
      /\ Unknown.status = "unknown" /\ Unknown.reason = "unknown"
      /\ \A st \in Statuses, re \in Reasons : Check(st, re) \in Results
  BY DEF Healthy, Unknown, Check, Results
<1>3. /\ RankedReasons = {"identity_degraded", "service_catalog_degraded",
                         "audit_unavailable", "installation_degraded",
                         "installation_unavailable"}
      /\ RankedReasons \subseteq Reasons
  <2>1. \A i \in 1..5 : i = 1 \/ i = 2 \/ i = 3 \/ i = 4 \/ i = 5
    OBVIOUS
  <2>2. RankedReasons = {"identity_degraded", "service_catalog_degraded",
                         "audit_unavailable", "installation_degraded",
                         "installation_unavailable"}
    BY <2>1, RankedIs DEF RankedReasons
  <2> QED BY <2>2 DEF Reasons
<1>4. CASE s.failed = "storage"
  <2>1. c[1].status = "unavailable"
    BY <1>2, <1>4, ChecksOfReads
  <2>2. r = Check("unavailable", "storage_unavailable")
    BY <2>1 DEF Overall
  <2>3. Wrong(S, "storage_unavailable")
    BY <1>4 DEF Learned
  <2> HIDE DEF r
  <2> QED BY <1>2, <2>2, <2>3 DEF Judged, Statuses, Reasons
<1>5. CASE s.failed = "evaluation"
  <2>1. /\ c[1] = Healthy
        /\ c[2] = Check("unavailable", "installation_unavailable")
        /\ \A k \in 3..5 : c[k] = Unknown
    BY <1>5, ChecksOfReads
  <2>2. \A k \in 1..5 : k = 1 \/ k = 2 \/ k \in 3..5
    OBVIOUS
  <2>3. \A k \in 1..5 : /\ c[k].status # "setup_required"
                        /\ c[k].reason \in RankedReasons => k = 2
    BY <1>2, <1>3, <2>1, <2>2
  <2>4. c[2].reason = "installation_unavailable" /\ c[1].status # "unavailable"
    BY <1>2, <2>1
  <2> HIDE DEF c
  <2>5. PICK st \in {"degraded", "unavailable"} :
           r = Check(st, "installation_unavailable")
    BY <1>1, <1>3, <2>3, <2>4, OverallIsFound
  <2>6. Wrong(S, "installation_unavailable")
    BY <1>5 DEF Learned
  <2> HIDE DEF r
  <2> QED BY <1>2, <2>5, <2>6 DEF Judged, Statuses, Reasons
<1>6. CASE s.failed \in {"no", "audit"}
  <2>1. /\ c[1] = Healthy /\ c[2] = Installation(s) /\ c[3] = Identity(s)
        /\ c[4] = ServiceCatalog(s) /\ c[5] = AuditDiagnostics(s)
    BY <1>6, ChecksOfReads
  <2>2. Answers(s, 10, S)
    BY <1>6 DEF Learned
  <2>3. CASE Setup(s)
    <3>1. c[1].status # "unavailable" /\ c[2].status = "setup_required"
      BY <1>2, <2>1, <2>3 DEF Installation, Setup
    <3>2. r = Check("setup_required", "setup_required")
      BY <1>1, <3>1 DEF Overall
    <3>3. Wrong(S, "setup_required")
      BY <2>2, <2>3 DEF Answers, Setup, SetupRequired
    <3> HIDE DEF r
    <3> QED BY <1>2, <3>2, <3>3 DEF Judged, Statuses, Reasons
  <2>4. CASE ~Setup(s)
    <3>1. /\ s.state # "other" /\ c[2] = Healthy /\ Was(S, "installation")
          \/ /\ c[2] = Check("degraded", "installation_degraded")
             /\ Wrong(S, "installation_degraded")
      BY <2>1, <2>2, <2>4 DEF Installation, Answers, Setup
    <3>2. \/ c[3] = Healthy /\ Was(S, "administrator")
          \/ /\ c[3] = Check("degraded", "identity_degraded")
             /\ Wrong(S, "identity_degraded")
      BY <2>1, <2>2, <2>4 DEF Identity, Answers, Setup
    <3>3. \/ c[4] = Healthy /\ Was(S, "service")
          \/ /\ c[4] = Check("degraded", "service_catalog_degraded")
             /\ Wrong(S, "service_catalog_degraded")
      BY <2>1, <2>2, <2>4 DEF ServiceCatalog, Answers, Setup
    <3>4. \/ c[5] = Healthy /\ Was(S, "audit")
          \/ /\ c[5] = Check("unavailable", "audit_unavailable")
             /\ Wrong(S, "audit_unavailable")
      BY <1>6, <2>1, <2>2 DEF AuditDiagnostics, Answers, Learned
    <3>5. c[1] = Healthy /\ Was(S, "storage")
      BY <2>1, <2>2 DEF Answers
    <3> HIDE DEF c
    <3>6. \A k \in 1..5 : k = 1 \/ k = 2 \/ k = 3 \/ k = 4 \/ k = 5
      OBVIOUS
    <3>7. \A k \in 1..5 :
             /\ c[k].status # "setup_required"
             /\ c[k].reason \in RankedReasons => Wrong(S, c[k].reason)
             /\ c[k].reason \notin RankedReasons => c[k] = Healthy
      BY <1>2, <1>3, <3>1, <3>2, <3>3, <3>4, <3>5, <3>6
    <3>8. c[1].status # "unavailable"
      BY <1>2, <3>5
    <3>9. CASE \E k \in 1..5 : \E st \in {"degraded", "unavailable"} :
                  r = Check(st, c[k].reason) /\ c[k].reason \in RankedReasons
      <4>1. PICK k \in 1..5, st \in {"degraded", "unavailable"} :
                  r = Check(st, c[k].reason) /\ c[k].reason \in RankedReasons
        BY <3>9
      <4>2. r.status = st /\ r.reason = c[k].reason /\ r \in Results
        BY <1>2, <1>3, <4>1 DEF Statuses
      <4> QED BY <3>7, <4>1, <4>2 DEF Judged
    <3>10. CASE \A k \in 1..5 : c[k].reason \notin RankedReasons
      <4>1. \A k \in 1..5 : c[k] = Healthy
        BY <3>7, <3>10
      <4>2. r = Healthy
        BY <1>1, <1>2, <3>7, <3>8, <3>10, <4>1, OverallIsFound
      <4>3. \A i \in 1..5 : ~(\E st, re : c[i] = Check(st, re) /\ st # "healthy")
        BY <1>2, <4>1
      <4>4. \A n \in ConditionNames : Was(S, n)
        BY <1>2, <3>1, <3>2, <3>3, <3>4, <3>5, <4>3 DEF ConditionNames
      <4> HIDE DEF r
      <4>5. r.status = "healthy" /\ r \in Results
        BY <1>2, <4>2 DEF Healthy, Statuses, Reasons
      <4> QED BY <4>4, <4>5 DEF Judged
    <3> QED BY <1>1, <3>7, <3>8, <3>9, <3>10, OverallIsFound
  <2> QED BY <2>3, <2>4
<1> QED BY <1>1, <1>4, <1>5, <1>6

-----------------------------------------------------------------------------
(* The questions.                                                          *)

LEMMA BecomesOne ==
    ASSUME TypeOK, NEW p \in Probes, NEW q \in ProbeRecords, Becomes(p, q)
    PROVE  /\ probe' \in [Probes -> ProbeRecords] /\ probe'[p] = q
           /\ \A o \in Probes \ {p} : probe'[o] = probe[o] /\ since'[o] = since[o]
           /\ since' \in [Probes -> SUBSET Worlds]
           /\ Evaluating(q) => since'[p] = since[p] \cup {world}
<1>1. since \in [Probes -> SUBSET Worlds] /\ world \in Worlds
  BY DEF TypeOK
<1> QED BY <1>1 DEF TypeOK, Becomes

\* What a step of p leaves behind: types, and what the other probes know.
LEMMA OthersStayGrounded ==
    ASSUME HInv, NEW p \in Probes, NEW q \in ProbeRecords, Becomes(p, q),
           world' = world, previous' \in Known, told' \in Known,
           log' \in [from : Known, to : Known],
           Grounded(p)'
    PROVE  HInv'
<1>1. /\ probe' \in [Probes -> ProbeRecords]
      /\ since' \in [Probes -> SUBSET Worlds]
      /\ \A o \in Probes \ {p} : probe'[o] = probe[o] /\ since'[o] = since[o]
  BY BecomesOne DEF HInv
<1>2. TypeOK'
  BY <1>1 DEF HInv, TypeOK
<1>3. \A o \in Probes \ {p} : Grounded(o)'
  BY <1>1 DEF HInv, Grounded
<1> QED BY <1>2, <1>3 DEF HInv

LEMMA StageIs ==
    /\ Stage["storage"] = 1 /\ Stage["state"] = 2 /\ Stage["users"] = 3
    /\ Stage["activeUsers"] = 4 /\ Stage["activeAdmins"] = 5
    /\ Stage["services"] = 6 /\ Stage["enabled"] = 7 /\ Stage["linked"] = 8
    /\ Stage["audit"] = 9 /\ Stage["fold"] = 10
BY DEF Stage

\* A question that fails leads to the fold, with what was learned until then.
LEMMA FailureIsLearned ==
    ASSUME NEW s \in ReadRecords, NEW n \in 1..9, NEW S, NEW w \in WorldRecords,
           Learned(s, n, S), w \in S,
           NEW failure \in {"storage", "evaluation", "audit"},
           failure = "audit" => n = 9 /\ ~(w.storage /\ w.audit),
           failure # "audit" => ~w.storage
    PROVE  /\ [s EXCEPT !.failed = failure] \in ReadRecords
           /\ Learned([s EXCEPT !.failed = failure], 10, S)
<1> DEFINE t == [s EXCEPT !.failed = failure]
<1>1. t \in ReadRecords
  BY DEF ReadRecords
<1>2. /\ t.failed = failure /\ t.state = s.state /\ t.users = s.users
      /\ t.activeUsers = s.activeUsers /\ t.activeAdmins = s.activeAdmins
      /\ t.services = s.services /\ t.enabled = s.enabled /\ t.linked = s.linked
  BY DEF ReadRecords
<1> HIDE DEF t
<1>3. /\ failure = "storage" => Wrong(S, "storage_unavailable")
      /\ failure = "evaluation" => Wrong(S, "installation_unavailable")
      /\ failure = "audit" => Wrong(S, "audit_unavailable")
  BY WorldFaults
<1>4. CASE failure = "audit"
  <2>1. Answers(s, 9, S)
    BY <1>4 DEF Learned
  <2>2. Answers(t, 10, S)
    BY <1>2, <1>4, <2>1 DEF Answers, Setup
  <2> QED BY <1>1, <1>2, <1>3, <1>4, <2>2 DEF Learned, t
<1>5. CASE failure # "audit"
  <2>1. Learned(t, 10, S)
    BY <1>2, <1>3, <1>5 DEF Learned
  <2> QED BY <1>1, <2>1 DEF t
<1> QED BY <1>4, <1>5

\* One question of a probe: where it leads, and what is learned by then.
LEMMA QuestionIsGrounded ==
    ASSUME HInv, NEW p \in Probes, NEW ph \in Questions, NEW answered \in BOOLEAN,
           NEW next \in ProbeRecords,
           NEW failure \in {"storage", "evaluation", "audit"},
           Question(p, ph, answered, next, failure),
           answered => /\ next.ph \in Questions \cup {"fold"}
                       /\ Learned(next.seen, Stage[next.ph], since[p] \cup {world}),
           ~answered /\ failure = "audit" =>
              ph = "audit" /\ ~(world.storage /\ world.audit),
           ~answered /\ failure # "audit" => ~world.storage
    PROVE  HInv'
<1> DEFINE q == probe[p]
           S == since[p] \cup {world}
           s == q.seen
<1>1. /\ TypeOK /\ q \in ProbeRecords /\ s \in ReadRecords /\ q.ph = ph
      /\ world \in WorldRecords
      /\ world' = world /\ previous' = previous /\ log' = log /\ told' = told
  BY WorldsAssumption DEF HInv, TypeOK, Question, At, ProbeRecords
<1>2. Stage[ph] \in 1..9 /\ Learned(s, Stage[ph], since[p])
  BY <1>1, StageIs DEF HInv, Grounded, Questions
<1>3. Learned(s, Stage[ph], S)
  BY <1>2, MoreWorlds
<1>4. CASE answered
  <2>1. Becomes(p, next) /\ Evaluating(next)
    BY <1>4 DEF Question, Evaluating, Questions
  <2>2. Grounded(p)'
    BY <1>1, <1>4, <2>1, BecomesOne DEF Grounded, Questions
  <2> QED BY <1>1, <2>1, <2>2, OthersStayGrounded DEF TypeOK
<1>5. CASE ~answered
  <2> DEFINE t == [s EXCEPT !.failed = failure]
             r == [q EXCEPT !.ph = "fold", !.seen = t]
  <2>1. t \in ReadRecords /\ Learned(t, 10, S)
    <3> DEFINE n == Stage[ph]
    <3>1. failure = "audit" => n = 9 /\ ~(world.storage /\ world.audit)
      BY <1>5, StageIs
    <3>2. n \in 1..9 /\ Learned(s, n, S) /\ world \in S
      BY <1>2, <1>3
    <3> HIDE DEF n, S, s
    <3> QED BY <1>1, <1>5, <3>1, <3>2, FailureIsLearned
  <2>2. Becomes(p, r)
    <3>1. [q EXCEPT !.ph = "fold", !.seen.failed = failure] = r
      BY <1>1 DEF ProbeRecords, ReadRecords
    <3> QED BY <1>5, <3>1 DEF Question
  <2> HIDE DEF t
  <2>3. r \in ProbeRecords /\ r.ph = "fold" /\ r.seen = t
    BY <1>1, <2>1 DEF ProbeRecords
  <2> HIDE DEF r
  <2>4. Evaluating(r)
    BY <2>3 DEF Evaluating
  <2>5. Grounded(p)'
    BY <1>1, <2>1, <2>2, <2>3, <2>4, BecomesOne, StageIs DEF Grounded, Questions
  <2> QED BY <1>1, <2>2, <2>3, <2>5, OthersStayGrounded DEF TypeOK
<1> QED BY <1>4, <1>5

\* What a probe at a question has learned, with the present among its worlds.
LEMMA BeforeQuestion ==
    ASSUME HInv, NEW p \in Probes, probe[p].ph \in Questions
    PROVE  /\ probe[p] \in ProbeRecords /\ probe[p].seen \in ReadRecords
           /\ world \in WorldRecords
           /\ Learned(probe[p].seen, Stage[probe[p].ph], since[p] \cup {world})
<1>1. Learned(probe[p].seen, Stage[probe[p].ph], since[p])
  BY DEF HInv, Grounded
<1>2. Learned(probe[p].seen, Stage[probe[p].ph], since[p] \cup {world})
  BY <1>1, MoreWorlds
<1>3. probe[p] \in ProbeRecords /\ world \in WorldRecords
  BY WorldsAssumption DEF HInv, TypeOK
<1>4. probe[p].seen \in ReadRecords
  BY <1>3 DEF ProbeRecords
<1> QED BY <1>2, <1>3, <1>4

LEMMA AskStateLearns ==
    ASSUME HInv, NEW p \in Probes, AskState(p) PROVE HInv'
<1> DEFINE q == probe[p]
           s == q.seen
           S == since[p] \cup {world}
           v == world.state
           t == [s EXCEPT !.state = v]
           next == [q EXCEPT !.ph = "users", !.seen = t]
<1>1. q.ph = "state"
  BY DEF AskState, Question, At
<1>2. /\ q \in ProbeRecords /\ s \in ReadRecords /\ world \in WorldRecords
      /\ Learned(s, 2, S) /\ world \in S
  BY <1>1, BeforeQuestion, StageIs DEF Questions
<1>3. Question(p, "state", world.storage, next, "evaluation")
  <2>1. [q EXCEPT !.ph = "users", !.seen.state = v] = next
    BY <1>2 DEF ProbeRecords, ReadRecords
  <2> QED BY <2>1 DEF AskState
<1>4. /\ v \in {"none", "needs_bootstrap", "initialized", "other"}
      /\ world.storage \in BOOLEAN
  BY <1>2 DEF WorldRecords
<1>5. IF v = "other" THEN Wrong(S, "installation_degraded")
      ELSE Was(S, "installation")
  BY <1>2, <1>4, WorldConditions, WorldFaults
<1> HIDE DEF v, S
<1>6. /\ t \in ReadRecords /\ t.failed = s.failed
      /\ t.state = v
      /\ t.users = s.users /\ t.activeUsers = s.activeUsers
      /\ t.activeAdmins = s.activeAdmins /\ t.services = s.services
      /\ t.enabled = s.enabled /\ t.linked = s.linked
  BY <1>2, <1>4 DEF ReadRecords
<1> HIDE DEF t
<1>7. Learned(t, 3, S)
  <2>1. Answers(s, 2, S) /\ s.failed = "no"
    BY <1>2 DEF Learned
  <2>2. Answers(t, 3, S)
    BY <1>5, <1>6, <2>1 DEF Answers, Setup
  <2> QED BY <1>6, <2>1, <2>2 DEF Learned
<1>8. next \in ProbeRecords /\ next.ph = "users" /\ next.seen = t
  BY <1>2, <1>6 DEF ProbeRecords
<1> HIDE DEF next
<1>9. Stage["users"] = 3
  BY StageIs
<1> QED BY <1>3, <1>4, <1>7, <1>8, <1>9, QuestionIsGrounded DEF Questions, S

LEMMA AskActiveUsersLearns ==
    ASSUME HInv, NEW p \in Probes, AskActiveUsers(p) PROVE HInv'
<1> DEFINE q == probe[p]
           s == q.seen
           S == since[p] \cup {world}
           v == world.users > 1
           t == [s EXCEPT !.activeUsers = v]
           next == [q EXCEPT !.ph = "activeAdmins", !.seen = t]
<1>1. q.ph = "activeUsers"
  BY DEF AskActiveUsers, Question, At
<1>2. /\ q \in ProbeRecords /\ s \in ReadRecords /\ world \in WorldRecords
      /\ Learned(s, 4, S) /\ world \in S
  BY <1>1, BeforeQuestion, StageIs DEF Questions
<1>3. Question(p, "activeUsers", world.storage, next, "evaluation")
  <2>1. [q EXCEPT !.ph = "activeAdmins", !.seen.activeUsers = v] = next
    BY <1>2 DEF ProbeRecords, ReadRecords
  <2> QED BY <2>1 DEF AskActiveUsers
<1>4. /\ v \in BOOLEAN
      /\ world.storage \in BOOLEAN
  BY <1>2 DEF WorldRecords
<1>5. ~v => Wrong(S, "identity_degraded")
  <2>1. ~v => ~(world.users > 2)
    BY <1>2 DEF WorldRecords
  <2> QED BY <1>2, <2>1, WorldFaults
<1> HIDE DEF v, S
<1>6. /\ t \in ReadRecords /\ t.failed = s.failed
      /\ t.activeUsers = v
      /\ t.state = s.state /\ t.users = s.users
      /\ t.activeAdmins = s.activeAdmins /\ t.services = s.services
      /\ t.enabled = s.enabled /\ t.linked = s.linked
  BY <1>2, <1>4 DEF ReadRecords
<1> HIDE DEF t
<1>7. Learned(t, 5, S)
  <2>1. Answers(s, 4, S) /\ s.failed = "no"
    BY <1>2 DEF Learned
  <2>2. Answers(t, 5, S)
    BY <1>5, <1>6, <2>1 DEF Answers, Setup
  <2> QED BY <1>6, <2>1, <2>2 DEF Learned
<1>8. next \in ProbeRecords /\ next.ph = "activeAdmins" /\ next.seen = t
  BY <1>2, <1>6 DEF ProbeRecords
<1> HIDE DEF next
<1>9. Stage["activeAdmins"] = 5
  BY StageIs
<1> QED BY <1>3, <1>4, <1>7, <1>8, <1>9, QuestionIsGrounded DEF Questions, S

LEMMA AskActiveAdminsLearns ==
    ASSUME HInv, NEW p \in Probes, AskActiveAdmins(p) PROVE HInv'
<1> DEFINE q == probe[p]
           s == q.seen
           S == since[p] \cup {world}
           v == world.users > 2
           t == [s EXCEPT !.activeAdmins = v]
           next == [q EXCEPT !.ph = "services", !.seen = t]
<1>1. q.ph = "activeAdmins"
  BY DEF AskActiveAdmins, Question, At
<1>2. /\ q \in ProbeRecords /\ s \in ReadRecords /\ world \in WorldRecords
      /\ Learned(s, 5, S) /\ world \in S
  BY <1>1, BeforeQuestion, StageIs DEF Questions
<1>3. Question(p, "activeAdmins", world.storage, next, "evaluation")
  <2>1. [q EXCEPT !.ph = "services", !.seen.activeAdmins = v] = next
    BY <1>2 DEF ProbeRecords, ReadRecords
  <2> QED BY <2>1 DEF AskActiveAdmins
<1>4. /\ v \in BOOLEAN
      /\ world.storage \in BOOLEAN
  BY <1>2 DEF WorldRecords
<1>5. IF v THEN Was(S, "administrator")
      ELSE Wrong(S, "identity_degraded")
  BY <1>2, <1>4, WorldConditions, WorldFaults
<1> HIDE DEF v, S
<1>6. /\ t \in ReadRecords /\ t.failed = s.failed
      /\ t.activeAdmins = v
      /\ t.state = s.state /\ t.users = s.users
      /\ t.activeUsers = s.activeUsers /\ t.services = s.services
      /\ t.enabled = s.enabled /\ t.linked = s.linked
  BY <1>2, <1>4 DEF ReadRecords
<1> HIDE DEF t
<1>7. Learned(t, 6, S)
  <2>1. Answers(s, 5, S) /\ s.failed = "no"
    BY <1>2 DEF Learned
  <2>2. Answers(t, 6, S)
    BY <1>5, <1>6, <2>1 DEF Answers, Setup
  <2> QED BY <1>6, <2>1, <2>2 DEF Learned
<1>8. next \in ProbeRecords /\ next.ph = "services" /\ next.seen = t
  BY <1>2, <1>6 DEF ProbeRecords
<1> HIDE DEF next
<1>9. Stage["services"] = 6
  BY StageIs
<1> QED BY <1>3, <1>4, <1>7, <1>8, <1>9, QuestionIsGrounded DEF Questions, S

LEMMA AskServicesLearns ==
    ASSUME HInv, NEW p \in Probes, AskServices(p) PROVE HInv'
<1> DEFINE q == probe[p]
           s == q.seen
           S == since[p] \cup {world}
           v == world.catalogue > 0
           t == [s EXCEPT !.services = v]
           next == [q EXCEPT !.ph = "enabled", !.seen = t]
<1>1. q.ph = "services"
  BY DEF AskServices, Question, At
<1>2. /\ q \in ProbeRecords /\ s \in ReadRecords /\ world \in WorldRecords
      /\ Learned(s, 6, S) /\ world \in S
  BY <1>1, BeforeQuestion, StageIs DEF Questions
<1>3. Question(p, "services", world.storage, next, "evaluation")
  <2>1. [q EXCEPT !.ph = "enabled", !.seen.services = v] = next
    BY <1>2 DEF ProbeRecords, ReadRecords
  <2> QED BY <2>1 DEF AskServices
<1>4. /\ v \in BOOLEAN
      /\ world.storage \in BOOLEAN
  BY <1>2 DEF WorldRecords
<1>5. ~v => Wrong(S, "service_catalog_degraded")
  <2>1. ~v => ~(world.catalogue > 2)
    BY <1>2 DEF WorldRecords
  <2> QED BY <1>2, <2>1, WorldFaults
<1> HIDE DEF v, S
<1>6. /\ t \in ReadRecords /\ t.failed = s.failed
      /\ t.services = v
      /\ t.state = s.state /\ t.users = s.users
      /\ t.activeUsers = s.activeUsers /\ t.activeAdmins = s.activeAdmins
      /\ t.enabled = s.enabled /\ t.linked = s.linked
  BY <1>2, <1>4 DEF ReadRecords
<1> HIDE DEF t
<1>7. Learned(t, 7, S)
  <2>1. Answers(s, 6, S) /\ s.failed = "no"
    BY <1>2 DEF Learned
  <2>2. Answers(t, 7, S)
    BY <1>5, <1>6, <2>1 DEF Answers, Setup
  <2> QED BY <1>6, <2>1, <2>2 DEF Learned
<1>8. next \in ProbeRecords /\ next.ph = "enabled" /\ next.seen = t
  BY <1>2, <1>6 DEF ProbeRecords
<1> HIDE DEF next
<1>9. Stage["enabled"] = 7
  BY StageIs
<1> QED BY <1>3, <1>4, <1>7, <1>8, <1>9, QuestionIsGrounded DEF Questions, S

LEMMA AskEnabledLearns ==
    ASSUME HInv, NEW p \in Probes, AskEnabled(p) PROVE HInv'
<1> DEFINE q == probe[p]
           s == q.seen
           S == since[p] \cup {world}
           v == world.catalogue > 1
           t == [s EXCEPT !.enabled = v]
           next == [q EXCEPT !.ph = "linked", !.seen = t]
<1>1. q.ph = "enabled"
  BY DEF AskEnabled, Question, At
<1>2. /\ q \in ProbeRecords /\ s \in ReadRecords /\ world \in WorldRecords
      /\ Learned(s, 7, S) /\ world \in S
  BY <1>1, BeforeQuestion, StageIs DEF Questions
<1>3. Question(p, "enabled", world.storage, next, "evaluation")
  <2>1. [q EXCEPT !.ph = "linked", !.seen.enabled = v] = next
    BY <1>2 DEF ProbeRecords, ReadRecords
  <2> QED BY <2>1 DEF AskEnabled
<1>4. /\ v \in BOOLEAN
      /\ world.storage \in BOOLEAN
  BY <1>2 DEF WorldRecords
<1>5. ~v => Wrong(S, "service_catalog_degraded")
  <2>1. ~v => ~(world.catalogue > 2)
    BY <1>2 DEF WorldRecords
  <2> QED BY <1>2, <2>1, WorldFaults
<1> HIDE DEF v, S
<1>6. /\ t \in ReadRecords /\ t.failed = s.failed
      /\ t.enabled = v
      /\ t.state = s.state /\ t.users = s.users
      /\ t.activeUsers = s.activeUsers /\ t.activeAdmins = s.activeAdmins
      /\ t.services = s.services /\ t.linked = s.linked
  BY <1>2, <1>4 DEF ReadRecords
<1> HIDE DEF t
<1>7. Learned(t, 8, S)
  <2>1. Answers(s, 7, S) /\ s.failed = "no"
    BY <1>2 DEF Learned
  <2>2. Answers(t, 8, S)
    BY <1>5, <1>6, <2>1 DEF Answers, Setup
  <2> QED BY <1>6, <2>1, <2>2 DEF Learned
<1>8. next \in ProbeRecords /\ next.ph = "linked" /\ next.seen = t
  BY <1>2, <1>6 DEF ProbeRecords
<1> HIDE DEF next
<1>9. Stage["linked"] = 8
  BY StageIs
<1> QED BY <1>3, <1>4, <1>7, <1>8, <1>9, QuestionIsGrounded DEF Questions, S

LEMMA AskLinkedLearns ==
    ASSUME HInv, NEW p \in Probes, AskLinked(p) PROVE HInv'
<1> DEFINE q == probe[p]
           s == q.seen
           S == since[p] \cup {world}
           v == world.catalogue > 2
           t == [s EXCEPT !.linked = v]
           next == [q EXCEPT !.ph = "audit", !.seen = t]
<1>1. q.ph = "linked"
  BY DEF AskLinked, Question, At
<1>2. /\ q \in ProbeRecords /\ s \in ReadRecords /\ world \in WorldRecords
      /\ Learned(s, 8, S) /\ world \in S
  BY <1>1, BeforeQuestion, StageIs DEF Questions
<1>3. Question(p, "linked", world.storage, next, "evaluation")
  <2>1. [q EXCEPT !.ph = "audit", !.seen.linked = v] = next
    BY <1>2 DEF ProbeRecords, ReadRecords
  <2> QED BY <2>1 DEF AskLinked
<1>4. /\ v \in BOOLEAN
      /\ world.storage \in BOOLEAN
  BY <1>2 DEF WorldRecords
<1>5. IF v THEN Was(S, "service")
      ELSE Wrong(S, "service_catalog_degraded")
  BY <1>2, <1>4, WorldConditions, WorldFaults
<1> HIDE DEF v, S
<1>6. /\ t \in ReadRecords /\ t.failed = s.failed
      /\ t.linked = v
      /\ t.state = s.state /\ t.users = s.users
      /\ t.activeUsers = s.activeUsers /\ t.activeAdmins = s.activeAdmins
      /\ t.services = s.services /\ t.enabled = s.enabled
  BY <1>2, <1>4 DEF ReadRecords
<1> HIDE DEF t
<1>7. Learned(t, 9, S)
  <2>1. Answers(s, 8, S) /\ s.failed = "no"
    BY <1>2 DEF Learned
  <2>2. Answers(t, 9, S)
    BY <1>5, <1>6, <2>1 DEF Answers, Setup
  <2> QED BY <1>6, <2>1, <2>2 DEF Learned
<1>8. next \in ProbeRecords /\ next.ph = "audit" /\ next.seen = t
  BY <1>2, <1>6 DEF ProbeRecords
<1> HIDE DEF next
<1>9. Stage["audit"] = 9
  BY StageIs
<1> QED BY <1>3, <1>4, <1>7, <1>8, <1>9, QuestionIsGrounded DEF Questions, S

LEMMA AskStorageLearns ==
    ASSUME HInv, NEW p \in Probes, AskStorage(p) PROVE HInv'
<1> DEFINE q == probe[p]
           S == since[p] \cup {world}
           next == [q EXCEPT !.ph = "state"]
<1>1. q.ph = "storage"
  BY DEF AskStorage, Question, At
<1>2. /\ q \in ProbeRecords /\ world \in WorldRecords /\ world \in S
      /\ Learned(q.seen, 1, S) /\ world.storage \in BOOLEAN
  BY <1>1, BeforeQuestion, StageIs DEF Questions, WorldRecords
<1>3. Question(p, "storage", world.storage, next, "storage")
  BY DEF AskStorage
<1>4. next \in ProbeRecords /\ next.ph = "state" /\ next.seen = q.seen
  BY <1>2 DEF ProbeRecords
<1> HIDE DEF next
<1>5. ASSUME world.storage PROVE Learned(next.seen, 2, S)
  <2>1. Was(S, "storage")
    BY <1>2, <1>5, WorldConditions
  <2>2. Answers(q.seen, 2, S)
    BY <1>2, <2>1 DEF Answers, Learned
  <2> QED BY <1>2, <1>4, <2>2 DEF Learned
<1> QED BY <1>2, <1>3, <1>4, <1>5, StageIs, QuestionIsGrounded DEF Questions

LEMMA AskUsersLearns ==
    ASSUME HInv, NEW p \in Probes, AskUsers(p) PROVE HInv'
<1> DEFINE q == probe[p]
           s == q.seen
           S == since[p] \cup {world}
           v == world.users > 0
           ph == IF SetupRequired(s.state, v) THEN "audit" ELSE "activeUsers"
           t == [s EXCEPT !.users = v]
           next == [q EXCEPT !.ph = ph, !.seen = t]
<1>1. q.ph = "users"
  BY DEF AskUsers, Question, At
<1>2. /\ q \in ProbeRecords /\ s \in ReadRecords /\ world \in WorldRecords
      /\ Learned(s, 3, S) /\ world \in S
  BY <1>1, BeforeQuestion, StageIs DEF Questions
<1>3. Question(p, "users", world.storage, next, "evaluation")
  <2>1. [q EXCEPT !.ph = ph, !.seen.users = v] = next
    BY <1>2 DEF ProbeRecords, ReadRecords
  <2> QED BY <2>1 DEF AskUsers
<1>4. v \in BOOLEAN /\ world.storage \in BOOLEAN
  BY <1>2 DEF WorldRecords
<1>5. ~v => Wrong(S, "setup_required")
  BY <1>2, WorldFaults
<1> HIDE DEF v, S
<1>6. /\ t \in ReadRecords /\ t.failed = s.failed /\ t.users = v
      /\ t.state = s.state /\ t.activeUsers = s.activeUsers
      /\ t.activeAdmins = s.activeAdmins /\ t.services = s.services
      /\ t.enabled = s.enabled /\ t.linked = s.linked
  BY <1>2, <1>4 DEF ReadRecords
<1>7. (ph = "audit" /\ Setup(t)) \/ (ph = "activeUsers" /\ ~Setup(t))
  BY <1>6 DEF Setup
<1> HIDE DEF t, ph
<1>8. Learned(t, Stage[ph], S)
  <2>1. Answers(s, 3, S) /\ s.failed = "no"
    BY <1>2 DEF Learned
  <2>2. CASE ph = "audit" /\ Setup(t)
    <3>1. Answers(t, 9, S)
      BY <1>5, <1>6, <2>1, <2>2 DEF Answers
    <3> QED BY <1>6, <2>1, <2>2, <3>1, StageIs DEF Learned
  <2>3. CASE ph = "activeUsers" /\ ~Setup(t)
    <3>1. Answers(t, 4, S)
      BY <1>5, <1>6, <2>1, <2>3 DEF Answers
    <3> QED BY <1>6, <2>1, <2>3, <3>1, StageIs DEF Learned
  <2> QED BY <1>7, <2>2, <2>3
<1>9. next \in ProbeRecords /\ next.ph = ph /\ next.seen = t
  BY <1>2, <1>6, <1>7 DEF ProbeRecords
<1> HIDE DEF next
<1> QED BY <1>3, <1>4, <1>7, <1>8, <1>9, QuestionIsGrounded DEF Questions, S

LEMMA AskAuditLearns ==
    ASSUME HInv, NEW p \in Probes, AskAudit(p) PROVE HInv'
<1> DEFINE q == probe[p]
           S == since[p] \cup {world}
           v == world.storage /\ world.audit
           next == [q EXCEPT !.ph = "fold"]
<1>1. q.ph = "audit"
  BY DEF AskAudit, Question, At
<1>2. /\ q \in ProbeRecords /\ world \in WorldRecords /\ world \in S
      /\ Learned(q.seen, 9, S) /\ v \in BOOLEAN
  BY <1>1, BeforeQuestion, StageIs DEF Questions, WorldRecords
<1>3. Question(p, "audit", v, next, "audit")
  BY DEF AskAudit
<1>4. next \in ProbeRecords /\ next.ph = "fold" /\ next.seen = q.seen
  BY <1>2 DEF ProbeRecords
<1> HIDE DEF next
<1>5. ASSUME v PROVE Learned(next.seen, 10, S)
  <2>1. Was(S, "audit")
    BY <1>2, <1>5, WorldConditions
  <2>2. Answers(q.seen, 9, S) /\ q.seen.failed = "no"
    BY <1>2 DEF Learned
  <2>3. Answers(q.seen, 10, S)
    BY <2>1, <2>2 DEF Answers
  <2> QED BY <1>4, <2>2, <2>3 DEF Learned
<1>6. "audit" \in Questions /\ "audit" \in {"storage", "evaluation", "audit"}
  BY DEF Questions
<1>7. ~v => ~(world.storage /\ world.audit)
  OBVIOUS
<1> HIDE DEF v
<1> QED BY <1>2, <1>3, <1>4, <1>5, <1>6, <1>7, StageIs, QuestionIsGrounded

-----------------------------------------------------------------------------
(* The other steps.                                                        *)

LEMMA IdleIsTyped ==
    /\ Idle \in ProbeRecords /\ NothingRead \in ReadRecords
    /\ Idle.ph = "idle" /\ Idle.seen = NothingRead /\ NothingRead.failed = "no"
BY DEF Idle, ProbeRecords, NothingRead, ReadRecords, NoResult, Known, Reasons

\* A step of p to a place where nothing is known of worlds.
LEMMA ForgettingStep ==
    ASSUME HInv, NEW p \in Probes, NEW q \in ProbeRecords, Becomes(p, q),
           q.ph \notin Questions \cup {"fold", "compare"},
           world' = world, previous' \in Known, told' \in Known,
           log' \in [from : Known, to : Known]
    PROVE  HInv'
<1>1. probe'[p] = q
  BY BecomesOne DEF HInv
<1>2. Grounded(p)'
  BY <1>1 DEF Grounded
<1> QED BY <1>2, OthersStayGrounded

LEMMA ArriveLearns ==
    ASSUME HInv, NEW p \in Probes, Arrive(p) PROVE HInv'
<1>1. PICK emit \in BOOLEAN :
         Becomes(p, [Idle EXCEPT !.ph = "storage", !.emit = emit])
  BY DEF Arrive
<1> DEFINE q == [Idle EXCEPT !.ph = "storage", !.emit = emit]
<1>2. q \in ProbeRecords /\ q.ph = "storage" /\ q.seen = NothingRead
  BY IdleIsTyped DEF ProbeRecords
<1>3. Becomes(p, q) /\ TypeOK
      /\ world' = world /\ previous' = previous /\ log' = log /\ told' = told
  BY <1>1 DEF Arrive, HInv
<1> HIDE DEF q
<1>4. \A S : Learned(NothingRead, 1, S)
  BY IdleIsTyped DEF Learned, Answers
<1>5. Grounded(p)'
  BY <1>2, <1>3, <1>4, BecomesOne, StageIs DEF Grounded
<1> QED BY <1>2, <1>3, <1>5, OthersStayGrounded DEF TypeOK

LEMMA FoldJudges ==
    ASSUME HInv, NEW p \in Probes, Fold(p) PROVE HInv'
<1> DEFINE s == probe[p].seen
           r == Overall(Checks(s))
           q == [probe[p] EXCEPT !.ph = "compare", !.seen = NothingRead,
                                 !.result = r]
           S == since[p] \cup {world}
<1>1. /\ TypeOK /\ probe[p] \in ProbeRecords /\ probe[p].ph = "fold"
      /\ Grounded(p) /\ Becomes(p, q)
      /\ world' = world /\ previous' = previous /\ log' = log /\ told' = told
  BY DEF Fold, At, HInv, TypeOK
<1>2. s \in ReadRecords /\ Learned(s, 10, since[p])
  BY <1>1, StageIs DEF Grounded, ProbeRecords
<1>3. Learned(s, 10, S)
  BY <1>2, MoreWorlds
<1>4. r \in Results /\ Judged(r, S)
  BY <1>2, <1>3, FoldIsJudged
<1> HIDE DEF r, s
<1>5. /\ q \in ProbeRecords /\ q.ph = "compare" /\ q.result = r
  <2>1. r \in [status : Known, reason : Reasons]
    BY <1>4 DEF Results, Known
  <2> QED BY <1>1, <2>1, IdleIsTyped DEF ProbeRecords
<1> HIDE DEF q
<1>6. probe'[p] = q /\ since'[p] = S
  BY <1>1, <1>5, BecomesOne DEF Evaluating
<1>7. Grounded(p)'
  BY <1>4, <1>5, <1>6 DEF Grounded, Questions
<1> QED BY <1>1, <1>5, <1>7, OthersStayGrounded DEF TypeOK

LEMMA AnswersAreForgotten ==
    ASSUME HInv, NEW p \in Probes, Render(p) \/ Emit(p) PROVE HInv'
<1> DEFINE q == probe[p]
<1>1. /\ TypeOK /\ q \in ProbeRecords /\ q.was \in Known
      /\ q.result.status \in Known
  BY DEF HInv, TypeOK, ProbeRecords
<1>2. CASE Render(p)
  BY <1>1, <1>2, IdleIsTyped, ForgettingStep DEF Render, Questions, TypeOK
<1>3. CASE ReadPrevious(p)
  <2> DEFINE ph == IF Changed(previous, q.result.status) THEN "log" ELSE "replace"
             r == [q EXCEPT !.was = previous, !.ph = ph]
  <2>1. /\ Becomes(p, r) /\ ph \in {"log", "replace"} /\ previous \in Known
        /\ world' = world /\ previous' = previous /\ log' = log /\ told' = told
    BY <1>1, <1>3 DEF ReadPrevious, TypeOK
  <2> HIDE DEF ph
  <2>2. r \in ProbeRecords /\ r.ph = ph
    BY <1>1, <2>1 DEF ProbeRecords
  <2> HIDE DEF r
  <2> QED BY <1>1, <2>1, <2>2, ForgettingStep DEF Questions, TypeOK
<1>4. CASE LogTransition(p)
  <2> DEFINE r == [q EXCEPT !.ph = "replace"]
  <2>1. /\ Becomes(p, r) /\ world' = world /\ previous' = previous /\ told' = told
        /\ log' = [from |-> q.was, to |-> q.result.status]
    BY <1>4 DEF LogTransition
  <2>2. r \in ProbeRecords /\ r.ph = "replace"
    BY <1>1 DEF ProbeRecords
  <2> HIDE DEF r
  <2> QED BY <1>1, <2>1, <2>2, ForgettingStep DEF Questions, TypeOK
<1>5. CASE ReplacePrevious(p)
  <2>1. /\ Becomes(p, Idle) /\ world' = world /\ log' = log
        /\ previous' \in Known /\ told' \in Known
    BY <1>1, <1>5 DEF ReplacePrevious, PreviousReplaced
  <2> QED BY <1>1, <2>1, IdleIsTyped, ForgettingStep DEF Questions, TypeOK
<1> QED BY <1>2, <1>3, <1>4, <1>5 DEF Emit

\* The world changes, and those who are evaluating have seen one more.
LEMMA ChangeIsLearned ==
    ASSUME HInv, Change PROVE HInv'
<1>1. /\ TypeOK /\ world' \in Worlds /\ probe' = probe /\ previous' = previous
      /\ log' = log /\ told' = told
      /\ since' = [p \in Probes |-> IF Evaluating(probe[p])
                                    THEN since[p] \cup {world'} ELSE {}]
  BY DEF HInv, Change
<1>2. TypeOK'
  <2>1. since' \in [Probes -> SUBSET Worlds]
    BY <1>1 DEF TypeOK
  <2> QED BY <1>1, <2>1 DEF TypeOK
<1>3. ASSUME NEW p \in Probes PROVE Grounded(p)'
  <2>1. CASE Evaluating(probe[p])
    <3>1. since[p] \subseteq since'[p] /\ probe'[p] = probe[p]
      BY <1>1, <2>1
    <3> QED BY <3>1, MoreWorlds DEF HInv, Grounded
  <2>2. CASE ~Evaluating(probe[p])
    BY <1>1, <2>2 DEF Grounded, Evaluating, Questions
  <2> QED BY <2>1, <2>2
<1> QED BY <1>2, <1>3 DEF HInv

LEMMA HealthInitially == Init => HInv
<1> SUFFICES ASSUME Init PROVE HInv
  OBVIOUS
<1>1. TypeOK
  BY IdleIsTyped DEF Init, TypeOK, Known
<1>2. ASSUME NEW p \in Probes PROVE Grounded(p)
  BY IdleIsTyped DEF Init, Grounded, Questions
<1> QED BY <1>1, <1>2 DEF HInv

LEMMA HealthInductive == HInv /\ [Next]_vars => HInv'
<1> SUFFICES ASSUME HInv, [Next]_vars PROVE HInv'
  OBVIOUS
<1>1. CASE UNCHANGED vars
  BY <1>1 DEF HInv, TypeOK, Grounded, vars
<1>2. CASE Change
  BY <1>2, ChangeIsLearned
<1>3. ASSUME NEW p \in Probes, Arrive(p) \/ Evaluate(p) \/ Render(p) \/ Emit(p)
      PROVE  HInv'
  <2>1. CASE Arrive(p) \/ Render(p) \/ Emit(p)
    BY <2>1, ArriveLearns, AnswersAreForgotten
  <2>2. CASE Evaluate(p)
    BY <2>2, AskStorageLearns, AskStateLearns, AskUsersLearns,
       AskActiveUsersLearns, AskActiveAdminsLearns, AskServicesLearns,
       AskEnabledLearns, AskLinkedLearns, AskAuditLearns, FoldJudges
       DEF Evaluate
  <2> QED BY <1>3, <2>1, <2>2
<1> QED BY <1>1, <1>2, <1>3 DEF Next

-----------------------------------------------------------------------------
(* The theorems.                                                           *)

\* What every probe has read, and what it reports, held in worlds it has seen.
THEOREM HealthInvariance == Spec => []HInv
BY HealthInitially, HealthInductive, PTL DEF Spec

\* World, probes and lines keep their types.
THEOREM HealthTypes == Spec => []TypeOK
<1>1. HInv => TypeOK
  BY DEF HInv
<1> QED BY <1>1, HealthInvariance, PTL

\* For any states of the installation and any number of probes: whatever
\* changes between the nine questions, who is told "healthy" is told of
\* conditions that each held at some moment since the probe arrived.
THEOREM HealthyIsTrue == Spec => []HealthyWasHealthy
<1>1. HInv => HealthyWasHealthy
  <2> SUFFICES ASSUME HInv, NEW p \in Probes, Reported(p),
                      probe[p].result.status = "healthy",
                      NEW c \in DOMAIN Conditions(world)
               PROVE  \E w \in since[p] : Conditions(w)[c]
    BY DEF HealthyWasHealthy
  <2>1. c \in ConditionNames
    BY DEF Conditions, ConditionNames
  <2>2. Judged(probe[p].result, since[p])
    BY DEF HInv, Grounded, Reported, At
  <2> QED BY <2>1, <2>2 DEF Judged, Was
<1> QED BY <1>1, HealthInvariance, PTL

\* Every other report names a condition that held at such a moment.
THEOREM ReasonsAreTrue == Spec => []ReasonsWereTrue
<1>1. HInv => ReasonsWereTrue
  <2> SUFFICES ASSUME HInv, NEW p \in Probes, Reported(p),
                      probe[p].result.status # "healthy"
               PROVE  \E w \in since[p] : Explains(w, probe[p].result.reason)
    BY DEF ReasonsWereTrue
  <2>1. Judged(probe[p].result, since[p])
    BY DEF HInv, Grounded, Reported, At
  <2> QED BY <2>1 DEF Judged, Wrong
<1> QED BY <1>1, HealthInvariance, PTL
=============================================================================

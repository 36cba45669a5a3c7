-------------------------- MODULE CatalogueProofs ---------------------------
(***************************************************************************)
(* Theorems about the pages for groups, services and memberships: the      *)
(* access queries agree on every database; what is written has its type;   *)
(* a service becomes invalid, or its compatibility result outdated, by the *)
(* named races only; and a group ends only after its checks, however many  *)
(* requests there are.                                                     *)
(***************************************************************************)
EXTENDS Catalogue, TLAPS

-----------------------------------------------------------------------------
(* The access queries, on every database.                                  *)

LEMMA ListedIffAdmitted ==
    ASSUME NEW db \in Databases, NEW u \in Users, NEW s \in Services
    PROVE  s \in PermittedServices(db, u) <=> MayEnter(db, u, s)
<1>1. ASSUME s \in PermittedServices(db, u) PROVE MayEnter(db, u, s)
  <2>1. PICK rule \in db.rules :
           rule[1] = s /\ <<u, rule[2]>> \in db.members /\ ActiveGroup(db, rule[2])
    BY <1>1 DEF PermittedServices
  <2>2. rule \in Services \X GroupIds
    BY DEF Databases
  <2>3. rule = <<s, rule[2]>> /\ rule[2] \in GroupIds
    BY <2>1, <2>2
  <2> QED BY <1>1, <2>1, <2>3 DEF PermittedServices, MayEnter
<1>2. ASSUME MayEnter(db, u, s) PROVE s \in PermittedServices(db, u)
  BY <1>2 DEF PermittedServices, MayEnter
<1> QED BY <1>1, <1>2

LEMMA AdmittedIffShown ==
    ASSUME NEW db \in Databases, NEW u \in Users, NEW s \in Services
    PROVE  MayEnter(db, u, s) <=> CurrentlyUsable(db, u, s)
<1> DEFINE Granting == {n \in db.members :
                 /\ n[1] = u /\ <<s, n[2]>> \in db.rules
                 /\ ActiveGroup(db, n[2])}
<1>1. Grants(db, u, s) # {} <=> Granting # {}
  BY DEF Grants
<1>2. ASSUME MayEnter(db, u, s) PROVE Granting # {}
  <2>1. PICK g \in GroupIds :
           <<s, g>> \in db.rules /\ <<u, g>> \in db.members /\ ActiveGroup(db, g)
    BY <1>2 DEF MayEnter
  <2>2. <<u, g>> \in Granting
    BY <2>1
  <2> QED BY <2>2
<1>3. ASSUME NEW n \in Granting PROVE \E g \in GroupIds :
           <<s, g>> \in db.rules /\ <<u, g>> \in db.members /\ ActiveGroup(db, g)
  <2>1. n \in Users \X GroupIds
    BY DEF Databases
  <2>2. n = <<u, n[2]>> /\ n[2] \in GroupIds
    BY <2>1
  <2> QED BY <2>2
<1> QED BY <1>1, <1>2, <1>3 DEF MayEnter, CurrentlyUsable

\* For every database, dangling rows included, the portal's list, the launch
\* decision and the administrators' report name the same services, and
\* no_matching_group is shown only where no group grants anything.
THEOREM QueriesAlwaysAgree ==
    ASSUME NEW db \in Databases PROVE QueriesAgree(db)
<1>1. ASSUME NEW u \in Users, NEW s \in Services,
             DenialReason(db, u, s) = "no_matching_group"
      PROVE  Grants(db, u, s) = {}
  <2>1. CASE CurrentlyUsable(db, u, s)
    BY <1>1, <2>1 DEF DenialReason
  <2>2. CASE ~CurrentlyUsable(db, u, s) /\ db.users[u] # "active"
    BY <1>1, <2>2 DEF DenialReason
  <2>3. CASE ~CurrentlyUsable(db, u, s) /\ db.users[u] = "active"
                /\ db.services[s] # "enabled"
    BY <1>1, <2>3 DEF DenialReason
  <2>4. CASE ~CurrentlyUsable(db, u, s) /\ db.users[u] = "active"
                /\ db.services[s] = "enabled"
    BY <2>4 DEF CurrentlyUsable
  <2> QED BY <2>1, <2>2, <2>3, <2>4
<1> QED BY <1>1, ListedIffAdmitted, AdmittedIffShown DEF QueriesAgree

-----------------------------------------------------------------------------
(* What the rows and the records of the requests are made of.              *)

LEMMA Samples ==
    /\ NewService \in ServiceRows /\ NewService.st = "absent"
    /\ NewService.compat = "unchecked"
    /\ NewService.ws = FALSE
    /\ NoGroupRow \in GroupRows /\ NoGroupRow.st = "absent"
    /\ NoForm \in ServiceForms
<1>1. PICK d \in Destinations : d = CHOOSE x \in Destinations : TRUE
  BY SamplesAssumption
<1>2. PICK a \in Slugs : a = CHOOSE x \in Slugs : TRUE
  BY SamplesAssumption
<1>3. PICK n \in Names : n = CHOOSE x \in Names : TRUE
  BY SamplesAssumption
<1>4. [dest |-> d, px |-> FALSE, ws |-> FALSE] \in Policies
  BY DEF Policies
<1>5. NewService = [st |-> "absent", slug |-> a, dest |-> d, px |-> FALSE,
                    ws |-> FALSE, compat |-> "unchecked",
                    for |-> [dest |-> d, px |-> FALSE, ws |-> FALSE]]
  BY <1>1, <1>2 DEF NewService
<1>6. NewService \in ServiceRows
  BY <1>4, <1>5 DEF ServiceRows
<1>7. NoGroupRow = [st |-> "absent", name |-> n, rev |-> 0, serial |-> 0]
  BY <1>3 DEF NoGroupRow
<1>8. 0 \in 0..MaxRevision /\ 0 \in Serials
  BY BoundsAssumption DEF Serials
<1>9. NoGroupRow \in GroupRows
  BY <1>7, <1>8 DEF GroupRows
<1>10. \E f \in ServiceForms : f.orig = NoSlug
  <2> DEFINE f == [orig |-> NoSlug, slug |-> a, st |-> "disabled", dest |-> d,
                   px |-> FALSE, ws |-> FALSE, names |-> {}]
  <2>1. f \in ServiceForms /\ f.orig = NoSlug
    BY DEF ServiceForms
  <2> QED BY <2>1
<1>11. NoForm \in ServiceForms
  BY <1>10 DEF NoForm
<1> QED BY <1>5, <1>6, <1>7, <1>9, <1>11

LEMMA IdleIsARecord ==
    /\ Idle \in ReqRecords /\ Idle.ph = "idle"
    /\ Idle.svc = {} /\ Idle.seen = NewService
<1>1. 0 \in 0..MaxRevision
  BY BoundsAssumption
<1>2. NoGroupRow.name \in Names
  BY Samples DEF GroupRows
<1> HIDE DEF NewService, NoGroupRow, NoForm, GroupRows, ServiceRows
<1> QED BY <1>1, <1>2, Samples DEF Idle, ReqRecords

LEMMA FormsAreForms ==
    ASSUME NEW q \in ReqRecords PROVE q.form \in ServiceForms
BY FormsAssumption, Samples DEF ReqRecords

LEMMA PoliciesOfRows ==
    /\ \A row \in ServiceRows : PolicyOf(row) \in Policies
    /\ \A form \in ServiceForms : PolicyOf(form) \in Policies
BY DEF ServiceRows, ServiceForms, PolicyOf, Policies

LEMMA FlushedService ==
    ASSUME NEW row \in ServiceRows, NEW seen \in ServiceRows,
           NEW new \in ServiceRows
    PROVE  /\ Flushed(row, seen, new) \in ServiceRows
           /\ \A c \in {"st", "slug", "dest", "px", "ws", "compat", "for"} :
                Flushed(row, seen, new)[c] = IF new[c] # seen[c] THEN new[c] ELSE row[c]
<1>1. DOMAIN row = {"st", "slug", "dest", "px", "ws", "compat", "for"}
  BY DEF ServiceRows
<1> DEFINE F == Flushed(row, seen, new)
<1>2. \A c \in {"st", "slug", "dest", "px", "ws", "compat", "for"} :
        F[c] = IF new[c] # seen[c] THEN new[c] ELSE row[c]
  BY <1>1 DEF Flushed
<1>3. F = [st |-> F.st, slug |-> F.slug, dest |-> F.dest, px |-> F.px,
           ws |-> F.ws, compat |-> F.compat, for |-> F.for]
  BY <1>1 DEF Flushed
<1>4. /\ F.st \in {new.st, row.st} /\ F.slug \in {new.slug, row.slug}
      /\ F.dest \in {new.dest, row.dest} /\ F.px \in {new.px, row.px}
      /\ F.ws \in {new.ws, row.ws} /\ F.compat \in {new.compat, row.compat}
      /\ F.for \in {new.for, row.for}
  BY <1>2
<1>5. F \in ServiceRows
  <2> HIDE DEF F
  <2> QED BY <1>3, <1>4 DEF ServiceRows
<1> QED BY <1>2, <1>5

LEMMA FlushedGroup ==
    ASSUME NEW row \in GroupRows, NEW seen \in GroupRows, NEW new \in GroupRows
    PROVE  /\ Flushed(row, seen, new) \in GroupRows
           /\ Flushed(row, seen, new).st = IF new.st # seen.st THEN new.st ELSE row.st
<1>1. DOMAIN row = {"st", "name", "rev", "serial"}
  BY DEF GroupRows
<1> DEFINE F == Flushed(row, seen, new)
<1>2. F = [st |-> F.st, name |-> F.name, rev |-> F.rev, serial |-> F.serial]
  BY <1>1 DEF Flushed
<1>3. /\ F.st = IF new.st # seen.st THEN new.st ELSE row.st
      /\ F.name \in {new.name, row.name} /\ F.rev \in {new.rev, row.rev}
      /\ F.serial \in {new.serial, row.serial}
  BY <1>1 DEF Flushed
<1>4. F \in GroupRows
  <2> HIDE DEF F
  <2> QED BY <1>2, <1>3 DEF GroupRows
<1> QED BY <1>3, <1>4

LEMMA AssignedRow ==
    ASSUME NEW seen \in ServiceRows, NEW form \in ServiceForms
    PROVE  /\ Assigned(seen, form) \in ServiceRows
           /\ Assigned(seen, form).st = form.st
           /\ Assigned(seen, form).ws = form.ws
           /\ Assigned(seen, form).px = form.px
           /\ Assigned(seen, form).dest = form.dest
           /\ Assigned(seen, form).for = seen.for
           /\ Assigned(seen, form).compat =
                  IF PolicyOf(seen) # PolicyOf(form) THEN "unchecked" ELSE seen.compat
BY DEF Assigned, PolicyChanged, ServiceRows, ServiceForms

\* A check stores its result and its history, and no other column.
LEMMA AnsweredRow ==
    ASSUME NEW row \in ServiceRows, NEW seen \in ServiceRows,
           NEW answer \in Answers(seen)
    PROVE  LET A == Answered(row, seen, answer) IN
           /\ A \in ServiceRows
           /\ A.st = row.st /\ A.ws = row.ws /\ A.px = row.px
           /\ A.dest = row.dest /\ A.for = PolicyOf(seen)
<1>1. answer \in {"compatible", "limited"}
  BY DEF Answers
<1>2. PolicyOf(seen) \in Policies
  BY PoliciesOfRows
<1> DEFINE new == [seen EXCEPT !.compat = answer]
           F == Flushed(row, seen, new)
<1>3. /\ new \in ServiceRows
      /\ new.st = seen.st /\ new.ws = seen.ws /\ new.px = seen.px
      /\ new.dest = seen.dest
  BY <1>1 DEF ServiceRows
<1> HIDE DEF new, PolicyOf
<1>4. /\ F \in ServiceRows
      /\ F.st = row.st /\ F.ws = row.ws /\ F.px = row.px /\ F.dest = row.dest
  BY <1>3, FlushedService
<1>5. Answered(row, seen, answer) = [F EXCEPT !.for = PolicyOf(seen)]
  BY DEF Answered, new
<1> HIDE DEF F
<1> QED BY <1>2, <1>4, <1>5 DEF ServiceRows

-----------------------------------------------------------------------------
(* Type correctness.                                                       *)

Filled(q) == ValidForm(q.form) /\ (q.form.names # {} => q.picked # {})

\* What the record of a request says by its phase alone: a form that passed
\* its first checks keeps them, and a service that is created starts empty.
Sound(q) ==
    /\ q.ph = "shown" => q.g \in GroupIds
    /\ q.ph \in {"form", "groups"} => q.svc = {} /\ q.seen = NewService
    /\ q.ph \in {"groups", "service", "slug"} => Filled(q)
    /\ q.ph \in {"service", "slug"} => (q.svc = {} => q.seen = NewService)

RequestsAreSound == \A r \in Slots : Sound(req[r])

TInv == TypeOK /\ RequestsAreSound

Records == {q \in ReqRecords : Sound(q)}

LEMMA IdleIsSound == Idle \in Records
BY IdleIsARecord DEF Records, Sound

LEMMA RequestInRecords ==
    ASSUME TInv, NEW r \in Slots PROVE req[r] \in Records
BY DEF TInv, TypeOK, RequestsAreSound, Records

\* A step that gives one request a good record keeps the others good.
LEMMA Becoming ==
    ASSUME TInv, NEW r \in Slots, NEW q \in Records, Becomes(r, q)
    PROVE  /\ req' \in [Slots -> ReqRecords] /\ RequestsAreSound'
           /\ req'[r] = q
           /\ \A t \in Slots : t # r => req'[t] = req[t]
<1>1. req \in [Slots -> ReqRecords] /\ \A t \in Slots : Sound(req[t])
  BY DEF TInv, TypeOK, RequestsAreSound
<1>2. q \in ReqRecords /\ Sound(q)
  BY DEF Records
<1> HIDE DEF ReqRecords
<1> QED BY <1>1, <1>2 DEF Becomes, RequestsAreSound

LEMMA Observing ==
    ASSUME TInv, Observe
    PROVE  since' \in [Keepers -> SUBSET {"outside", "no members", "no rules",
                                          "turnover"}]
<1> DEFINE Names4 == {"outside", "no members", "no rules", "turnover"}
<1>1. ASSUME NEW k \in Keepers PROVE Facts(k)' \subseteq Names4
  BY DEF Facts
<1>2. Turnover \subseteq Names4
  BY DEF Turnover
<1>3. since \in [Keepers -> SUBSET Names4]
  BY DEF TInv, TypeOK
<1>4. \A k \in Keepers : since[k] \cup Turnover \cup Facts(k)' \subseteq Names4
  BY <1>1, <1>2, <1>3
<1> HIDE DEF Names4
<1>5. since' \in [Keepers -> SUBSET Names4]
  BY <1>4 DEF Observe
<1> QED BY <1>5 DEF Names4

\* The tables are of their types; with a good record for the request that
\* moves, a step is.
TablesOK ==
    /\ users \in [Users -> {"active", "disabled"}]
    /\ groups \in [GroupIds -> GroupRows]
    /\ services \in [Services -> ServiceRows]
    /\ rules \subseteq Services \X GroupIds \X Serials
    /\ members \subseteq Users \X GroupIds \X Serials
    /\ made \in Serials /\ sent \in 0..MaxRequests

RequestsOK == req \in [Slots -> ReqRecords] /\ RequestsAreSound

LEMMA ArrivesTyped ==
    ASSUME TInv, NEW r \in Slots, NEW q \in Records, Arrives(r, q)
    PROVE  TablesOK' /\ RequestsOK'
<1>1. RequestsOK'
  BY Becoming DEF Arrives, RequestsOK
<1>2. sent \in 0..MaxRequests /\ sent < MaxRequests /\ sent' = sent + 1
  BY DEF Arrives, TInv, TypeOK
<1>3. sent' \in 0..MaxRequests
  BY <1>2, BoundsAssumption
<1> QED BY <1>1, <1>3 DEF Arrives, TInv, TypeOK, TablesOK, Serials

LEMMA ReadsTyped ==
    ASSUME TInv, NEW r \in Slots, NEW q \in Records, Becomes(r, q), Reads
    PROVE  TablesOK' /\ RequestsOK'
<1>1. RequestsOK'
  BY Becoming DEF RequestsOK
<1> QED BY <1>1 DEF Reads, TInv, TypeOK, TablesOK, Serials

\* The steps of a form of a service.
LEMMA SendFormTyped ==
    ASSUME TInv, NEW e \in Slots, SendForm(e)
    PROVE  TablesOK' /\ RequestsOK'
<1>1. PICK form \in Forms : Arrives(e, [Idle EXCEPT !.ph = "form", !.form = form])
  BY DEF SendForm
<1> DEFINE q == [Idle EXCEPT !.ph = "form", !.form = form]
<1>2. q \in ReqRecords /\ q.ph = "form" /\ q.svc = {} /\ q.seen = NewService
  <2> HIDE DEF Idle, NewService
  <2> QED BY IdleIsARecord DEF ReqRecords
<1>3. q \in Records
  <2> HIDE DEF q
  <2> QED BY <1>2 DEF Records, Sound
<1> QED BY <1>1, <1>3, ArrivesTyped

LEMMA FindGroupsTyped ==
    ASSUME TInv, NEW e \in Slots, FindGroups(e)
    PROVE  TablesOK' /\ RequestsOK'
<1> DEFINE names == req[e].form.names
           found == ActiveNamedGroups(names)
           picked == {<<g, groups[g].serial>> : g \in found}
           p == req[e]
           q == [req[e] EXCEPT !.ph = "groups", !.picked = picked]
<1>1. p \in ReqRecords /\ Sound(p) /\ p.ph = "form"
  BY RequestInRecords DEF Records, FindGroups, At
<1>2. \A g \in GroupIds : groups[g].serial \in Serials
  BY DEF TInv, TypeOK, GroupRows
<1>3. picked \subseteq GroupIds \X Serials
  BY <1>2 DEF ActiveNamedGroups
<1>4. ASSUME names # {} PROVE picked # {}
  <2>1. PICK n \in names : TRUE
    BY <1>4
  <2>2. PICK g \in found : groups[g].name = n
    BY <2>1 DEF FindGroups
  <2>3. <<g, groups[g].serial>> \in picked
    BY <2>2
  <2> QED BY <2>3
<1>5. ValidForm(p.form)
  BY DEF FindGroups
<1>6. Becomes(e, q) /\ Reads
  BY DEF FindGroups
<1> HIDE DEF picked
<1>7. /\ q \in ReqRecords
      /\ q.ph = "groups" /\ q.svc = p.svc /\ q.seen = p.seen
      /\ q.form = p.form /\ q.picked = picked
  BY <1>1, <1>3 DEF ReqRecords
<1>8. p.svc = {} /\ p.seen = NewService
  BY <1>1 DEF Sound
<1>9. names = p.form.names
  OBVIOUS
<1> HIDE DEF p, q, names
<1>10. q \in Records
  BY <1>4, <1>5, <1>7, <1>8, <1>9 DEF Records, Sound, Filled
<1> QED BY <1>6, <1>10, ReadsTyped

LEMMA FindServiceTyped ==
    ASSUME TInv, NEW e \in Slots, FindService(e)
    PROVE  TablesOK' /\ RequestsOK'
<1> DEFINE p == req[e]
<1>1. /\ p \in ReqRecords /\ p.ph = "groups" /\ Filled(p)
      /\ p.svc = {} /\ p.seen = NewService
  BY RequestInRecords DEF Records, Sound, FindService, At
<1>2. CASE Goto(e, "service")
  <2> DEFINE q == [req[e] EXCEPT !.ph = "service"]
  <2>1. /\ q \in ReqRecords /\ q.ph = "service" /\ q.svc = p.svc
        /\ q.seen = p.seen /\ q.form = p.form /\ q.picked = p.picked
    BY <1>1 DEF ReqRecords
  <2>2. q \in Records
    <3> HIDE DEF q, p
    <3> QED BY <1>1, <2>1 DEF Records, Sound, Filled
  <2> QED BY <1>2, <2>2, ReadsTyped DEF Goto, FindService
<1>3. ASSUME NEW s \in Services,
             Becomes(e, [req[e] EXCEPT !.ph = "service", !.svc = {s},
                                       !.seen = services[s]])
      PROVE  TablesOK' /\ RequestsOK'
  <2> DEFINE q == [req[e] EXCEPT !.ph = "service", !.svc = {s},
                                 !.seen = services[s]]
  <2>1. services[s] \in ServiceRows
    BY DEF TInv, TypeOK
  <2>2. /\ q \in ReqRecords /\ q.ph = "service" /\ q.svc = {s}
        /\ q.form = p.form /\ q.picked = p.picked
    BY <1>1, <2>1 DEF ReqRecords
  <2>3. q \in Records
    <3> HIDE DEF q, p
    <3> QED BY <1>1, <2>2 DEF Records, Sound, Filled
  <2> QED BY <1>3, <2>3, ReadsTyped DEF FindService
<1> QED BY <1>2, <1>3 DEF FindService, ServicesWithSlug

LEMMA CheckSlugTyped ==
    ASSUME TInv, NEW e \in Slots, CheckSlug(e)
    PROVE  TablesOK' /\ RequestsOK'
<1> DEFINE p == req[e]
           q == [req[e] EXCEPT !.ph = "slug"]
<1>1. p \in ReqRecords /\ Sound(p) /\ p.ph = "service"
  BY RequestInRecords DEF Records, CheckSlug, At
<1>2. /\ q \in ReqRecords /\ q.ph = "slug" /\ q.svc = p.svc
      /\ q.seen = p.seen /\ q.form = p.form /\ q.picked = p.picked
  BY <1>1 DEF ReqRecords
<1>3. q \in Records
  <2> HIDE DEF q, p
  <2> QED BY <1>1, <1>2 DEF Records, Sound, Filled
<1> QED BY <1>3, ReadsTyped DEF Goto, CheckSlug

\* The one transaction of save_service.
LEMMA CommitSaveTyped ==
    ASSUME TInv, NEW e \in Slots, CommitSave(e)
    PROVE  TablesOK' /\ RequestsOK'
<1> DEFINE p == req[e]
           new == Assigned(p.seen, p.form)
<1>1. p \in ReqRecords /\ p.form \in ServiceForms
  BY RequestInRecords, FormsAreForms DEF Records
<1>2. p.seen \in ServiceRows /\ p.picked \subseteq GroupIds \X Serials
  BY <1>1 DEF ReqRecords
<1>3. new \in ServiceRows
  BY <1>1, <1>2, AssignedRow
<1>4. PICK s \in Services :
        /\ services' = [services EXCEPT ![s] = Flushed(@, p.seen, new)]
        /\ rules' = {rule \in rules : rule[1] # s}
                       \cup {<<s, i[1], i[2]>> : i \in p.picked}
  BY DEF CommitSave
<1>5. services[s] \in ServiceRows
  BY DEF TInv, TypeOK
<1>6. Flushed(services[s], p.seen, new) \in ServiceRows
  BY <1>2, <1>3, <1>5, FlushedService
<1> HIDE DEF new
<1>7. services' \in [Services -> ServiceRows]
  BY <1>4, <1>6 DEF TInv, TypeOK
<1>8. rules' \subseteq Services \X GroupIds \X Serials
  <2>1. \A i \in p.picked : i[1] \in GroupIds /\ i[2] \in Serials
    BY <1>2
  <2>2. {<<s, i[1], i[2]>> : i \in p.picked} \subseteq Services \X GroupIds \X Serials
    BY <2>1
  <2>3. rules \subseteq Services \X GroupIds \X Serials
    BY DEF TInv, TypeOK
  <2> QED BY <1>4, <2>2, <2>3
<1>9. Becomes(e, Idle)
  BY DEF CommitSave, Done
<1>10. RequestsOK'
  BY <1>9, Becoming, IdleIsSound DEF RequestsOK
<1> QED BY <1>7, <1>8, <1>10 DEF CommitSave, TInv, TypeOK, TablesOK, Serials

LEMMA AskUpstreamTyped ==
    ASSUME TInv, NEW e \in Slots, AskUpstream(e)
    PROVE  TablesOK' /\ RequestsOK'
<1>1. PICK s \in Services :
        Arrives(e, [Idle EXCEPT !.ph = "asking", !.svc = {s}, !.seen = services[s]])
  BY DEF AskUpstream
<1> DEFINE q == [Idle EXCEPT !.ph = "asking", !.svc = {s}, !.seen = services[s]]
<1>2. services[s] \in ServiceRows
  BY DEF TInv, TypeOK
<1>3. q \in ReqRecords /\ q.ph = "asking"
  <2> HIDE DEF Idle, ServiceRows
  <2> QED BY <1>2, IdleIsARecord DEF ReqRecords
<1>4. q \in Records
  <2> HIDE DEF q
  <2> QED BY <1>3 DEF Records, Sound
<1> QED BY <1>1, <1>4, ArrivesTyped

LEMMA CommitAnswerTyped ==
    ASSUME TInv, NEW e \in Slots, CommitAnswer(e)
    PROVE  TablesOK' /\ RequestsOK'
<1> DEFINE p == req[e]
<1>1. p \in ReqRecords
  BY RequestInRecords DEF Records
<1>2. p.seen \in ServiceRows /\ p.svc \subseteq Services
  BY <1>1 DEF ReqRecords
<1>3. PICK s \in p.svc, answer \in Answers(p.seen) :
         services' = [services EXCEPT ![s] = Answered(@, p.seen, answer)]
  BY DEF CommitAnswer
<1>4. services[s] \in ServiceRows
  BY <1>2 DEF TInv, TypeOK
<1>5. Answered(services[s], p.seen, answer) \in ServiceRows
  BY <1>2, <1>4, AnsweredRow
<1>8. services' \in [Services -> ServiceRows]
  BY <1>3, <1>5 DEF TInv, TypeOK
<1>9. Becomes(e, Idle)
  BY DEF CommitAnswer, Done
<1>10. RequestsOK'
  BY <1>9, Becoming, IdleIsSound DEF RequestsOK
<1> QED BY <1>8, <1>10 DEF CommitAnswer, TInv, TypeOK, TablesOK, Serials

\* The steps of the group pages.
LEMMA NameGroupTyped ==
    ASSUME TInv, NEW k \in Slots, NameGroup(k)
    PROVE  TablesOK' /\ RequestsOK'
<1>1. PICK n \in Names :
        Arrives(k, [Idle EXCEPT !.ph = "named", !.op = "create", !.name = n])
  BY DEF NameGroup
<1> DEFINE q == [Idle EXCEPT !.ph = "named", !.op = "create", !.name = n]
<1>2. q \in ReqRecords /\ q.ph = "named"
  <2> HIDE DEF Idle
  <2> QED BY IdleIsARecord DEF ReqRecords
<1>3. q \in Records
  <2> HIDE DEF q
  <2> QED BY <1>2 DEF Records, Sound
<1> QED BY <1>1, <1>3, ArrivesTyped

LEMMA CommitNewGroupTyped ==
    ASSUME TInv, NEW k \in Slots, CommitNewGroup(k)
    PROVE  TablesOK' /\ RequestsOK'
<1>1. req[k].name \in Names
  BY RequestInRecords DEF Records, ReqRecords
<1>2. made \in 0..MaxGroups /\ made < MaxGroups /\ made' = made + 1
  <2>1. made \in Serials
    BY DEF TInv, TypeOK
  <2> QED BY <2>1 DEF CommitNewGroup, Serials
<1>3. made + 1 \in Serials
  BY <1>2, BoundsAssumption DEF Serials
<1>4. 1 \in 0..MaxRevision
  BY BoundsAssumption
<1> DEFINE row == [st |-> "active", name |-> req[k].name, rev |-> 1,
                   serial |-> made + 1]
<1>5. row \in GroupRows
  BY <1>1, <1>3, <1>4 DEF GroupRows
<1>6. \E g \in GroupIds : groups' = [groups EXCEPT ![g] = row]
  BY DEF CommitNewGroup
<1> HIDE DEF row
<1>7. groups' \in [GroupIds -> GroupRows]
  BY <1>5, <1>6 DEF TInv, TypeOK
<1>8. Becomes(k, Idle)
  BY DEF CommitNewGroup, Done
<1>9. RequestsOK'
  BY <1>8, Becoming, IdleIsSound DEF RequestsOK
<1> QED BY <1>2, <1>3, <1>7, <1>9 DEF CommitNewGroup, TInv, TypeOK, TablesOK, Serials

LEMMA ShowGroupTyped ==
    ASSUME TInv, NEW k \in Slots, ShowGroup(k)
    PROVE  TablesOK' /\ RequestsOK'
<1>1. PICK g \in GroupIds, op \in {"update", "deactivate", "reactivate", "remove"} :
        \E n \in IF op = "update" THEN Names ELSE {groups[g].name} :
             Arrives(k, [Idle EXCEPT !.ph = "shown", !.op = op, !.g = g,
                             !.rev = groups[g].rev, !.name = n,
                             !.row = groups[g]])
  BY DEF ShowGroup
<1>2. groups[g] \in GroupRows
  BY DEF TInv, TypeOK
<1>3. groups[g].name \in Names /\ groups[g].rev \in 0..MaxRevision
  BY <1>2 DEF GroupRows
<1>4. PICK n \in Names :
             Arrives(k, [Idle EXCEPT !.ph = "shown", !.op = op, !.g = g,
                             !.rev = groups[g].rev, !.name = n,
                             !.row = groups[g]])
  BY <1>1, <1>3
<1> DEFINE q == [Idle EXCEPT !.ph = "shown", !.op = op, !.g = g,
                             !.rev = groups[g].rev, !.name = n, !.row = groups[g]]
<1>5. q \in ReqRecords /\ q.ph = "shown" /\ q.g = g
  <2> HIDE DEF Idle, GroupRows
  <2> QED BY <1>2, <1>3, IdleIsARecord DEF ReqRecords
<1>6. q \in Records
  <2> HIDE DEF q
  <2> QED BY <1>5 DEF Records, Sound
<1> QED BY <1>4, <1>6, ArrivesTyped

LEMMA LoadGroupTyped ==
    ASSUME TInv, NEW k \in Slots, LoadGroup(k)
    PROVE  TablesOK' /\ RequestsOK'
<1> DEFINE p == req[k]
           row == groups[p.g]
           q == [p EXCEPT !.ph = "loaded", !.row.st = row.st,
                          !.row.name = row.name, !.row.rev = row.rev]
<1>1. p \in ReqRecords /\ Sound(p) /\ p.ph = "shown"
  BY RequestInRecords DEF Records, LoadGroup, At
<1>2. row \in GroupRows
  BY <1>1 DEF Sound, TInv, TypeOK
<1>3. p.row \in GroupRows
  BY <1>1 DEF ReqRecords
<1>4. q.row \in GroupRows /\ q = [p EXCEPT !.ph = "loaded", !.row = q.row]
  <2> HIDE DEF row, p
  <2>1. [p.row EXCEPT !.st = row.st, !.name = row.name, !.rev = row.rev] \in GroupRows
    BY <1>2, <1>3 DEF GroupRows
  <2> QED BY <1>1, <2>1 DEF ReqRecords
<1>5. q \in ReqRecords /\ q.ph = "loaded"
  <2> DEFINE w == q.row
  <2>1. w \in GroupRows /\ q = [p EXCEPT !.ph = "loaded", !.row = w]
    BY <1>4
  <2> HIDE DEF w, q, p, GroupRows
  <2> QED BY <1>1, <2>1 DEF ReqRecords
<1>6. q \in Records
  <2> HIDE DEF q
  <2> QED BY <1>5 DEF Records, Sound
<1> QED BY <1>6, ReadsTyped DEF LoadGroup

\* A check that only leads on.
LEMMA GotoTyped ==
    ASSUME TInv, NEW k \in Slots,
           NEW ph \in {"distinct", "guarded", "noMembers", "unused"},
           Goto(k, ph), Reads
    PROVE  TablesOK' /\ RequestsOK'
<1> DEFINE q == [req[k] EXCEPT !.ph = ph]
<1>1. req[k] \in ReqRecords
  BY RequestInRecords DEF Records
<1>2. q \in ReqRecords /\ q.ph = ph
  BY <1>1 DEF ReqRecords
<1>3. q \in Records
  <2> HIDE DEF q
  <2> QED BY <1>2 DEF Records, Sound
<1> QED BY <1>3, ReadsTyped DEF Goto

LEMMA ReadAdministratorsTyped ==
    ASSUME TInv, NEW k \in Slots, ReadAdministrators(k)
    PROVE  TablesOK' /\ RequestsOK'
<1> DEFINE q == [req[k] EXCEPT !.ph = "admins", !.admins = ActiveAdministrators]
<1>1. req[k] \in ReqRecords
  BY RequestInRecords DEF Records
<1>2. ActiveAdministrators \subseteq Users
  BY AdministratorsAssumption DEF ActiveAdministrators
<1>3. q \in ReqRecords /\ q.ph = "admins"
  <2> HIDE DEF ActiveAdministrators
  <2> QED BY <1>1, <1>2 DEF ReqRecords
<1>4. q \in Records
  <2> HIDE DEF q
  <2> QED BY <1>3 DEF Records, Sound
<1> QED BY <1>4, ReadsTyped DEF ReadAdministrators

LEMMA CommitGroupUpdateTyped ==
    ASSUME TInv, NEW k \in Slots, CommitGroupUpdate(k)
    PROVE  TablesOK' /\ RequestsOK'
<1> DEFINE p == req[k]
           new == [p.row EXCEPT !.name = p.name, !.rev = p.row.rev + 1]
           row == Flushed(groups[p.g], p.row, new)
<1>1. p \in ReqRecords
  BY RequestInRecords DEF Records
<1>2. p.row \in GroupRows /\ p.name \in Names
  BY <1>1 DEF ReqRecords
<1>3. p.row.rev + 1 \in 0..MaxRevision
  <2>1. p.row.rev \in 0..MaxRevision /\ p.row.rev < MaxRevision
    BY <1>2 DEF GroupRows, CommitGroupUpdate
  <2> QED BY <2>1, BoundsAssumption
<1>4. new \in GroupRows
  <2> HIDE DEF p
  <2> QED BY <1>2, <1>3 DEF GroupRows
<1>5. ASSUME p.g \in GroupIds PROVE row \in GroupRows
  <2>1. groups[p.g] \in GroupRows
    BY <1>5 DEF TInv, TypeOK
  <2> QED BY <1>2, <1>4, <2>1, FlushedGroup
<1>6. groups' = [groups EXCEPT ![p.g] = row]
  BY DEF CommitGroupUpdate
<1> HIDE DEF row
<1>7. groups' \in [GroupIds -> GroupRows]
  BY <1>5, <1>6 DEF TInv, TypeOK
<1>8. RequestsOK'
  BY Becoming, IdleIsSound DEF RequestsOK, Done, CommitGroupUpdate
<1> QED BY <1>7, <1>8 DEF CommitGroupUpdate, TInv, TypeOK, TablesOK, Serials

LEMMA CommitStatusTyped ==
    ASSUME TInv, NEW k \in Slots, NEW st \in {"active", "deactivated"},
           CommitStatus(k, st)
    PROVE  TablesOK' /\ RequestsOK'
<1> DEFINE p == req[k]
           new == [p.row EXCEPT !.st = st, !.rev = p.row.rev + 1]
           row == Flushed(groups[p.g], p.row, new)
<1>1. p \in ReqRecords
  BY RequestInRecords DEF Records
<1>2. p.row \in GroupRows
  BY <1>1 DEF ReqRecords
<1>3. p.row.rev + 1 \in 0..MaxRevision
  <2>1. p.row.rev \in 0..MaxRevision /\ p.row.rev < MaxRevision
    BY <1>2 DEF GroupRows, CommitStatus
  <2> QED BY <2>1, BoundsAssumption
<1>4. new \in GroupRows
  <2> HIDE DEF p
  <2> QED BY <1>2, <1>3 DEF GroupRows
<1>5. ASSUME p.g \in GroupIds PROVE row \in GroupRows
  <2>1. groups[p.g] \in GroupRows
    BY <1>5 DEF TInv, TypeOK
  <2> QED BY <1>2, <1>4, <2>1, FlushedGroup
<1>6. groups' = [groups EXCEPT ![p.g] = row]
  BY DEF CommitStatus
<1> HIDE DEF row
<1>7. groups' \in [GroupIds -> GroupRows]
  BY <1>5, <1>6 DEF TInv, TypeOK
<1>8. RequestsOK'
  BY Becoming, IdleIsSound DEF RequestsOK, Done, CommitStatus
<1> QED BY <1>7, <1>8 DEF CommitStatus, TInv, TypeOK, TablesOK, Serials

LEMMA CommitRemovalTyped ==
    ASSUME TInv, NEW k \in Slots, CommitRemoval(k)
    PROVE  TablesOK' /\ RequestsOK'
<1>1. groups' \in [GroupIds -> GroupRows]
  <2> HIDE DEF NoGroupRow
  <2> QED BY Samples DEF CommitRemoval, TInv, TypeOK
<1>2. RequestsOK'
  BY Becoming, IdleIsSound DEF RequestsOK, Done, CommitRemoval
<1> QED BY <1>1, <1>2 DEF CommitRemoval, TInv, TypeOK, TablesOK, Serials

\* The steps of the membership pages, and what befalls a request.
LEMMA CheckMembershipsTyped ==
    ASSUME TInv, NEW a \in Slots, CheckMemberships(a)
    PROVE  TablesOK' /\ RequestsOK'
<1>1. PICK u \in Users, gs \in SUBSET GroupIds :
        Arrives(a, [Idle EXCEPT !.ph = "checked", !.user = {u},
                        !.picked = {<<g, groups[g].serial>> : g \in gs}])
  BY DEF CheckMemberships
<1> DEFINE picked == {<<g, groups[g].serial>> : g \in gs}
           q == [Idle EXCEPT !.ph = "checked", !.user = {u}, !.picked = picked]
<1>2. \A g \in GroupIds : groups[g].serial \in Serials
  BY DEF TInv, TypeOK, GroupRows
<1>3. picked \subseteq GroupIds \X Serials
  BY <1>2
<1> HIDE DEF picked
<1>4. q \in ReqRecords /\ q.ph = "checked"
  <2> HIDE DEF Idle
  <2> QED BY <1>3, IdleIsARecord DEF ReqRecords
<1>5. q \in Records
  <2> HIDE DEF q
  <2> QED BY <1>4 DEF Records, Sound
<1>6. Arrives(a, q)
  BY <1>1 DEF picked
<1> QED BY <1>5, <1>6, ArrivesTyped

LEMMA RevisionMovesTyped ==
    ASSUME TInv, NEW u \in Users, RevisionMoves(u)
    PROVE  RequestsOK'
<1>1. \A r \in Slots : req[r] \in Records /\ Idle \in Records
  BY RequestInRecords, IdleIsSound
<1>2. req' \in [Slots -> Records]
  BY <1>1 DEF RevisionMoves
<1>3. Records \subseteq ReqRecords /\ \A q \in Records : Sound(q)
  BY DEF Records
<1> HIDE DEF Records
<1> QED BY <1>2, <1>3 DEF RequestsOK, RequestsAreSound

LEMMA CommitMembershipsTyped ==
    ASSUME TInv, NEW a \in Slots, CommitMemberships(a)
    PROVE  TablesOK' /\ RequestsOK'
<1> DEFINE p == req[a]
<1>1. p \in ReqRecords
  BY RequestInRecords DEF Records
<1>2. p.user \subseteq Users /\ p.picked \subseteq GroupIds \X Serials
  BY <1>1 DEF ReqRecords
<1>3. PICK u \in p.user :
         /\ members' = {m \in members : m[1] # u}
                         \cup {<<u, i[1], i[2]>> : i \in p.picked}
         /\ RevisionMoves(u)
  BY DEF CommitMemberships
<1>4. members' \subseteq Users \X GroupIds \X Serials
  <2>1. \A i \in p.picked : i[1] \in GroupIds /\ i[2] \in Serials
    BY <1>2
  <2>2. {<<u, i[1], i[2]>> : i \in p.picked} \subseteq Users \X GroupIds \X Serials
    BY <1>2, <2>1
  <2>3. members \subseteq Users \X GroupIds \X Serials
    BY DEF TInv, TypeOK
  <2> QED BY <1>3, <2>2, <2>3
<1>5. RequestsOK'
  BY <1>2, <1>3, RevisionMovesTyped
<1> QED BY <1>4, <1>5 DEF CommitMemberships, TInv, TypeOK, TablesOK, Serials

LEMMA ChangeUserStatusTyped ==
    ASSUME TInv, NEW u \in Users, ChangeUserStatus(u)
    PROVE  TablesOK' /\ RequestsOK'
<1>1. users' \in [Users -> {"active", "disabled"}]
  BY DEF ChangeUserStatus, TInv, TypeOK
<1>2. RequestsOK'
  BY RevisionMovesTyped DEF ChangeUserStatus
<1> QED BY <1>1, <1>2 DEF ChangeUserStatus, TInv, TypeOK, TablesOK, Serials

LEMMA AbandonTyped ==
    ASSUME TInv, NEW r \in Slots, Abandon(r)
    PROVE  TablesOK' /\ RequestsOK'
BY IdleIsSound, ReadsTyped DEF Abandon, Done

LEMMA InitTyped == Init => TInv
<1> SUFFICES ASSUME Init PROVE TInv
  OBVIOUS
<1>1. req \in [Slots -> ReqRecords] /\ RequestsAreSound
  <2> HIDE DEF Idle, ReqRecords, Sound
  <2> QED BY IdleIsSound DEF Init, RequestsAreSound, Records
<1>2. services \in [Services -> ServiceRows] /\ groups \in [GroupIds -> GroupRows]
  <2> HIDE DEF NewService, NoGroupRow
  <2> QED BY Samples DEF Init
<1>3. made \in Serials /\ sent \in 0..MaxRequests
  BY BoundsAssumption DEF Init, Serials
<1>4. since \in [Keepers -> SUBSET {"outside", "no members", "no rules", "turnover"}]
  BY DEF Init
<1>5. /\ users \in [Users -> {"active", "disabled"}]
      /\ rules = {} /\ members = {}
  BY DEF Init
<1> QED BY <1>1, <1>2, <1>3, <1>4, <1>5 DEF TInv, TypeOK

LEMMA NextTyped == TInv /\ [Next]_vars => TInv'
<1> SUFFICES ASSUME TInv, [Next]_vars PROVE TInv'
  OBVIOUS
<1>1. CASE UNCHANGED vars
  BY <1>1 DEF vars, TInv, TypeOK, RequestsAreSound, Sound, Filled
<1>2. CASE Next
  <2>1. ASSUME NEW e \in Editors, EditServices(e)
        PROVE  TablesOK' /\ RequestsOK'
    <3>1. e \in Slots
      BY DEF Slots
    <3> QED BY <2>1, <3>1, SendFormTyped, FindGroupsTyped, FindServiceTyped,
               CheckSlugTyped, CommitSaveTyped, AskUpstreamTyped,
               CommitAnswerTyped DEF EditServices
  <2>2. ASSUME NEW k \in Keepers, KeepGroups(k)
        PROVE  TablesOK' /\ RequestsOK'
    <3>1. k \in Slots
      BY DEF Slots
    <3>2. CASE CheckName(k) \/ ReadMemberAdministrators(k)
                 \/ CountMembers(k) \/ CountServices(k)
      BY <3>1, <3>2, GotoTyped DEF CheckName, ReadMemberAdministrators,
           CountMembers, CountServices
    <3>3. CASE CommitDeactivation(k) \/ CommitReactivation(k)
      BY <3>1, <3>3, CommitStatusTyped DEF CommitDeactivation, CommitReactivation
    <3> QED BY <2>2, <3>1, <3>2, <3>3, NameGroupTyped, CommitNewGroupTyped,
               ShowGroupTyped, LoadGroupTyped, CommitGroupUpdateTyped,
               ReadAdministratorsTyped, CommitRemovalTyped DEF KeepGroups
  <2>3. ASSUME NEW a \in Assigners, Assign(a)
        PROVE  TablesOK' /\ RequestsOK'
    <3>1. a \in Slots
      BY DEF Slots
    <3> QED BY <2>3, <3>1, CheckMembershipsTyped, CommitMembershipsTyped DEF Assign
  <2>4. TablesOK' /\ RequestsOK'
    BY <1>2, <2>1, <2>2, <2>3, AbandonTyped, ChangeUserStatusTyped DEF Next, Step
  <2>5. (since \in [Keepers -> SUBSET {"outside", "no members", "no rules",
                                       "turnover"}])'
    BY <1>2, Observing DEF Next
  <2> QED BY <2>4, <2>5 DEF TInv, TypeOK, TablesOK, RequestsOK
<1> QED BY <1>1, <1>2

\* Whatever the forms, requests and bounds, and however many requests of
\* each kind are under way, the tables and the requests have their types,
\* and each request carries what its phase says.
THEOREM CatalogueInvariance == Spec => []TInv
BY InitTyped, NextTyped, PTL DEF Spec

THEOREM CatalogueTypes == Spec => []TypeOK
<1>1. TInv => TypeOK
  BY DEF TInv
<1> QED BY <1>1, CatalogueInvariance, PTL

LEMMA DatabaseIsOne == TypeOK => Database \in Databases
<1> SUFFICES ASSUME TypeOK PROVE Database \in Databases
  OBVIOUS
<1>1. [s \in Services |-> services[s].st]
        \in [Services -> {"absent", "enabled", "disabled"}]
  BY DEF TypeOK, ServiceRows
<1>2. [g \in GroupIds |-> [st |-> groups[g].st, name |-> groups[g].name]]
        \in GroupTables
  BY DEF TypeOK, GroupRows, GroupTables
<1>3. {<<rule[1], rule[2]>> : rule \in rules} \in SUBSET (Services \X GroupIds)
  <2>1. rules \subseteq Services \X GroupIds \X Serials
    BY DEF TypeOK
  <2>2. \A rule \in rules : <<rule[1], rule[2]>> \in Services \X GroupIds
    BY <2>1
  <2> QED BY <2>2
<1>4. {<<m[1], m[2]>> : m \in members} \in SUBSET (Users \X GroupIds)
  <2>1. members \subseteq Users \X GroupIds \X Serials
    BY DEF TypeOK
  <2>2. \A m \in members : <<m[1], m[2]>> \in Users \X GroupIds
    BY <2>1
  <2> QED BY <2>2
<1>5. users \in [Users -> {"active", "disabled"}]
  BY DEF TypeOK
<1> HIDE DEF GroupTables
<1> QED BY <1>1, <1>2, <1>3, <1>4, <1>5 DEF Database, Databases

\* On every database that the pages leave behind, dangling rows included,
\* the portal's list, the launch decision and the administrators' report
\* name the same services.
THEOREM QueriesAgreeInService == Spec => []AccessQueriesAgree
<1>1. TypeOK => AccessQueriesAgree
  BY DatabaseIsOne, QueriesAlwaysAgree DEF AccessQueriesAgree
<1> QED BY <1>1, CatalogueTypes, PTL

-----------------------------------------------------------------------------
(* What several forms and checks may do to one service.                    *)

Reading == {"service", "slug", "asking"}

\* A request that read a row reads one of a service that exists, since no
\* service is ever removed.
Held(r) ==
    req[r].ph \in Reading => \A s \in req[r].svc : ExistingService(s)

Fresh(s) == ~ExistingService(s) => services[s] = NewService

SInv ==
    /\ \A r \in Slots : Held(r)
    /\ \A s \in Services : Fresh(s)

\* The parts of the two action properties.
RulesLostInAMerge(s) ==
    HasItsRules(s) /\ ~HasItsRules(s)' =>
      \E e \in Editors : /\ Saves(e, s)
                         /\ req[e].seen.st = "disabled"
                         /\ services[s].st = "enabled"

FlagsLostInAMerge(s) ==
    SocketsNeedTheProxy(s) /\ ~SocketsNeedTheProxy(s)' =>
      \E e \in Editors :
         /\ Saves(e, s)
         /\ \/ req[e].seen.px /\ ~services[s].px
            \/ services[s].ws /\ ~req[e].seen.ws

OutdatedInARace(s) ==
    ResultIsOfItsPolicy(s) /\ ~ResultIsOfItsPolicy(s)' =>
      \E e \in Editors :
         \/ StoresAnswer(e, s) /\ PolicyOf(services[s]) # PolicyOf(req[e].seen)
         \/ /\ Saves(e, s)
            /\ req[e].seen.compat = "unchecked"
            /\ services[s].compat # "unchecked"

OnlyByRaces(s) ==
    RulesLostInAMerge(s) /\ FlagsLostInAMerge(s) /\ OutdatedInARace(s)

Served == SInv' /\ \A s \in Services : OnlyByRaces(s)

\* A service whose row and rules stay, or whose rows of rules do, is as it was.
LEMMA SameService ==
    ASSUME NEW s \in Services, services'[s] = services[s],
           (\E rule \in rules : rule[1] = s) => \E rule \in rules' : rule[1] = s
    PROVE  OnlyByRaces(s) /\ (Fresh(s) => Fresh(s)')
           /\ (ExistingService(s) => ExistingService(s)')
BY DEF OnlyByRaces, RulesLostInAMerge, FlagsLostInAMerge, OutdatedInARace, Fresh,
       ExistingService, HasItsRules, SocketsNeedTheProxy, ResultIsOfItsPolicy

\* The services and the rules stay, and each request that is past the read of
\* a row was, or has just read the row of a service that exists.
LEMMA NothingWritten ==
    ASSUME SInv, services' = services, rules' = rules,
           \A r \in Slots : \/ req'[r] = req[r]
                            \/ req'[r].ph \notin Reading
                            \/ \A s \in req'[r].svc : ExistingService(s)
    PROVE  Served
<1>1. \A s \in Services : OnlyByRaces(s) /\ Fresh(s)'
  BY SameService DEF SInv
<1>2. ASSUME NEW r \in Slots PROVE Held(r)'
  BY <1>2 DEF SInv, Held, ExistingService
<1> QED BY <1>1, <1>2 DEF SInv, Served

\* What a request does to the others' records is nothing, or their end.
LEMMA OthersStay ==
    ASSUME TInv, NEW r \in Slots, NEW q, Becomes(r, q)
    PROVE  req'[r] = q /\ \A t \in Slots : t # r => req'[t] = req[t]
<1>1. req \in [Slots -> ReqRecords]
  BY DEF TInv, TypeOK
<1> HIDE DEF ReqRecords
<1> QED BY <1>1 DEF Becomes

\* One row is written, by a request that is then over.
LEMMA OneRowWritten ==
    ASSUME TInv, SInv, NEW e \in Slots, Done(e), NEW s \in Services,
           ExistingService(s)', OnlyByRaces(s),
           \A t \in Services : t # s =>
              /\ services'[t] = services[t]
              /\ (\E rule \in rules : rule[1] = t) => \E rule \in rules' : rule[1] = t
    PROVE  Served
<1>1. req'[e] = Idle /\ \A t \in Slots : t # e => req'[t] = req[t]
  BY OthersStay DEF Done
<1>2. ASSUME NEW t \in Services
      PROVE  OnlyByRaces(t) /\ Fresh(t)' /\ (ExistingService(t) => ExistingService(t)')
  <2>1. CASE t = s
    BY <2>1 DEF Fresh
  <2>2. CASE t # s
    BY <2>2, SameService DEF SInv
  <2> QED BY <2>1, <2>2
<1>3. ASSUME NEW r \in Slots PROVE Held(r)'
  <2>1. CASE r = e
    BY <1>1, <2>1, IdleIsARecord DEF Held, Reading
  <2>2. CASE r # e
    <3>1. req[r].svc \subseteq Services
      BY RequestInRecords DEF Records, ReqRecords
    <3> QED BY <1>1, <1>2, <2>2, <3>1 DEF SInv, Held
  <2> QED BY <2>1, <2>2
<1> QED BY <1>2, <1>3 DEF SInv, Served

\* save_service: the columns that are written, over whatever row there is now.
LEMMA CommitSaveServes ==
    ASSUME TInv, SInv, NEW e \in Editors, CommitSave(e)
    PROVE  Served
<1>0. e \in Slots
  BY DEF Slots
<1> DEFINE p == req[e]
           new == Assigned(p.seen, p.form)
<1>1. /\ p \in ReqRecords /\ p.form \in ServiceForms /\ p.ph = "slug"
      /\ Filled(p) /\ (p.svc = {} => p.seen = NewService)
  BY <1>0, RequestInRecords, FormsAreForms DEF Records, Sound, CommitSave, At
<1>2. p.seen \in ServiceRows
  BY <1>1 DEF ReqRecords
<1>3. PICK s \in Services :
        /\ IF p.svc = {} THEN ~ExistingService(s) ELSE s \in p.svc
        /\ services' = [services EXCEPT ![s] = Flushed(@, p.seen, new)]
        /\ rules' = {rule \in rules : rule[1] # s}
                       \cup {<<s, i[1], i[2]>> : i \in p.picked}
  BY DEF CommitSave
<1> DEFINE row == services[s]
           F == Flushed(row, p.seen, new)
<1>4. services \in [Services -> ServiceRows] /\ row \in ServiceRows
  BY DEF TInv, TypeOK
<1>5. /\ new \in ServiceRows /\ new.st = p.form.st
      /\ new.ws = p.form.ws /\ new.px = p.form.px /\ new.dest = p.form.dest
      /\ new.for = p.seen.for
      /\ new.compat = IF PolicyOf(p.seen) # PolicyOf(p.form)
                      THEN "unchecked" ELSE p.seen.compat
  BY <1>1, <1>2, AssignedRow
<1> HIDE DEF new
<1>6. /\ F.st = IF new.st # p.seen.st THEN new.st ELSE row.st
      /\ F.dest = IF new.dest # p.seen.dest THEN new.dest ELSE row.dest
      /\ F.px = IF new.px # p.seen.px THEN new.px ELSE row.px
      /\ F.ws = IF new.ws # p.seen.ws THEN new.ws ELSE row.ws
      /\ F.compat = IF new.compat # p.seen.compat THEN new.compat ELSE row.compat
      /\ F.for = row.for
  BY <1>2, <1>4, <1>5, FlushedService
<1>7. services' = [services EXCEPT ![s] = F]
  BY <1>3
<1> HIDE DEF F
<1>8. services'[s] = F /\ \A t \in Services : t # s => services'[t] = services[t]
  BY <1>4, <1>7
<1>9. \A t \in Services : t # s =>
        ((\E rule \in rules : rule[1] = t) => \E rule \in rules' : rule[1] = t)
  BY <1>3
<1>10. p.svc = {} => row = p.seen /\ row.st = "absent"
  BY <1>1, <1>3 DEF SInv, Fresh, ExistingService
<1>11. p.svc # {} => s \in p.svc /\ row.st # "absent"
  BY <1>0, <1>1, <1>3 DEF SInv, Held, Reading, ExistingService
<1>12. Done(e) /\ req'[e] = Idle
  BY <1>0, OthersStay DEF CommitSave, Done
<1>13. p.svc # {} => Saves(e, s)
  BY <1>1, <1>11, <1>12 DEF Saves, At
<1>14. new.st \in {"enabled", "disabled"}
  BY <1>1, <1>5 DEF ServiceForms
<1>15. ExistingService(s)'
  BY <1>6, <1>8, <1>10, <1>11, <1>14 DEF ExistingService
<1>16. RulesLostInAMerge(s)
  <2> SUFFICES ASSUME F.st = "enabled", ~\E rule \in rules' : rule[1] = s
               PROVE  /\ Saves(e, s) /\ p.seen.st = "disabled" /\ row.st = "enabled"
    BY <1>8 DEF RulesLostInAMerge, HasItsRules
  <2>1. p.picked = {}
    <3> SUFFICES ASSUME NEW i \in p.picked PROVE FALSE
      OBVIOUS
    <3>1. <<s, i[1], i[2]>> \in rules' /\ <<s, i[1], i[2]>>[1] = s
      BY <1>3
    <3> QED BY <3>1
  <2>2. new.st = "disabled"
    BY <1>1, <1>5, <1>14, <2>1 DEF Filled, ValidForm
  <2>3. p.seen.st = "disabled" /\ row.st = "enabled"
    BY <1>6, <2>2
  <2> QED BY <1>10, <1>13, <2>3
<1>17. FlagsLostInAMerge(s)
  <2> SUFFICES ASSUME row.ws => row.px, F.ws, ~F.px
               PROVE  /\ Saves(e, s)
                      /\ (p.seen.px /\ ~row.px) \/ (row.ws /\ ~p.seen.ws)
    BY <1>8 DEF FlagsLostInAMerge, SocketsNeedTheProxy
  <2>1. new.ws => new.px
    BY <1>1, <1>5 DEF Filled, ValidForm
  <2>2. /\ new.ws \in BOOLEAN /\ new.px \in BOOLEAN
        /\ p.seen.ws \in BOOLEAN /\ p.seen.px \in BOOLEAN
        /\ row.ws \in BOOLEAN /\ row.px \in BOOLEAN
    BY <1>2, <1>4, <1>5 DEF ServiceRows
  <2>3. (p.seen.px /\ ~row.px) \/ (row.ws /\ ~p.seen.ws)
    <3> HIDE DEF p, row
    <3> QED BY <1>6, <2>1, <2>2
  <2> QED BY <1>10, <1>13, <2>3
<1>18. OutdatedInARace(s)
  <2> SUFFICES ASSUME row.compat # "unchecked" => row.for = PolicyOf(row),
                      F.compat # "unchecked", F.for # PolicyOf(F)
               PROVE  /\ Saves(e, s) /\ p.seen.compat = "unchecked"
                      /\ row.compat # "unchecked"
    BY <1>8 DEF OutdatedInARace, ResultIsOfItsPolicy
  <2>1. new.compat = p.seen.compat /\ row.compat = F.compat
    BY <1>5, <1>6
  <2>2. PolicyOf(F) # PolicyOf(row)
    BY <1>6, <2>1
  <2>3. PolicyOf(p.seen) # PolicyOf(p.form)
    BY <1>5, <1>6, <2>2 DEF PolicyOf
  <2>4. p.seen.compat = "unchecked"
    BY <1>5, <2>1, <2>3
  <2> QED BY <1>10, <1>13, <2>1, <2>4
<1> QED BY <1>0, <1>8, <1>9, <1>12, <1>15, <1>16, <1>17, <1>18, OneRowWritten
        DEF OnlyByRaces

\* check_service_compatibility: the answer for a row that was read before.
LEMMA CommitAnswerServes ==
    ASSUME TInv, SInv, NEW e \in Editors, CommitAnswer(e)
    PROVE  Served
<1>0. e \in Slots
  BY DEF Slots
<1> DEFINE p == req[e]
<1>1. p \in ReqRecords /\ p.ph = "asking"
  BY <1>0, RequestInRecords DEF Records, CommitAnswer, At
<1>2. p.seen \in ServiceRows /\ p.svc \subseteq Services
  BY <1>1 DEF ReqRecords
<1>3. PICK s \in p.svc, answer \in Answers(p.seen) :
         services' = [services EXCEPT ![s] = Answered(@, p.seen, answer)]
  BY DEF CommitAnswer
<1> DEFINE row == services[s]
           A == Answered(row, p.seen, answer)
<1>4. services \in [Services -> ServiceRows] /\ s \in Services /\ row \in ServiceRows
  BY <1>2 DEF TInv, TypeOK
<1>5. /\ A.st = row.st /\ A.ws = row.ws /\ A.px = row.px
      /\ A.dest = row.dest /\ A.for = PolicyOf(p.seen)
  BY <1>2, <1>4, AnsweredRow
<1>6. services' = [services EXCEPT ![s] = A]
  BY <1>3
<1> HIDE DEF A
<1>7. services'[s] = A /\ \A t \in Services : t # s => services'[t] = services[t]
  BY <1>4, <1>6
<1>8. row.st # "absent"
  BY <1>0, <1>1 DEF SInv, Held, Reading, ExistingService
<1>9. Done(e) /\ req'[e] = Idle /\ rules' = rules
  BY <1>0, OthersStay DEF CommitAnswer, Done
<1>10. ExistingService(s)'
  BY <1>5, <1>7, <1>8 DEF ExistingService
<1>11. RulesLostInAMerge(s) /\ FlagsLostInAMerge(s)
  BY <1>5, <1>7, <1>9 DEF RulesLostInAMerge, FlagsLostInAMerge, HasItsRules,
                          SocketsNeedTheProxy
<1>12. OutdatedInARace(s)
  <2>1. PolicyOf(A) = PolicyOf(row)
    BY <1>5 DEF PolicyOf
  <2>2. StoresAnswer(e, s)
    BY <1>1, <1>9 DEF StoresAnswer, At
  <2> QED BY <1>5, <1>7, <2>1, <2>2 DEF OutdatedInARace, ResultIsOfItsPolicy
<1> QED BY <1>0, <1>4, <1>7, <1>9, <1>10, <1>11, <1>12, OneRowWritten DEF OnlyByRaces

-----------------------------------------------------------------------------
(* Which request a step moves, and where to.                               *)

EditorPhases == {"idle", "form", "groups", "service", "slug", "asking"}

KeeperPhases ==
    {"idle", "named", "shown", "loaded", "distinct", "admins", "guarded",
     "noMembers", "unused"}

Moves(r, phases) ==
    req'[r].ph \in phases /\ \A t \in Slots : t # r => req'[t] = req[t]

LEMMA GotoMoves ==
    ASSUME TInv, NEW r \in Slots, NEW ph, Goto(r, ph)
    PROVE  /\ req'[r].ph = ph /\ \A t \in Slots : t # r => req'[t] = req[t]
           /\ req'[r].g = req[r].g /\ req'[r].admins = req[r].admins
<1> DEFINE q == [req[r] EXCEPT !.ph = ph]
<1>1. req[r] \in ReqRecords
  BY RequestInRecords DEF Records
<1>2. q.ph = ph /\ q.g = req[r].g /\ q.admins = req[r].admins
  BY <1>1 DEF ReqRecords
<1> HIDE DEF q
<1>3. Becomes(r, q)
  BY DEF Goto, q
<1> QED BY <1>2, <1>3, OthersStay

LEMMA DoneMoves ==
    ASSUME TInv, NEW r \in Slots, Done(r)
    PROVE  /\ req'[r] = Idle /\ req'[r].ph = "idle"
           /\ \A t \in Slots : t # r => req'[t] = req[t]
BY OthersStay, IdleIsARecord DEF Done

LEMMA EditorMoves ==
    ASSUME TInv, NEW e \in Slots, EditServices(e)
    PROVE  /\ Moves(e, EditorPhases)
           /\ UNCHANGED <<users, groups, members>>
<1>1. req[e] \in ReqRecords
  BY RequestInRecords DEF Records
<1>2. CASE SendForm(e)
  <2>1. PICK form \in Forms : Arrives(e, [Idle EXCEPT !.ph = "form", !.form = form])
    BY <1>2 DEF SendForm
  <2> DEFINE q == [Idle EXCEPT !.ph = "form", !.form = form]
  <2>2. q.ph = "form"
    <3> HIDE DEF Idle
    <3> QED BY IdleIsARecord DEF ReqRecords
  <2> HIDE DEF q
  <2>3. Arrives(e, q)
    BY <2>1 DEF q
  <2> QED BY <2>2, <2>3, OthersStay DEF Arrives, Moves, EditorPhases
<1>3. CASE FindGroups(e)
  <2> DEFINE picked == {<<g, groups[g].serial>> : g \in ActiveNamedGroups(req[e].form.names)}
             q == [req[e] EXCEPT !.ph = "groups", !.picked = picked]
  <2>1. Becomes(e, q) /\ Reads
    BY <1>3 DEF FindGroups
  <2> HIDE DEF picked
  <2>2. q.ph = "groups"
    BY <1>1 DEF ReqRecords
  <2> HIDE DEF q
  <2> QED BY <2>1, <2>2, OthersStay DEF Reads, Moves, EditorPhases
<1>4. CASE FindService(e)
  <2>1. CASE Goto(e, "service")
    BY <1>4, <2>1, GotoMoves DEF FindService, Reads, Moves, EditorPhases
  <2>2. ASSUME NEW s \in Services,
               Becomes(e, [req[e] EXCEPT !.ph = "service", !.svc = {s},
                                         !.seen = services[s]])
        PROVE  Moves(e, EditorPhases)
    <3> DEFINE q == [req[e] EXCEPT !.ph = "service", !.svc = {s},
                                   !.seen = services[s]]
    <3>1. q.ph = "service"
      BY <1>1 DEF ReqRecords
    <3> HIDE DEF q
    <3>2. Becomes(e, q)
      BY <2>2 DEF q
    <3> QED BY <3>1, <3>2, OthersStay DEF Moves, EditorPhases
  <2> QED BY <1>4, <2>1, <2>2 DEF FindService, ServicesWithSlug, Reads
<1>5. CASE CheckSlug(e)
  BY <1>5, GotoMoves DEF CheckSlug, Reads, Moves, EditorPhases
<1>6. CASE CommitSave(e)
  BY <1>6, DoneMoves DEF CommitSave, Moves, EditorPhases
<1>7. CASE AskUpstream(e)
  <2>1. PICK s \in Services :
          Arrives(e, [Idle EXCEPT !.ph = "asking", !.svc = {s}, !.seen = services[s]])
    BY <1>7 DEF AskUpstream
  <2> DEFINE q == [Idle EXCEPT !.ph = "asking", !.svc = {s}, !.seen = services[s]]
  <2>2. q.ph = "asking"
    <3> HIDE DEF Idle
    <3> QED BY IdleIsARecord DEF ReqRecords
  <2> HIDE DEF q
  <2>3. Arrives(e, q)
    BY <2>1 DEF q
  <2> QED BY <2>2, <2>3, OthersStay DEF Arrives, Moves, EditorPhases
<1>8. CASE CommitAnswer(e)
  BY <1>8, DoneMoves DEF CommitAnswer, Moves, EditorPhases
<1> QED BY <1>2, <1>3, <1>4, <1>5, <1>6, <1>7, <1>8 DEF EditServices

\* Each step of a group page, and the phase it ends in.
LEMMA KeeperMoves ==
    ASSUME TInv, NEW k \in Slots, KeepGroups(k)
    PROVE  /\ Moves(k, KeeperPhases)
           /\ UNCHANGED <<users, services, rules, members>>
           /\ req'[k].ph = "admins" => ReadAdministrators(k)
           /\ req'[k].ph = "guarded" => ReadMemberAdministrators(k)
           /\ req'[k].ph = "noMembers" => CountMembers(k)
           /\ req'[k].ph = "unused" => CountServices(k)
<1>1. req[k] \in ReqRecords
  BY RequestInRecords DEF Records
<1>2. CASE NameGroup(k)
  <2>1. PICK n \in Names :
          Arrives(k, [Idle EXCEPT !.ph = "named", !.op = "create", !.name = n])
    BY <1>2 DEF NameGroup
  <2> DEFINE q == [Idle EXCEPT !.ph = "named", !.op = "create", !.name = n]
  <2>2. q.ph = "named"
    <3> HIDE DEF Idle
    <3> QED BY IdleIsARecord DEF ReqRecords
  <2> HIDE DEF q
  <2>3. Arrives(k, q)
    BY <2>1 DEF q
  <2> QED BY <2>2, <2>3, OthersStay DEF Arrives, Moves, KeeperPhases
<1>3. CASE ShowGroup(k)
  <2>1. PICK g, op, n :
          Arrives(k, [Idle EXCEPT !.ph = "shown", !.op = op, !.g = g,
                             !.rev = groups[g].rev, !.name = n,
                             !.row = groups[g]])
    BY <1>3 DEF ShowGroup
  <2> DEFINE q == [Idle EXCEPT !.ph = "shown", !.op = op, !.g = g,
                             !.rev = groups[g].rev, !.name = n,
                             !.row = groups[g]]
  <2>2. q.ph = "shown"
    <3> HIDE DEF Idle
    <3> QED BY IdleIsARecord DEF ReqRecords
  <2> HIDE DEF q
  <2>3. Arrives(k, q)
    BY <2>1 DEF q
  <2> QED BY <2>2, <2>3, OthersStay DEF Arrives, Moves, KeeperPhases
<1>4. CASE LoadGroup(k)
  <2> DEFINE row == groups[req[k].g]
             q == [req[k] EXCEPT !.ph = "loaded", !.row.st = row.st,
                          !.row.name = row.name, !.row.rev = row.rev]
  <2>1. Becomes(k, q) /\ Reads
    BY <1>4 DEF LoadGroup
  <2> HIDE DEF row
  <2>2. q.ph = "loaded"
    BY <1>1 DEF ReqRecords
  <2> HIDE DEF q
  <2> QED BY <2>1, <2>2, OthersStay DEF Reads, Moves, KeeperPhases
<1>5. CASE CheckName(k)
  BY <1>5, GotoMoves DEF CheckName, Reads, Moves, KeeperPhases
<1>6. CASE ReadAdministrators(k)
  <2> DEFINE q == [req[k] EXCEPT !.ph = "admins", !.admins = ActiveAdministrators]
  <2>1. Becomes(k, q) /\ Reads
    BY <1>6 DEF ReadAdministrators
  <2>2. q.ph = "admins"
    BY <1>1 DEF ReqRecords
  <2> HIDE DEF q
  <2> QED BY <1>6, <2>1, <2>2, OthersStay DEF Reads, Moves, KeeperPhases
<1>7. CASE ReadMemberAdministrators(k)
  BY <1>7, GotoMoves DEF ReadMemberAdministrators, Reads, Moves, KeeperPhases
<1>8. CASE CountMembers(k)
  BY <1>8, GotoMoves DEF CountMembers, Reads, Moves, KeeperPhases
<1>9. CASE CountServices(k)
  BY <1>9, GotoMoves DEF CountServices, Reads, Moves, KeeperPhases
<1>10. CASE CommitNewGroup(k) \/ CommitGroupUpdate(k) \/ CommitDeactivation(k)
              \/ CommitReactivation(k) \/ CommitRemoval(k)
  <2>1. Done(k) /\ UNCHANGED <<users, services, rules, members>>
    BY <1>10 DEF CommitNewGroup, CommitGroupUpdate, CommitDeactivation,
         CommitReactivation, CommitRemoval, CommitStatus
  <2> QED BY <2>1, DoneMoves DEF Moves, KeeperPhases
<1> QED BY <1>2, <1>3, <1>4, <1>5, <1>6, <1>7, <1>8, <1>9, <1>10 DEF KeepGroups

\* Every other step leaves each record, or makes it idle or "checked".
LEMMA OtherMoves ==
    ASSUME TInv,
           \/ \E a \in Slots : Assign(a) \/ Abandon(a)
           \/ \E u \in Users : ChangeUserStatus(u)
    PROVE  /\ \A t \in Slots : req'[t] = req[t] \/ req'[t].ph \in {"idle", "checked"}
           /\ UNCHANGED <<groups, services, rules>>
<1>1. ASSUME NEW u \in Users, RevisionMoves(u)
      PROVE  \A t \in Slots : req'[t] = req[t] \/ req'[t].ph = "idle"
  BY <1>1, IdleIsARecord DEF RevisionMoves
<1>2. CASE \E u \in Users : ChangeUserStatus(u)
  BY <1>1, <1>2 DEF ChangeUserStatus
<1>3. ASSUME NEW a \in Slots, Abandon(a)
      PROVE  /\ \A t \in Slots : req'[t] = req[t] \/ req'[t].ph = "idle"
             /\ UNCHANGED <<groups, services, rules>>
  BY <1>3, DoneMoves DEF Abandon, Reads
<1>4. ASSUME NEW a \in Slots, CommitMemberships(a)
      PROVE  /\ \A t \in Slots : req'[t] = req[t] \/ req'[t].ph = "idle"
             /\ UNCHANGED <<groups, services, rules>>
  <2>1. req[a].user \subseteq Users
    BY RequestInRecords DEF Records, ReqRecords
  <2> QED BY <1>1, <1>4, <2>1 DEF CommitMemberships
<1>5. ASSUME NEW a \in Slots, CheckMemberships(a)
      PROVE  /\ \A t \in Slots : req'[t] = req[t] \/ req'[t].ph = "checked"
             /\ UNCHANGED <<groups, services, rules>>
  <2>1. PICK u \in Users, gs \in SUBSET GroupIds :
          Arrives(a, [Idle EXCEPT !.ph = "checked", !.user = {u},
                          !.picked = {<<g, groups[g].serial>> : g \in gs}])
    BY <1>5 DEF CheckMemberships
  <2> DEFINE picked == {<<g, groups[g].serial>> : g \in gs}
             q == [Idle EXCEPT !.ph = "checked", !.user = {u}, !.picked = picked]
  <2> HIDE DEF picked
  <2>2. q.ph = "checked"
    <3> HIDE DEF Idle
    <3> QED BY IdleIsARecord DEF ReqRecords
  <2> HIDE DEF q
  <2>3. Arrives(a, q)
    BY <2>1 DEF q, picked
  <2> QED BY <2>2, <2>3, OthersStay DEF Arrives
<1> QED BY <1>2, <1>3, <1>4, <1>5 DEF Assign

-----------------------------------------------------------------------------
(* How services go wrong: by the named races only.                         *)

LEMMA EditorServes ==
    ASSUME TInv, SInv, NEW e \in Editors, EditServices(e)
    PROVE  Served
<1>0. e \in Slots
  BY DEF Slots
<1>1. Moves(e, EditorPhases) /\ req[e] \in ReqRecords
  BY <1>0, EditorMoves, RequestInRecords DEF Records
<1>2. ASSUME services' = services, rules' = rules, NEW q, Becomes(e, q),
             \/ q.svc = {}
             \/ \E s \in Services : q.svc = {s} /\ ExistingService(s)
             \/ req[e].ph \in Reading /\ q.svc = req[e].svc
      PROVE  Served
  <2>1. req'[e] = q
    BY <1>0, <1>2, OthersStay
  <2>2. \A s \in req'[e].svc : ExistingService(s)
    BY <1>0, <1>2, <2>1 DEF SInv, Held
  <2> QED BY <1>1, <1>2, <2>2, NothingWritten DEF Moves
<1>3. CASE SendForm(e)
  <2>1. PICK form \in Forms : Arrives(e, [Idle EXCEPT !.ph = "form", !.form = form])
    BY <1>3 DEF SendForm
  <2> DEFINE q == [Idle EXCEPT !.ph = "form", !.form = form]
  <2>2. q.svc = {}
    <3> HIDE DEF Idle
    <3> QED BY IdleIsARecord DEF ReqRecords
  <2> HIDE DEF q
  <2>3. Arrives(e, q)
    BY <2>1 DEF q
  <2> QED BY <1>2, <2>2, <2>3 DEF Arrives
<1>4. CASE FindGroups(e)
  <2> DEFINE picked == {<<g, groups[g].serial>> : g \in ActiveNamedGroups(req[e].form.names)}
             q == [req[e] EXCEPT !.ph = "groups", !.picked = picked]
  <2>1. Becomes(e, q) /\ Reads
    BY <1>4 DEF FindGroups
  <2> HIDE DEF picked
  <2>2. req[e].svc = {}
    BY <1>0, <1>4, RequestInRecords DEF Records, Sound, FindGroups, At
  <2>3. q.svc = {}
    BY <1>1, <2>2 DEF ReqRecords
  <2> HIDE DEF q
  <2> QED BY <1>2, <2>1, <2>3 DEF Reads
<1>5. CASE FindService(e)
  <2>1. req[e].svc = {}
    BY <1>0, <1>5, RequestInRecords DEF Records, Sound, FindService, At
  <2>2. CASE Goto(e, "service")
    <3> DEFINE q == [req[e] EXCEPT !.ph = "service"]
    <3>1. q.svc = {}
      BY <1>1, <2>1 DEF ReqRecords
    <3> HIDE DEF q
    <3>2. Becomes(e, q)
      BY <2>2 DEF Goto, q
    <3> QED BY <1>2, <1>5, <3>1, <3>2 DEF FindService, Reads
  <2>3. ASSUME NEW s \in Services, ExistingService(s),
               Becomes(e, [req[e] EXCEPT !.ph = "service", !.svc = {s},
                                         !.seen = services[s]])
        PROVE  Served
    <3> DEFINE q == [req[e] EXCEPT !.ph = "service", !.svc = {s},
                                   !.seen = services[s]]
    <3>1. q.svc = {s}
      BY <1>1 DEF ReqRecords
    <3> HIDE DEF q
    <3>2. Becomes(e, q)
      BY <2>3 DEF q
    <3> QED BY <1>2, <1>5, <2>3, <3>1, <3>2 DEF FindService, Reads
  <2> QED BY <1>5, <2>2, <2>3 DEF FindService, ServicesWithSlug
<1>6. CASE CheckSlug(e)
  <2> DEFINE q == [req[e] EXCEPT !.ph = "slug"]
  <2>1. q.svc = req[e].svc
    BY <1>1 DEF ReqRecords
  <2> HIDE DEF q
  <2>2. Becomes(e, q)
    BY <1>6 DEF CheckSlug, Goto, q
  <2> QED BY <1>2, <1>6, <2>1, <2>2 DEF CheckSlug, At, Reading, Reads
<1>7. CASE AskUpstream(e)
  <2>1. PICK s \in Services :
          /\ ExistingService(s)
          /\ Arrives(e, [Idle EXCEPT !.ph = "asking", !.svc = {s}, !.seen = services[s]])
    BY <1>7 DEF AskUpstream
  <2> DEFINE q == [Idle EXCEPT !.ph = "asking", !.svc = {s}, !.seen = services[s]]
  <2>2. q.svc = {s}
    <3> HIDE DEF Idle
    <3> QED BY IdleIsARecord DEF ReqRecords
  <2> HIDE DEF q
  <2>3. Arrives(e, q)
    BY <2>1 DEF q
  <2> QED BY <1>2, <2>1, <2>2, <2>3 DEF Arrives
<1> QED BY <1>3, <1>4, <1>5, <1>6, <1>7, CommitSaveServes, CommitAnswerServes
        DEF EditServices

LEMMA InitServed == Init => SInv
<1> SUFFICES ASSUME Init PROVE SInv
  OBVIOUS
<1>1. ASSUME NEW r \in Slots PROVE Held(r)
  <2>1. req[r] = Idle
    <3> HIDE DEF Idle
    <3> QED BY DEF Init
  <2> QED BY <2>1, IdleIsARecord DEF Held, Reading
<1>2. ASSUME NEW s \in Services PROVE Fresh(s)
  <2> HIDE DEF NewService
  <2> QED BY DEF Init, Fresh
<1> QED BY <1>1, <1>2 DEF SInv

LEMMA NextServes == TInv /\ SInv /\ Next => Served
<1> SUFFICES ASSUME TInv, SInv, Next PROVE Served
  OBVIOUS
<1>1. ASSUME NEW k \in Keepers, KeepGroups(k) PROVE Served
  <2>1. k \in Slots
    BY DEF Slots
  <2>2. /\ req'[k].ph \in KeeperPhases
        /\ \A t \in Slots : t # k => req'[t] = req[t]
        /\ services' = services /\ rules' = rules
    BY <1>1, <2>1, KeeperMoves DEF Moves
  <2> QED BY <2>2, NothingWritten DEF KeeperPhases, Reading
<1>2. CASE \/ \E a \in Slots : Assign(a) \/ Abandon(a)
           \/ \E u \in Users : ChangeUserStatus(u)
  <2>1. /\ \A t \in Slots : req'[t] = req[t] \/ req'[t].ph \in {"idle", "checked"}
        /\ services' = services /\ rules' = rules
    BY <1>2, OtherMoves
  <2> QED BY <2>1, NothingWritten DEF Reading
<1>3. Assigners \subseteq Slots
  BY DEF Slots
<1> QED BY <1>1, <1>2, <1>3, EditorServes DEF Next, Step

LEMMA AlwaysServed == Spec => [](TInv /\ SInv)
<1>1. Init => TInv /\ SInv
  BY InitTyped, InitServed
<1>2. TInv /\ SInv /\ [Next]_vars => (TInv /\ SInv)'
  <2>1. ASSUME SInv, UNCHANGED vars PROVE SInv'
    BY <2>1 DEF vars, SInv, Held, Fresh, ExistingService
  <2> QED BY <2>1, NextTyped, NextServes DEF Served
<1> QED BY <1>1, <1>2, PTL DEF Spec

\* However many forms and checks meet: an enabled service loses its rules only
\* to a form that had read it as disabled before another one enabled it, and
\* gets WebSockets without the proxy only where two forms change the flags.
THEOREM MergesAloneMakeServicesInvalid == Spec => OnlyMergesMakeServicesInvalid
<1>1. TInv /\ SInv /\ [Next]_vars =>
        [\A s \in Services :
           /\ HasItsRules(s) /\ ~HasItsRules(s)' =>
                \E e \in Editors : /\ Saves(e, s)
                                   /\ req[e].seen.st = "disabled"
                                   /\ services[s].st = "enabled"
           /\ SocketsNeedTheProxy(s) /\ ~SocketsNeedTheProxy(s)' =>
                \E e \in Editors :
                   /\ Saves(e, s)
                   /\ \/ req[e].seen.px /\ ~services[s].px
                      \/ services[s].ws /\ ~req[e].seen.ws]_vars
  BY NextServes DEF Served, OnlyByRaces, RulesLostInAMerge, FlagsLostInAMerge
<1> QED BY <1>1, AlwaysServed, PTL DEF Spec, OnlyMergesMakeServicesInvalid

\* However many forms and checks meet: a compatibility result comes to stand
\* beside another policy only when it is stored after a change during the await,
\* or when a form had read the row before the result came.
THEOREM RacesAloneOutdateResults == Spec => OnlyRacesOutdateResults
<1>1. TInv /\ SInv /\ [Next]_vars =>
        [\A s \in Services :
           ResultIsOfItsPolicy(s) /\ ~ResultIsOfItsPolicy(s)' =>
             \E e \in Editors :
                \/ StoresAnswer(e, s) /\ PolicyOf(services[s]) # PolicyOf(req[e].seen)
                \/ /\ Saves(e, s)
                   /\ req[e].seen.compat = "unchecked"
                   /\ services[s].compat # "unchecked"]_vars
  BY NextServes DEF Served, OnlyByRaces, OutdatedInARace
<1> QED BY <1>1, AlwaysServed, PTL DEF Spec, OnlyRacesOutdateResults

-----------------------------------------------------------------------------
(* A group ends after its checks.                                          *)

Guarding == {"admins", "guarded", "noMembers", "unused"}

\* What a keeper found out is in the history of its form: the set of
\* administrators that it read is the current one, or they changed since; and
\* each check that it passed held at some moment.
Watched(k) ==
    /\ req[k].ph = "admins" =>
         (req[k].admins = ActiveAdministrators \/ "turnover" \in since[k])
    /\ req[k].ph \in {"guarded", "noMembers", "unused"} =>
         since[k] \cap {"outside", "turnover"} # {}
    /\ req[k].ph \in {"noMembers", "unused"} => "no members" \in since[k]
    /\ req[k].ph = "unused" => "no rules" \in since[k]

AllWatched == \A k \in Keepers : Watched(k)

LEMMA SinceGrows ==
    ASSUME Observe, NEW k \in Keepers, req'[k].ph # "idle"
    PROVE  /\ since[k] \subseteq since'[k]
           /\ Facts(k)' \subseteq since'[k]
           /\ ActiveAdministrators' # ActiveAdministrators => "turnover" \in since'[k]
<1>1. req'[k] # Idle
  BY IdleIsARecord
<1>2. since'[k] = since[k] \cup Turnover \cup Facts(k)'
  BY <1>1 DEF Observe
<1> QED BY <1>2 DEF Turnover

LEMMA WatchedStays ==
    ASSUME AllWatched, Observe, NEW k \in Keepers,
           req'[k] = req[k] \/ req'[k].ph \notin Guarding
    PROVE  Watched(k)'
<1>1. CASE req'[k].ph \notin Guarding
  BY <1>1 DEF Watched, Guarding
<1>2. CASE req'[k] = req[k] /\ req'[k].ph \in Guarding
  <2>1. /\ since[k] \subseteq since'[k]
        /\ ActiveAdministrators' # ActiveAdministrators => "turnover" \in since'[k]
    BY <1>2, SinceGrows DEF Guarding
  <2>2. Watched(k)
    BY DEF AllWatched
  <2> HIDE DEF ActiveAdministrators
  <2> QED BY <1>2, <2>1, <2>2 DEF Watched
<1> QED BY <1>1, <1>2

LEMMA KeeperIsWatched ==
    ASSUME TInv, AllWatched, Observe, NEW k \in Keepers, KeepGroups(k)
    PROVE  Watched(k)'
<1>1. k \in Slots
  BY DEF Slots
<1>2. /\ UNCHANGED <<users, services, rules, members>>
      /\ req'[k].ph = "admins" => ReadAdministrators(k)
      /\ req'[k].ph = "guarded" => ReadMemberAdministrators(k)
      /\ req'[k].ph = "noMembers" => CountMembers(k)
      /\ req'[k].ph = "unused" => CountServices(k)
  BY <1>1, KeeperMoves
<1>3. ActiveAdministrators' = ActiveAdministrators
  BY <1>2 DEF ActiveAdministrators
<1>4. Watched(k)
  BY DEF AllWatched
<1>5. CASE req'[k].ph = "admins"
  <2>1. req[k] \in ReqRecords
    BY <1>1, RequestInRecords DEF Records
  <2> DEFINE q == [req[k] EXCEPT !.ph = "admins", !.admins = ActiveAdministrators]
  <2>2. q.admins = ActiveAdministrators
    BY <2>1 DEF ReqRecords
  <2>3. Becomes(k, q)
    BY <1>2, <1>5 DEF ReadAdministrators
  <2> HIDE DEF q, ActiveAdministrators
  <2>4. req'[k].admins = ActiveAdministrators
    BY <1>1, <2>2, <2>3, OthersStay
  <2> QED BY <1>3, <1>5, <2>4 DEF Watched
<1>6. CASE req'[k].ph = "guarded"
  <2>1. /\ req[k].ph = "admins" /\ Goto(k, "guarded")
        /\ ActiveAdministrators \cap MembersOf(req[k].g) # req[k].admins
    BY <1>2, <1>6 DEF ReadMemberAdministrators, At, NotAllAreMembers
  <2>2. since[k] \subseteq since'[k] /\ Facts(k)' \subseteq since'[k]
    BY <1>6, SinceGrows
  <2>3. CASE "turnover" \in since[k]
    BY <1>6, <2>2, <2>3 DEF Watched
  <2>4. CASE req[k].admins = ActiveAdministrators
    <3>1. ActiveAdministrators \ MembersOf(req[k].g) # {}
      BY <2>1, <2>4
    <3>2. req'[k].g = req[k].g
      BY <1>1, <2>1, GotoMoves
    <3>3. MembersOf(req[k].g)' = MembersOf(req[k].g)
      BY <1>2, <3>2 DEF MembersOf
    <3>4. "outside" \in Facts(k)'
      <4> HIDE DEF ActiveAdministrators, MembersOf
      <4> QED BY <1>3, <3>1, <3>3 DEF Facts
    <3> QED BY <1>6, <2>2, <3>4 DEF Watched
  <2> QED BY <1>4, <2>1, <2>3, <2>4 DEF Watched
<1>7. CASE req'[k].ph = "noMembers"
  <2>1. req[k].ph = "guarded" /\ MembersOf(req[k].g) = {} /\ Goto(k, "noMembers")
    BY <1>2, <1>7 DEF CountMembers, At
  <2>2. since[k] \subseteq since'[k] /\ Facts(k)' \subseteq since'[k]
    BY <1>7, SinceGrows
  <2>3. req'[k].g = req[k].g
    BY <1>1, <2>1, GotoMoves
  <2>4. MembersOf(req[k].g)' = {}
    BY <1>2, <2>1, <2>3 DEF MembersOf
  <2>5. "no members" \in Facts(k)'
    <3> HIDE DEF ActiveAdministrators, MembersOf
    <3> QED BY <2>4 DEF Facts
  <2> QED BY <1>4, <1>7, <2>1, <2>2, <2>5 DEF Watched
<1>8. CASE req'[k].ph = "unused"
  <2>1. req[k].ph = "noMembers" /\ ServicesOf(req[k].g) = {} /\ Goto(k, "unused")
    BY <1>2, <1>8 DEF CountServices, At
  <2>2. since[k] \subseteq since'[k] /\ Facts(k)' \subseteq since'[k]
    BY <1>8, SinceGrows
  <2>3. req'[k].g = req[k].g
    BY <1>1, <2>1, GotoMoves
  <2>4. ServicesOf(req[k].g)' = {}
    BY <1>2, <2>1, <2>3 DEF ServicesOf
  <2>5. "no rules" \in Facts(k)'
    <3> HIDE DEF ActiveAdministrators, MembersOf, ServicesOf
    <3> QED BY <2>4 DEF Facts
  <2> QED BY <1>4, <1>8, <2>1, <2>2, <2>5 DEF Watched
<1>9. CASE req'[k].ph \notin Guarding
  BY <1>9, WatchedStays
<1> QED BY <1>5, <1>6, <1>7, <1>8, <1>9 DEF Guarding

LEMMA InitWatched == Init => AllWatched
<1> SUFFICES ASSUME Init, NEW k \in Keepers PROVE Watched(k)
  BY DEF AllWatched
<1>1. k \in Slots
  BY DEF Slots
<1>2. req[k] = Idle
  <2> HIDE DEF Idle
  <2> QED BY <1>1 DEF Init
<1> QED BY <1>2, IdleIsARecord DEF Watched

LEMMA NextWatched == TInv /\ AllWatched /\ [Next]_vars => AllWatched'
<1> SUFFICES ASSUME TInv, AllWatched, [Next]_vars, NEW k \in Keepers
             PROVE  Watched(k)'
  BY DEF AllWatched
<1>1. CASE UNCHANGED vars
  BY <1>1 DEF vars, AllWatched, Watched, ActiveAdministrators
<1>2. CASE Next
  <2>1. Observe /\ k \in Slots
    BY <1>2 DEF Next, Slots
  <2>2. ASSUME NEW e \in Editors, EditServices(e) PROVE Watched(k)'
    <3>1. e \in Slots
      BY DEF Slots
    <3>2. req'[k] = req[k] \/ req'[k].ph \in EditorPhases
      BY <2>1, <2>2, <3>1, EditorMoves DEF Moves
    <3> QED BY <2>1, <3>2, WatchedStays DEF EditorPhases, Guarding
  <2>3. ASSUME NEW r \in Keepers, KeepGroups(r) PROVE Watched(k)'
    <3>1. r \in Slots
      BY DEF Slots
    <3>2. CASE r = k
      BY <2>1, <2>3, <3>2, KeeperIsWatched
    <3>3. CASE r # k
      <4>1. req'[k] = req[k]
        BY <2>1, <2>3, <3>1, <3>3, KeeperMoves DEF Moves
      <4> QED BY <2>1, <4>1, WatchedStays
    <3> QED BY <3>2, <3>3
  <2>4. CASE \/ \E a \in Slots : Assign(a) \/ Abandon(a)
             \/ \E u \in Users : ChangeUserStatus(u)
    <3>1. req'[k] = req[k] \/ req'[k].ph \in {"idle", "checked"}
      BY <2>1, <2>4, OtherMoves
    <3> QED BY <2>1, <3>1, WatchedStays DEF Guarding
  <2>5. Assigners \subseteq Slots
    BY DEF Slots
  <2> QED BY <1>2, <2>2, <2>3, <2>4, <2>5 DEF Next, Step
<1> QED BY <1>1, <1>2

\* What one step may do to a group: the body of the action property.
GroupEnds(g) ==
    \/ ExistingGroup(g) /\ ~ExistingGroup(g)'
    \/ groups[g].st = "active" /\ groups'[g].st # "active"

WasAllowed(g) ==
    \E k \in Keepers :
        /\ req[k].g = g /\ req'[k] = Idle
        /\ since[k] \cap {"outside", "turnover"} # {}
        /\ ExistingGroup(g) /\ ~ExistingGroup(g)'
             => {"no members", "no rules"} \subseteq since[k]

LEMMA KeeperEnds ==
    ASSUME TInv, AllWatched, NEW k \in Keepers, KeepGroups(k),
           NEW g \in GroupIds, GroupEnds(g)
    PROVE  WasAllowed(g)
<1>1. k \in Slots /\ Watched(k)
  BY DEF Slots, AllWatched
<1>2. groups \in [GroupIds -> GroupRows]
  BY DEF TInv, TypeOK
<1> DEFINE p == req[k]
<1>3. p \in ReqRecords
  BY <1>1, RequestInRecords DEF Records
<1>4. p.row \in GroupRows
  BY <1>3 DEF ReqRecords
<1>5. ASSUME NEW st, NEW row, groups' = [groups EXCEPT ![p.g] = row],
             row.st \in {st, groups[p.g].st}
      PROVE  g = p.g /\ groups'[g] = row /\ row.st = st /\ row.st # groups[g].st
  <2>1. g # p.g => groups'[g] = groups[g]
    BY <1>2, <1>5
  <2>2. g = p.g
    BY <2>1 DEF GroupEnds, ExistingGroup
  <2>3. groups'[g] = row
    BY <1>2, <1>5, <2>2
  <2> QED BY <1>5, <2>2, <2>3 DEF GroupEnds, ExistingGroup
<1>6. ASSUME NEW st \in {"active", "deactivated"}, CommitStatus(k, st)
      PROVE  g = p.g /\ groups'[g].st = st /\ groups[g].st # st
  <2> DEFINE new == [p.row EXCEPT !.st = st, !.rev = p.row.rev + 1]
             row == Flushed(groups[p.g], p.row, new)
  <2>1. p.g \in GroupIds \/ groups' = groups
    BY <1>2, <1>6 DEF CommitStatus
  <2>2. p.g \in GroupIds
    BY <2>1 DEF GroupEnds, ExistingGroup
  <2>3. groups[p.g] \in GroupRows
    BY <1>2, <2>2
  <2>4. new.st = st
    BY <1>4 DEF GroupRows
  <2>5. row.st \in {st, groups[p.g].st}
    <3> HIDE DEF new
    <3>1. DOMAIN groups[p.g] = {"st", "name", "rev", "serial"}
      BY <2>3 DEF GroupRows
    <3> QED BY <2>4, <3>1 DEF Flushed
  <2>6. groups' = [groups EXCEPT ![p.g] = row]
    BY <1>6 DEF CommitStatus
  <2> HIDE DEF row
  <2> QED BY <1>5, <2>5, <2>6
<1>7. CASE CommitDeactivation(k)
  <2>1. g = p.g /\ groups'[g].st = "deactivated"
    BY <1>6, <1>7 DEF CommitDeactivation
  <2>2. req'[k] = Idle
    BY <1>1, <1>7, DoneMoves DEF CommitDeactivation, CommitStatus
  <2>3. since[k] \cap {"outside", "turnover"} # {}
    BY <1>1, <1>7 DEF CommitDeactivation, Watched, At
  <2> HIDE DEF Idle
  <2> QED BY <2>1, <2>2, <2>3 DEF WasAllowed, ExistingGroup
<1>8. CASE CommitReactivation(k)
  BY <1>6, <1>8 DEF CommitReactivation, GroupEnds, ExistingGroup
<1>9. CASE CommitRemoval(k)
  <2>1. groups' = [groups EXCEPT ![p.g] = NoGroupRow] /\ p.ph = "unused"
    BY <1>9 DEF CommitRemoval, At
  <2>2. g = p.g
    <3> HIDE DEF NoGroupRow
    <3> QED BY <1>2, <2>1 DEF GroupEnds, ExistingGroup
  <2>3. req'[k] = Idle
    BY <1>1, <1>9, DoneMoves DEF CommitRemoval
  <2>4. /\ since[k] \cap {"outside", "turnover"} # {}
        /\ {"no members", "no rules"} \subseteq since[k]
    BY <1>1, <2>1 DEF Watched
  <2> HIDE DEF Idle
  <2> QED BY <2>2, <2>3, <2>4 DEF WasAllowed
<1>10. CASE CommitGroupUpdate(k)
  <2> DEFINE new == [p.row EXCEPT !.name = p.name, !.rev = p.row.rev + 1]
             row == Flushed(groups[p.g], p.row, new)
  <2>1. groups' = [groups EXCEPT ![p.g] = row]
    BY <1>10 DEF CommitGroupUpdate
  <2>2. p.g \in GroupIds
    BY <1>2, <2>1 DEF GroupEnds, ExistingGroup
  <2>3. DOMAIN groups[p.g] = {"st", "name", "rev", "serial"}
    BY <1>2, <2>2 DEF GroupRows
  <2>4. new.st = p.row.st
    BY <1>4 DEF GroupRows
  <2>5. row.st = groups[p.g].st
    <3> HIDE DEF new
    <3> QED BY <2>3, <2>4 DEF Flushed
  <2> HIDE DEF row
  <2> QED BY <1>5, <2>1, <2>5
<1>11. CASE CommitNewGroup(k)
  <2>1. PICK h \in GroupIds :
          /\ IsNextGroupId(h)
          /\ groups' = [groups EXCEPT ![h] =
                [st |-> "active", name |-> p.name, rev |-> 1,
                 serial |-> made + 1]]
    BY <1>11 DEF CommitNewGroup
  <2>2. groups'[h].st = "active"
    BY <1>2, <2>1
  <2>3. \A i \in GroupIds : i # h => groups'[i] = groups[i]
    BY <1>2, <2>1
  <2> QED BY <2>2, <2>3 DEF GroupEnds, ExistingGroup
<1>12. CASE NameGroup(k) \/ ShowGroup(k) \/ LoadGroup(k) \/ CheckName(k)
              \/ ReadAdministrators(k) \/ ReadMemberAdministrators(k)
              \/ CountMembers(k) \/ CountServices(k)
  <2>1. groups' = groups
    BY <1>12 DEF NameGroup, ShowGroup, LoadGroup, CheckName, ReadAdministrators,
       ReadMemberAdministrators, CountMembers, CountServices, Arrives, Reads
  <2> QED BY <2>1 DEF GroupEnds, ExistingGroup
<1> QED BY <1>7, <1>8, <1>9, <1>10, <1>11, <1>12 DEF KeepGroups

\* However many keepers there are: a group that stops granting access, or
\* goes, ends by a request whose checks each held at some moment since its
\* form was made.
THEOREM LifecycleIsChecked == Spec => LifecycleChangesWereAllowed
<1>1. Init => TInv /\ AllWatched
  BY InitTyped, InitWatched
<1>2. TInv /\ AllWatched /\ [Next]_vars => (TInv /\ AllWatched)'
  BY NextTyped, NextWatched
<1>3. ASSUME TInv, AllWatched, Next, NEW g \in GroupIds, GroupEnds(g)
      PROVE  WasAllowed(g)
  <2>1. groups' # groups
    BY <1>3 DEF GroupEnds, ExistingGroup
  <2>2. ASSUME NEW e \in Editors, EditServices(e) PROVE groups' = groups
    <3>1. e \in Slots
      BY DEF Slots
    <3> QED BY <1>3, <2>2, <3>1, EditorMoves
  <2>3. Assigners \subseteq Slots
    BY DEF Slots
  <2>4. \E k \in Keepers : KeepGroups(k)
    BY <1>3, <2>1, <2>2, <2>3, OtherMoves DEF Next, Step
  <2> QED BY <1>3, <2>4, KeeperEnds
<1>4. TInv /\ AllWatched /\ [Next]_vars =>
        [\A g \in GroupIds :
           LET goes == ExistingGroup(g) /\ ~ExistingGroup(g)' IN
           goes \/ (groups[g].st = "active" /\ groups'[g].st # "active")
             => \E k \in Keepers :
                  /\ req[k].g = g /\ req'[k] = Idle
                  /\ since[k] \cap {"outside", "turnover"} # {}
                  /\ goes => {"no members", "no rules"} \subseteq since[k]]_vars
  <2> HIDE DEF Idle, ExistingGroup
  <2> QED BY <1>3 DEF GroupEnds, WasAllowed
<1> QED BY <1>1, <1>2, <1>4, PTL DEF Spec, LifecycleChangesWereAllowed
=============================================================================

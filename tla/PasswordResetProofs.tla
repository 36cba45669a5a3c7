------------------------ MODULE PasswordResetProofs ------------------------
(***************************************************************************)
(* Theorems about PasswordReset, for every set of ids, accounts and links  *)
(* and any finite number of request slots.                                 *)
(***************************************************************************)
EXTENDS PasswordReset, FiniteSetTheorems, TLAPS

-----------------------------------------------------------------------------
(* The inductive invariant.                                                *)

\* A link keeps the id it was made for; while its row is there, the account
\* that had the id is there too.
LinkOK(l) ==
    /\ links[l].st = "unused" => links[l] = UnusedLink /\ uses[l] = 0
    /\ links[l].st # "unused" => links[l].id \in Ids
    /\ links[l].st = "row" /\ links[l].for # Nobody
         => holder[links[l].id] = links[l].for
    /\ uses[l] > 0 /\ links[l].st = "row" => "consumed" \in links[l].marks

\* What a request carries was issued, and a completion has its link's id.
RequestOK(q) ==
    /\ q.ph \in {"target", "active", "signing"} => q.id \in Ids
    /\ q.ph = "active" => \A l \in q.seen : links[l].st # "unused"
    /\ q.ph \in {"sending", "failed", "link", "owner"} => q.link \in Links
    /\ q.ph \in {"sending", "failed", "presented", "link", "owner"}
       /\ q.link # NoLink
         => links[q.link].st # "unused"
    /\ q.ph \in {"link", "owner"} => q.id = links[q.link].id

IInv ==
    /\ TypeOK
    /\ \A l \in Links : LinkOK(l)
    /\ \A r \in Requests : RequestOK(req[r])

LEMMA InitInv == Init => IInv
  BY NobodyAssumption, NoLinkAssumption
  DEF Init, IInv, TypeOK, LinkOK, RequestOK, UnusedLink, Idle, LinkRows,
      ReqRecords, Phases, Passwords, NoId

\* Adding a mark leaves the rest of the row as it was.
LEMMA MarkedRow ==
    ASSUME NEW row \in LinkRows,
           NEW m \in {"consumed", "invalidated", "expired"}
    PROVE  /\ Marked(row, m) \in LinkRows
           /\ Marked(row, m).st = row.st /\ Marked(row, m).id = row.id
           /\ Marked(row, m).for = row.for
           /\ Marked(row, m).marks = row.marks \cup {m}
  BY DEF Marked, LinkRows

\* An UPDATE of requests marks rows that are there, those it read among them.
LEMMA MarkingRows ==
    ASSUME IInv, NEW ls \in SUBSET Links,
           NEW m \in {"consumed", "invalidated", "expired"}
    PROVE  /\ Marking(ls, m) \in [Links -> LinkRows]
           /\ \A k \in Links :
                /\ links[k].st # "row" => Marking(ls, m)[k] = links[k]
                /\ Marking(ls, m)[k].st = links[k].st
                /\ Marking(ls, m)[k].id = links[k].id
                /\ Marking(ls, m)[k].for = links[k].for
                /\ links[k].marks \subseteq Marking(ls, m)[k].marks
                /\ k \in ls /\ links[k].st = "row"
                     => m \in Marking(ls, m)[k].marks
  <1>1. ASSUME NEW k \in Links
        PROVE  /\ Marking(ls, m)[k] \in LinkRows
               /\ links[k].st # "row" => Marking(ls, m)[k] = links[k]
               /\ Marking(ls, m)[k].st = links[k].st
               /\ Marking(ls, m)[k].id = links[k].id
               /\ Marking(ls, m)[k].for = links[k].for
               /\ links[k].marks \subseteq Marking(ls, m)[k].marks
               /\ k \in ls /\ links[k].st = "row"
                    => m \in Marking(ls, m)[k].marks
    <2>1. links[k] \in LinkRows
      BY DEF IInv, TypeOK
    <2>2. CASE k \in RowsFound(ls)
      <3>1. Marking(ls, m)[k] = Marked(links[k], m) /\ links[k].st = "row"
        BY <2>2 DEF Marking, RowsFound
      <3> QED
        BY <2>1, <3>1, MarkedRow
    <2>3. CASE k \notin RowsFound(ls)
      <3>1. Marking(ls, m)[k] = links[k]
        BY <2>3 DEF Marking
      <3>2. ~(k \in ls /\ links[k].st = "row")
        BY <2>3 DEF RowsFound
      <3> QED
        BY <2>1, <3>1, <3>2
    <2> QED
      BY <2>2, <2>3
  <1> QED
    BY <1>1 DEF Marking

\* A step in which no link changes its id or comes back.
LinksKeep ==
    /\ links' \in [Links -> LinkRows]
    /\ \A l \in Links :
         /\ links[l].st # "unused" =>
              links'[l].st # "unused" /\ links'[l].id = links[l].id
         /\ links'[l].st = "row" => links[l].st \in {"row", "unused"}

\* What holds of a request goes on to hold while links keep their ids.
LEMMA RequestKept ==
    ASSUME IInv, LinksKeep, NEW q \in ReqRecords, RequestOK(q)
    PROVE  RequestOK(q)'
  <1>1. \A l \in Links : links[l].st # "unused" =>
           links'[l].st # "unused" /\ links'[l].id = links[l].id
    BY DEF LinksKeep
  <1>2. q.seen \subseteq Links /\ q.link \in Links \cup {NoLink}
    BY DEF ReqRecords, Passwords
  <1>3. q.ph = "active" => \A l \in q.seen : links'[l].st # "unused"
    BY <1>1, <1>2 DEF RequestOK
  <1>4. q.ph \in {"sending", "failed", "presented", "link", "owner"}
        /\ q.link # NoLink => links'[q.link].st # "unused"
    BY <1>1, <1>2 DEF RequestOK
  <1>5. q.ph \in {"link", "owner"} => q.id = links'[q.link].id
    BY <1>1, <1>2, NoLinkAssumption DEF RequestOK
  <1> QED
    BY <1>3, <1>4, <1>5 DEF RequestOK

\* The records of the other requests stay good when links keep their ids.
LEMMA OthersOK ==
    ASSUME IInv, LinksKeep, NEW r \in Requests, NEW q \in ReqRecords,
           Becomes(r, q), RequestOK(q)'
    PROVE  /\ req' \in [Requests -> ReqRecords]
           /\ \A p \in Requests : RequestOK(req[p])'
  <1>1. req' \in [Requests -> ReqRecords]
    BY DEF IInv, TypeOK, Becomes
  <1>2. ASSUME NEW p \in Requests PROVE RequestOK(req[p])'
    <2>1. CASE p = r
      BY <2>1 DEF Becomes, IInv, TypeOK, RequestOK
    <2>2. CASE p # r
      <3>1. req'[p] = req[p] /\ req[p] \in ReqRecords /\ RequestOK(req[p])
        BY <2>2 DEF Becomes, IInv, TypeOK
      <3>2. PICK q0 \in ReqRecords : q0 = req[p]
        BY <3>1
      <3>3. RequestOK(q0)'
        BY <3>1, <3>2, RequestKept
      <3> QED
        BY <3>1, <3>2, <3>3 DEF RequestOK
    <2> QED
      BY <2>1, <2>2
  <1> QED
    BY <1>1, <1>2

LEMMA IdleOK == Idle \in ReqRecords /\ RequestOK(Idle)'
  BY DEF Idle, ReqRecords, Phases, Passwords, RequestOK

LEMMA TablesKept ==
    ASSUME IInv, UNCHANGED Tables
    PROVE  /\ LinksKeep
           /\ \A l \in Links : LinkOK(l)'
           /\ holder' = holder /\ born' = born /\ password' = password
           /\ sessions' = sessions /\ links' = links /\ uses' = uses
  BY DEF IInv, TypeOK, Tables, LinksKeep, LinkOK

-----------------------------------------------------------------------------
\* The steps that only read.
LEMMA ReadInv ==
    ASSUME IInv, NEW r \in Requests,
           \/ StartReset(r) \/ ReadActiveLinks(r) \/ PresentLink(r)
           \/ ReadLink(r) \/ ReadOwner(r) \/ CheckPassword(r) \/ Abandon(r)
    PROVE  IInv'
  <1>1. UNCHANGED Tables
    BY DEF StartReset, ReadActiveLinks, PresentLink, ReadLink, ReadOwner,
           CheckPassword, Abandon
  <1>2. req[r] \in ReqRecords /\ RequestOK(req[r])
    BY DEF IInv, TypeOK
  <1>3. \E q \in ReqRecords : Becomes(r, q) /\ RequestOK(q)'
    <2>1. CASE StartReset(r)
      <3>1. PICK u \in Ids :
              Becomes(r, [Idle EXCEPT !.ph = "target", !.id = u])
        BY <2>1 DEF StartReset
      <3> DEFINE q == [Idle EXCEPT !.ph = "target", !.id = u]
      <3>2. q \in ReqRecords /\ RequestOK(q)'
        BY DEF Idle, ReqRecords, Phases, RequestOK, Passwords
      <3> QED
        BY <3>1, <3>2
    <2>2. CASE ReadActiveLinks(r)
      <3>1. PICK q \in ReqRecords :
              q = [req[r] EXCEPT !.ph = "active",
                                 !.seen = ActiveLinks(req[r].id)]
        BY <1>2 DEF ReqRecords, Phases, ActiveLinks
      <3>2. q.ph = "active" /\ q.id \in Ids /\ q.seen = ActiveLinks(req[r].id)
        BY <1>2, <2>2, <3>1 DEF ReadActiveLinks, At, RequestOK, ReqRecords
      <3>3. \A l \in q.seen : links'[l].st # "unused"
        BY <1>1, <3>2 DEF ActiveLinks, Tables
      <3>4. RequestOK(q)'
        BY <3>2, <3>3 DEF RequestOK
      <3> QED
        BY <2>2, <3>1, <3>4 DEF ReadActiveLinks
    <2>3. CASE PresentLink(r)
      <3>1. PICK l \in {k \in Links : links[k].mailed} \cup {NoLink} :
              Becomes(r, [Idle EXCEPT !.ph = "presented", !.link = l])
        BY <2>3 DEF PresentLink
      <3> DEFINE q == [Idle EXCEPT !.ph = "presented", !.link = l]
      <3>2. q \in ReqRecords /\ q.ph = "presented" /\ q.link = l
        BY DEF Idle, ReqRecords, Phases, Passwords
      <3>3. l # NoLink => links'[l].st # "unused"
        BY <1>1 DEF IInv, LinkOK, UnusedLink, Tables
      <3> QED
        BY <3>1, <3>2, <3>3 DEF RequestOK
    <2>4. CASE ReadLink(r)
      <3>1. PICK l \in Links : l = req[r].link
        BY <1>2, <2>4 DEF ReadLink, ReqRecords, Passwords
      <3>2. links[l].st = "row" /\ links[l].id \in Ids
        BY <2>4, <3>1 DEF ReadLink, Usable, IInv, LinkOK
      <3>3. PICK q \in ReqRecords :
              q = [req[r] EXCEPT !.ph = "link", !.id = links[l].id]
        BY <1>2, <3>2 DEF ReqRecords, Phases
      <3>4. q.ph = "link" /\ q.link = l /\ q.id = links[l].id
        BY <1>2, <3>1, <3>3 DEF ReqRecords
      <3>5. RequestOK(q)'
        BY <1>1, <3>2, <3>4 DEF RequestOK, Tables
      <3> QED
        BY <2>4, <3>1, <3>3, <3>5 DEF ReadLink
    <2>5. CASE ReadOwner(r)
      <3>1. PICK q \in ReqRecords : q = [req[r] EXCEPT !.ph = "owner"]
        BY <1>2 DEF ReqRecords, Phases
      <3>2. q.ph = "owner" /\ q.link = req[r].link /\ q.id = req[r].id
        BY <1>2, <3>1 DEF ReqRecords
      <3>3. RequestOK(q)'
        BY <1>1, <1>2, <2>5, <3>2 DEF ReadOwner, At, RequestOK, Tables
      <3> QED
        BY <2>5, <3>1, <3>3 DEF ReadOwner, Goto
    <2>6. CASE CheckPassword(r)
      <3>1. PICK u \in Ids :
              Becomes(r, [Idle EXCEPT !.ph = "signing", !.id = u,
                                      !.pw = password[u]])
        BY <2>6 DEF CheckPassword
      <3>2. PICK q \in ReqRecords :
              q = [Idle EXCEPT !.ph = "signing", !.id = u, !.pw = password[u]]
        BY DEF Idle, ReqRecords, Phases, Passwords, IInv, TypeOK
      <3>3. RequestOK(q)'
        BY <3>2 DEF Idle, RequestOK
      <3> QED
        BY <3>1, <3>2, <3>3
    <2>7. CASE Abandon(r)
      BY <2>7, IdleOK DEF Abandon, Done
    <2> QED
      BY <2>1, <2>2, <2>3, <2>4, <2>5, <2>6, <2>7
  <1>4. LinksKeep /\ (\A l \in Links : LinkOK(l)')
    BY <1>1, TablesKept
  <1>5. /\ req' \in [Requests -> ReqRecords]
        /\ \A p \in Requests : RequestOK(req[p])'
    BY <1>3, <1>4, OthersOK
  <1> QED
    BY <1>1, <1>4, <1>5 DEF IInv, TypeOK, Tables

-----------------------------------------------------------------------------
(* The steps that write.                                                   *)

LEMMA InsertKeeps ==
    ASSUME IInv, NEW o \in Requests, InsertLink(o)
    PROVE  LinksKeep /\ (\A l \in Links : LinkOK(l)')
  <1>1. req[o] \in ReqRecords /\ RequestOK(req[o]) /\ req[o].id \in Ids
    BY DEF IInv, TypeOK, InsertLink, At, RequestOK
  <1> DEFINE marked == Marking(req[o].seen, "invalidated")
  <1>2. PICK new \in Links, n \in Keys :
          /\ links[new] = UnusedLink
          /\ links' = [marked EXCEPT
               ![new] = [UnusedLink EXCEPT !.st = "row", !.key = n,
                                           !.id = req[o].id,
                                           !.for = holder[req[o].id]]]
    BY DEF InsertLink
  <1>3. req[o].seen \in SUBSET Links
    BY <1>1 DEF ReqRecords
  <1>4. marked \in [Links -> LinkRows]
    BY <1>3, MarkingRows
  <1>5. links'[new] = [st |-> "row", key |-> n, id |-> req[o].id,
                       for |-> holder[req[o].id], marks |-> {},
                       mailed |-> FALSE]
    BY <1>2, <1>4 DEF UnusedLink
  <1>6. links'[new] \in LinkRows
    BY <1>1, <1>5 DEF LinkRows, IInv, TypeOK
  <1>7. ASSUME NEW l \in Links, l # new
        PROVE  /\ links'[l] \in LinkRows
               /\ links'[l].st = links[l].st /\ links'[l].id = links[l].id
               /\ links'[l].for = links[l].for
               /\ links[l].marks \subseteq links'[l].marks
               /\ links[l].st = "unused" => links'[l] = links[l]
    <2>1. links'[l] = marked[l] /\ marked[l] \in LinkRows
      BY <1>2, <1>4, <1>7
    <2>2. links[l].st # "row" => marked[l] = links[l]
      BY <1>3, MarkingRows
    <2>3. /\ marked[l].st = links[l].st /\ marked[l].id = links[l].id
          /\ marked[l].for = links[l].for
          /\ links[l].marks \subseteq marked[l].marks
      BY <1>3, MarkingRows
    <2> QED
      BY <2>1, <2>2, <2>3
  <1>8. LinksKeep
    <2>1. links' = [l \in Links |-> links'[l]]
      BY <1>2, <1>4
    <2>2. links' \in [Links -> LinkRows]
      BY <1>6, <1>7, <2>1
    <2> QED
      BY <1>2, <1>5, <1>7, <2>2 DEF LinksKeep, UnusedLink
  <1>9. ASSUME NEW l \in Links PROVE LinkOK(l)'
    <2>1. holder' = holder /\ uses' = uses /\ LinkOK(l)
      BY DEF InsertLink, IInv
    <2>2. CASE l = new
      <3>1. ~(uses[l] > 0)
        BY <1>2, <2>1, <2>2 DEF LinkOK, UnusedLink
      <3> QED
        BY <1>1, <1>5, <2>1, <2>2, <3>1 DEF LinkOK
    <2>3. CASE l # new
      BY <1>7, <2>1, <2>3 DEF LinkOK, UnusedLink
    <2> QED
      BY <2>2, <2>3
  <1> QED
    BY <1>8, <1>9

\* A step that marks or mails links and leaves their ids and owners alone.
RowsWritten ==
    /\ links' \in [Links -> LinkRows]
    /\ \A k \in Links :
         /\ links[k].st = "unused" => links'[k] = links[k]
         /\ links'[k].st = links[k].st /\ links'[k].id = links[k].id
         /\ links'[k].for = links[k].for
         /\ links[k].marks \subseteq links'[k].marks

LEMMA WritingKeeps ==
    ASSUME IInv, RowsWritten, holder' = holder,
           \A k \in Links :
             /\ links[k].st = "unused" => uses'[k] = uses[k]
             /\ uses'[k] > 0 /\ links'[k].st = "row"
                  => uses[k] > 0 \/ "consumed" \in links'[k].marks
    PROVE  LinksKeep /\ (\A k \in Links : LinkOK(k)')
  <1>1. LinksKeep
    BY DEF RowsWritten, LinksKeep, IInv, TypeOK
  <1>2. ASSUME NEW k \in Links PROVE LinkOK(k)'
    <2>1. LinkOK(k)
      BY DEF IInv
    <2> QED
      BY <2>1 DEF RowsWritten, LinkOK, UnusedLink
  <1> QED
    BY <1>1, <1>2

\* An UPDATE of requests is such a step.
LEMMA MarkingWrites ==
    ASSUME IInv, NEW l \in Links,
           NEW m \in {"consumed", "invalidated", "expired"},
           links' = Marking({l}, m)
    PROVE  RowsWritten /\ (links[l].st = "row" => m \in links'[l].marks)
  <1>1. {l} \in SUBSET Links /\ l \in {l}
    OBVIOUS
  <1> QED
    BY <1>1, MarkingRows DEF RowsWritten

LEMMA InsertInv ==
    ASSUME IInv, NEW o \in Requests, InsertLink(o) PROVE IInv'
  <1>1. LinksKeep /\ (\A l \in Links : LinkOK(l)')
    BY InsertKeeps
  <1>2. PICK new \in Links :
          /\ links'[new].st = "row"
          /\ Becomes(o, [req[o] EXCEPT !.ph = "sending", !.link = new])
    <2>1. req[o].seen \in SUBSET Links
      BY DEF IInv, TypeOK, ReqRecords
    <2>2. Marking(req[o].seen, "invalidated") \in [Links -> LinkRows]
      BY <2>1, MarkingRows
    <2>3. PICK new \in Links, n \in Keys :
            /\ links' = [Marking(req[o].seen, "invalidated") EXCEPT
                 ![new] = [UnusedLink EXCEPT !.st = "row", !.key = n,
                                             !.id = req[o].id,
                                             !.for = holder[req[o].id]]]
            /\ Becomes(o, [req[o] EXCEPT !.ph = "sending", !.link = new])
      BY DEF InsertLink
    <2>4. links'[new].st = "row"
      BY <2>2, <2>3 DEF UnusedLink
    <2> QED
      BY <2>3, <2>4
  <1>3. PICK q \in ReqRecords :
          q = [req[o] EXCEPT !.ph = "sending", !.link = new]
    BY DEF IInv, TypeOK, ReqRecords, Phases, Passwords
  <1>4. RequestOK(q)'
    <2>1. q.ph = "sending" /\ q.link = new
      BY <1>3 DEF IInv, TypeOK, ReqRecords
    <2> QED
      BY <1>2, <2>1 DEF RequestOK
  <1>5. /\ req' \in [Requests -> ReqRecords]
        /\ \A p \in Requests : RequestOK(req[p])'
    BY <1>1, <1>2, <1>3, <1>4, OthersOK
  <1> QED
    BY <1>1, <1>5 DEF IInv, TypeOK, LinksKeep, InsertLink

LEMMA SendInv ==
    ASSUME IInv, NEW o \in Requests,
           Deliver(o) \/ FailToDeliver(o) \/ Withdraw(o)
    PROVE  IInv'
  <1> DEFINE l == req[o].link
  <1>1. req[o] \in ReqRecords /\ RequestOK(req[o])
    BY DEF IInv, TypeOK
  <1>2. l \in Links /\ links[l].st # "unused" /\ links[l] \in LinkRows
    <2>1. At(o, "sending") \/ At(o, "failed")
      BY DEF Deliver, FailToDeliver, Withdraw
    <2>2. l \in Links
      BY <1>1, <2>1 DEF At, RequestOK
    <2> QED
      BY <1>1, <2>1, <2>2, NoLinkAssumption DEF At, RequestOK, IInv, TypeOK
  <1>3. UNCHANGED <<holder, born, password, sessions, uses>> /\ RowsWritten
    <2>1. CASE Withdraw(o)
      BY <1>2, <2>1, MarkingWrites DEF Withdraw
    <2>2. CASE Deliver(o) \/ FailToDeliver(o)
      <3>1. PICK out \in BOOLEAN :
              links' = [links EXCEPT ![l].mailed = out]
        BY <2>2 DEF Deliver, FailToDeliver
      <3>2. \A k \in Links : links[k] \in LinkRows
        BY DEF IInv, TypeOK
      <3>3. RowsWritten
        BY <1>2, <3>1, <3>2 DEF RowsWritten, LinkRows, IInv, TypeOK
      <3> QED
        BY <2>2, <3>3 DEF Deliver, FailToDeliver
    <2> QED
      BY <2>1, <2>2
  <1>4. LinksKeep /\ (\A k \in Links : LinkOK(k)')
    BY <1>3, WritingKeeps
  <1>5. \E q \in ReqRecords : Becomes(o, q) /\ RequestOK(q)'
    <2>1. CASE FailToDeliver(o)
      <3>1. PICK q \in ReqRecords : q = [req[o] EXCEPT !.ph = "failed"]
        BY <1>1 DEF ReqRecords, Phases
      <3>2. q.ph = "failed" /\ q.link = l
        BY <1>1, <3>1 DEF ReqRecords
      <3>3. RequestOK(q)'
        BY <1>2, <1>4, <3>2 DEF RequestOK, LinksKeep
      <3> QED
        BY <2>1, <3>1, <3>3 DEF FailToDeliver, Goto
    <2>2. CASE Deliver(o) \/ Withdraw(o)
      BY <2>2, IdleOK DEF Deliver, Withdraw, Done
    <2> QED
      BY <2>1, <2>2
  <1>6. /\ req' \in [Requests -> ReqRecords]
        /\ \A p \in Requests : RequestOK(req[p])'
    BY <1>4, <1>5, OthersOK
  <1> QED
    BY <1>3, <1>4, <1>6 DEF IInv, TypeOK, LinksKeep

LEMMA CompleteInv ==
    ASSUME IInv, NEW v \in Requests, CompleteReset(v) PROVE IInv'
  <1> DEFINE l == req[v].link  u == req[v].id
  <1>1. l \in Links /\ links[l].st # "unused"
    BY NoLinkAssumption DEF IInv, TypeOK, CompleteReset, At, RequestOK
  <1>2. /\ links' = Marking({l}, "consumed")
        /\ uses' = [uses EXCEPT ![l] = uses[l] + 1]
        /\ holder' = holder /\ born' = born
        /\ password' = [password EXCEPT ![u] = l]
        /\ sessions' \subseteq sessions
        /\ Becomes(v, Idle)
    BY DEF CompleteReset, Done, SessionsEnded
  <1>3. RowsWritten /\ (links[l].st = "row" => "consumed" \in links'[l].marks)
    BY <1>1, <1>2, MarkingWrites
  <1>4. /\ uses' \in [Links -> Nat]
        /\ \A k \in Links : k # l => uses'[k] = uses[k]
    BY <1>1, <1>2 DEF IInv, TypeOK
  <1>5. LinksKeep /\ (\A k \in Links : LinkOK(k)')
    BY <1>1, <1>3, <1>2, <1>4, WritingKeeps DEF RowsWritten
  <1>6. /\ req' \in [Requests -> ReqRecords]
        /\ \A p \in Requests : RequestOK(req[p])'
    BY <1>2, <1>5, IdleOK, OthersOK
  <1>7. password' \in [Ids -> Passwords]
    BY <1>1, <1>2 DEF IInv, TypeOK, Passwords
  <1> QED
    BY <1>2, <1>4, <1>5, <1>6, <1>7 DEF IInv, TypeOK, LinksKeep

LEMMA SessionInv ==
    ASSUME IInv, (\E v \in Requests : OpenSession(v)) \/ EndSession PROVE IInv'
  <1>1. LinksKeep /\ (\A l \in Links : LinkOK(l)')
    BY DEF OpenSession, EndSession, IInv, TypeOK, LinksKeep, LinkOK
  <1>2. CASE EndSession
    BY <1>1, <1>2 DEF EndSession, IInv, TypeOK, RequestOK
  <1>3. ASSUME NEW v \in Requests, OpenSession(v) PROVE IInv'
    <2>1. <<req[v].id, req[v].pw>> \in Ids \X Passwords
      BY <1>3 DEF IInv, TypeOK, OpenSession, At, RequestOK, ReqRecords
    <2>2. /\ req' \in [Requests -> ReqRecords]
          /\ \A p \in Requests : RequestOK(req[p])'
      BY <1>1, <1>3, IdleOK, OthersOK DEF OpenSession, Done
    <2> QED
      BY <1>1, <1>3, <2>1, <2>2 DEF OpenSession, IInv, TypeOK
  <1> QED
    BY <1>2, <1>3

LEMMA AccountInv ==
    ASSUME IInv, NEW u \in Ids, CreateAccount(u) \/ DeleteAccount(u)
    PROVE  IInv'
  <1>1. req' = req /\ uses' = uses /\ sessions' \subseteq sessions
    BY DEF CreateAccount, DeleteAccount, SessionsEnded
  <1>2. CASE CreateAccount(u)
    <2>1. /\ links' = links /\ holder[u] = Nobody
          /\ \E p \in People : holder' = [holder EXCEPT ![u] = p]
          /\ holder' \in [Ids -> People \cup {Nobody}] /\ born' \subseteq People
          /\ password' \in [Ids -> Passwords]
      BY <1>2 DEF CreateAccount, IInv, TypeOK, Passwords
    <2>2. ASSUME NEW l \in Links PROVE LinkOK(l)'
      <3>1. LinkOK(l) /\ links[l].id # u => LinkOK(l)'
        BY <1>1, <2>1 DEF LinkOK, IInv, TypeOK
      <3>2. LinkOK(l) /\ links[l].id = u => LinkOK(l)'
        BY <1>1, <2>1 DEF LinkOK
      <3> QED
        BY <3>1, <3>2 DEF IInv
    <2> QED
      BY <1>1, <2>1, <2>2 DEF IInv, TypeOK, RequestOK
  <1>3. CASE DeleteAccount(u)
    <2>1. /\ holder' = [holder EXCEPT ![u] = Nobody]
          /\ holder' \in [Ids -> People \cup {Nobody}] /\ born' = born
          /\ password' \in [Ids -> Passwords] /\ links' = LinksDeleted(u)
      BY <1>3 DEF DeleteAccount, IInv, TypeOK, Passwords
    <2>2. ASSUME NEW l \in Links
          PROVE  /\ links'[l] \in LinkRows
                 /\ links[l].id # u => links'[l] = links[l]
                 /\ links[l].id = u => links'[l].st = "deleted"
                 /\ links'[l].id = links[l].id
      <3>1. links[l] \in LinkRows
        BY DEF IInv, TypeOK
      <3>2. links'[l] = IF links[l].id = u THEN Gone(links[l]) ELSE links[l]
        BY <2>1 DEF LinksDeleted
      <3>3. CASE links[l].id = u
        BY <3>1, <3>2, <3>3 DEF LinkRows, Gone, UnusedLink
      <3>4. CASE links[l].id # u
        BY <3>1, <3>2, <3>4
      <3> QED
        BY <3>3, <3>4
    <2>3. ASSUME NEW l \in Links PROVE LinkOK(l)'
      BY <1>1, <2>1, <2>2 DEF LinkOK, IInv, TypeOK
    <2>4. LinksKeep
      <3>1. links' \in [Links -> LinkRows]
        BY <2>1, <2>2 DEF LinksDeleted
      <3> QED
        BY <2>2, <3>1 DEF LinksKeep
    <2>5. ASSUME NEW p \in Requests PROVE RequestOK(req[p])'
      <3>1. req'[p] = req[p] /\ req[p] \in ReqRecords /\ RequestOK(req[p])
        BY <1>1 DEF IInv, TypeOK
      <3>2. PICK q \in ReqRecords : q = req[p]
        BY <3>1
      <3>3. RequestOK(q)'
        BY <2>4, <3>1, <3>2, RequestKept
      <3> QED
        BY <3>1, <3>2, <3>3 DEF RequestOK
    <2> QED
      BY <1>1, <2>1, <2>3, <2>4, <2>5 DEF IInv, TypeOK, LinksKeep
  <1> QED
    BY <1>2, <1>3

LEMMA ExpireInv ==
    ASSUME IInv, NEW l \in Links, ExpireLink(l) PROVE IInv'
  <1>1. links[l] \in LinkRows /\ links[l].st = "row"
    BY DEF IInv, TypeOK, ExpireLink, Usable
  <1>2. /\ links' = [links EXCEPT ![l] = Marked(links[l], "expired")]
        /\ UNCHANGED <<holder, born, password, sessions, req, uses>>
    BY DEF ExpireLink
  <1>3. RowsWritten
    BY <1>1, <1>2, MarkedRow DEF RowsWritten, IInv, TypeOK
  <1>4. LinksKeep /\ (\A k \in Links : LinkOK(k)')
    BY <1>2, <1>3, WritingKeeps
  <1>5. ASSUME NEW p \in Requests PROVE RequestOK(req[p])'
    <2>1. req'[p] = req[p] /\ req[p] \in ReqRecords /\ RequestOK(req[p])
      BY <1>2 DEF IInv, TypeOK
    <2>2. PICK q \in ReqRecords : q = req[p]
      BY <2>1
    <2>3. RequestOK(q)'
      BY <1>4, <2>1, <2>2, RequestKept
    <2> QED
      BY <2>1, <2>2, <2>3 DEF RequestOK
  <1> QED
    BY <1>2, <1>4, <1>5 DEF IInv, TypeOK, LinksKeep

LEMMA NextInv == IInv /\ [Next]_vars => IInv'
  <1> SUFFICES ASSUME IInv, [Next]_vars PROVE IInv'
    OBVIOUS
  <1>1. CASE UNCHANGED vars
    BY <1>1 DEF vars, IInv, TypeOK, LinkOK, RequestOK, ReqRecords
  <1>2. ASSUME NEW o \in Operators, Initiate(o) PROVE IInv'
    BY <1>2, ReadInv, InsertInv, SendInv DEF Initiate, Requests
  <1>3. ASSUME NEW v \in Visitors, Complete(v) \/ SignIn(v) PROVE IInv'
    BY <1>3, ReadInv, CompleteInv, SessionInv DEF Complete, SignIn, Requests
  <1>4. ASSUME NEW r \in Requests, Abandon(r) PROVE IInv'
    BY <1>4, ReadInv
  <1>5. ASSUME NEW u \in Ids, CreateAccount(u) \/ DeleteAccount(u) PROVE IInv'
    BY <1>5, AccountInv
  <1>6. ASSUME NEW l \in Links, ExpireLink(l) PROVE IInv'
    BY <1>6, ExpireInv
  <1>7. CASE EndSession
    BY <1>7, SessionInv
  <1> QED
    BY <1>1, <1>2, <1>3, <1>4, <1>5, <1>6, <1>7 DEF Next

\* The invariant of password resets: what the links that are there and the
\* requests that carry them know of each other and of the accounts.
THEOREM Invariance == Spec => []IInv
  BY InitInv, NextInv, PTL DEF Spec

\* Accounts, sessions, links and requests keep their types.
THEOREM TypeCorrect == Spec => []TypeOK
  <1>1. IInv => TypeOK
    BY DEF IInv
  <1> QED
    BY <1>1, Invariance, PTL

\* delete_user: a link that is there was made for the account that has its
\* id, unless nobody had the id when it was inserted.
THEOREM LinksLeave == Spec => []LinksLeaveWithTheirAccount
  <1>1. IInv => LinksLeaveWithTheirAccount
    BY DEF IInv, LinkOK, LinksLeaveWithTheirAccount
  <1> QED
    BY <1>1, Invariance, PTL

\* initiate_reset and complete_reset: no concurrent write of a link's row
\* makes the table forget that the link set a password.
THEOREM UsedLinksStayConsumed == Spec => []UsedLinksAreConsumed
  <1>1. IInv => UsedLinksAreConsumed
    BY DEF IInv, LinkOK, UsedLinksAreConsumed
  <1> QED
    BY <1>1, Invariance, PTL

\* Only complete_reset counts a use, and of the link it carries.
LEMMA UsesGrow ==
    ASSUME IInv, [Next]_vars
    PROVE  \/ uses' = uses
           \/ \E v \in Visitors :
                /\ CompleteReset(v) /\ req[v].link \in Links
                /\ \A l \in Links : l # req[v].link => uses'[l] = uses[l]
                /\ uses'[req[v].link] = uses[req[v].link] + 1
  <1>1. ASSUME NEW v \in Visitors, CompleteReset(v)
        PROVE  /\ req[v].link \in Links
               /\ \A l \in Links : l # req[v].link => uses'[l] = uses[l]
               /\ uses'[req[v].link] = uses[req[v].link] + 1
    <2>1. RequestOK(req[v])
      BY DEF IInv, Requests
    <2>2. req[v].link \in Links
      BY <1>1, <2>1 DEF CompleteReset, At, RequestOK
    <2> QED
      BY <1>1, <2>2 DEF CompleteReset, IInv, TypeOK
  <1>2. CASE UNCHANGED vars
    BY <1>2 DEF vars
  <1>3. CASE Next /\ ~\E v \in Visitors : CompleteReset(v)
    <2>1. ASSUME NEW o \in Operators, Initiate(o) PROVE uses' = uses
      BY <2>1 DEF Initiate, StartReset, ReadActiveLinks, InsertLink, Deliver,
                  FailToDeliver, Withdraw, Tables
    <2>2. ASSUME NEW v \in Visitors, Complete(v) \/ SignIn(v)
          PROVE  uses' = uses
      BY <1>3, <2>2 DEF Complete, SignIn, PresentLink, ReadLink, ReadOwner,
                        CheckPassword, OpenSession, Tables
    <2> QED
      BY <1>3, <2>1, <2>2 DEF Next, Abandon, CreateAccount, DeleteAccount,
                              ExpireLink, EndSession, Tables
  <1> QED
    BY <1>1, <1>2, <1>3

\* complete_reset: no session that was opened with the old password outlives
\* the commit, for any number of sign-ins and resets.
THEOREM ResetsSignOut == Spec => ResetsEndSessions
  <1>1. IInv /\ [Next]_vars =>
          [\A x \in sessions' :
             holder' = holder /\ x[2] # password'[x[1]]
                 => x \notin sessions \/ x[2] # password[x[1]]]_vars
    <2> SUFFICES ASSUME IInv, [Next]_vars, NEW x \in sessions', holder' = holder,
                        x[2] # password'[x[1]]
                 PROVE  x \notin sessions \/ x[2] # password[x[1]]
      OBVIOUS
    <2>1. CASE password' = password
      BY <2>1
    <2>2. ASSUME NEW v \in Visitors, CompleteReset(v)
          PROVE  x \notin sessions \/ x[2] # password[x[1]]
      <3>1. x[1] # req[v].id
        BY <2>2 DEF CompleteReset, SessionsEnded
      <3>2. password'[x[1]] = password[x[1]]
        BY <2>2, <3>1 DEF CompleteReset, IInv, TypeOK
      <3> QED
        BY <3>2
    <2>3. ASSUME NEW u \in Ids, CreateAccount(u) PROVE FALSE
      <3>1. holder'[u] = holder[u] /\ holder[u] = Nobody
        BY <2>3 DEF CreateAccount
      <3>2. \E p \in People : holder'[u] = p
        BY <2>3 DEF CreateAccount, IInv, TypeOK
      <3> QED
        BY <3>1, <3>2, NobodyAssumption
    <2>4. ASSUME NEW u \in Ids, DeleteAccount(u) PROVE FALSE
      BY <2>4 DEF DeleteAccount, IInv, TypeOK
    <2>5. CASE /\ ~\E v \in Visitors : CompleteReset(v)
               /\ ~\E u \in Ids : CreateAccount(u) \/ DeleteAccount(u)
      <3>1. ASSUME NEW o \in Operators, Initiate(o) PROVE password' = password
        BY <3>1 DEF Initiate, StartReset, ReadActiveLinks, InsertLink, Deliver,
                    FailToDeliver, Withdraw, Tables
      <3>2. ASSUME NEW v \in Visitors, Complete(v) \/ SignIn(v)
            PROVE  password' = password
        BY <2>5, <3>2 DEF Complete, SignIn, PresentLink, ReadLink, ReadOwner,
                          CheckPassword, OpenSession, Tables
      <3>3. password' = password
        BY <2>5, <3>1, <3>2
        DEF Next, vars, Abandon, ExpireLink, EndSession, Tables
      <3> QED
        BY <2>1, <3>3
    <2> QED
      BY <2>2, <2>3, <2>4, <2>5
  <1> QED
    BY <1>1, Invariance, PTL DEF Spec, ResetsEndSessions

-----------------------------------------------------------------------------
(* How many links and passwords the races between a read and its write can *)
(* leave behind.                                                           *)

\* Who puts a request into the phases in which it is about to write.
LEMMA AboutToWrite ==
    ASSUME IInv, [Next]_vars, NEW r \in Requests
    PROVE  /\ req'[r].ph = "active" =>
                req'[r] = req[r] \/ (r \in Operators /\ ReadActiveLinks(r))
           /\ req'[r].ph \in {"link", "owner"} =>
                \/ req'[r] = req[r]
                \/ r \in Visitors /\ (ReadLink(r) \/ ReadOwner(r))
  <1> DEFINE OnlyWrites(x) ==
               /\ req'[x].ph = "active" => x \in Operators /\ ReadActiveLinks(x)
               /\ req'[x].ph \in {"link", "owner"} =>
                    x \in Visitors /\ (ReadLink(x) \/ ReadOwner(x))
             Others(x) == \A y \in Requests : y # x => req'[y] = req[y]
  <1>1. req \in [Requests -> ReqRecords]
    BY DEF IInv, TypeOK
  <1>2. ASSUME NEW x \in Requests, NEW q, Becomes(x, q)
        PROVE  req'[x] = q /\ Others(x)
    BY <1>1, <1>2 DEF Becomes
  <1>3. ASSUME NEW x \in Requests, NEW ph \in Phases, ph # "active",
               \E q : q.ph = ph /\ Becomes(x, q),
               ph \in {"link", "owner"} =>
                 x \in Visitors /\ (ReadLink(x) \/ ReadOwner(x))
        PROVE  OnlyWrites(x) /\ Others(x)
    BY <1>2, <1>3
  <1>4. \A x \in Requests : Done(x) => OnlyWrites(x) /\ Others(x)
    BY <1>2 DEF Done, Idle
  <1>5. ASSUME NEW o \in Operators, Initiate(o)
        PROVE  OnlyWrites(o) /\ Others(o)
    <2>1. o \in Requests /\ req[o] \in ReqRecords
      BY <1>1 DEF Requests
    <2>2. CASE StartReset(o)
      <3>1. \E q : q.ph = "target" /\ Becomes(o, q)
        BY <2>1, <2>2 DEF StartReset, Idle
      <3> QED
        BY <1>3, <2>1, <2>2, <3>1 DEF Phases
    <2>3. CASE ReadActiveLinks(o)
      <3>1. \E q : q.ph = "active" /\ Becomes(o, q)
        BY <2>1, <2>3 DEF ReadActiveLinks, ReqRecords
      <3> QED
        BY <1>2, <2>1, <2>3, <3>1
    <2>4. CASE InsertLink(o)
      <3>1. \E q : q.ph = "sending" /\ Becomes(o, q)
        BY <2>1, <2>4 DEF InsertLink, ReqRecords
      <3> QED
        BY <1>3, <2>1, <2>4, <3>1 DEF Phases
    <2>5. CASE Deliver(o) \/ Withdraw(o)
      BY <1>4, <2>1, <2>5 DEF Deliver, Withdraw
    <2>6. CASE FailToDeliver(o)
      <3>1. \E q : q.ph = "failed" /\ Becomes(o, q)
        BY <2>1, <2>6 DEF FailToDeliver, Goto, ReqRecords
      <3> QED
        BY <1>3, <2>1, <2>6, <3>1 DEF Phases
    <2> QED
      BY <1>5, <2>2, <2>3, <2>4, <2>5, <2>6 DEF Initiate
  <1>6. ASSUME NEW v \in Visitors, Complete(v) \/ SignIn(v)
        PROVE  OnlyWrites(v) /\ Others(v)
    <2>1. v \in Requests /\ req[v] \in ReqRecords
      BY <1>1 DEF Requests
    <2>2. CASE PresentLink(v)
      <3>1. \E q : q.ph = "presented" /\ Becomes(v, q)
        BY <2>1, <2>2 DEF PresentLink, Idle
      <3> QED
        BY <1>3, <2>1, <2>2, <3>1 DEF Phases
    <2>3. CASE ReadLink(v)
      <3>1. \E q : q.ph = "link" /\ Becomes(v, q)
        BY <2>1, <2>3 DEF ReadLink, ReqRecords
      <3> QED
        BY <1>3, <2>1, <2>3, <3>1 DEF Phases
    <2>4. CASE ReadOwner(v)
      <3>1. \E q : q.ph = "owner" /\ Becomes(v, q)
        BY <2>1, <2>4 DEF ReadOwner, Goto, ReqRecords
      <3> QED
        BY <1>3, <2>1, <2>4, <3>1 DEF Phases
    <2>5. CASE CheckPassword(v)
      <3>1. \E q : q.ph = "signing" /\ Becomes(v, q)
        BY <2>1, <2>5 DEF CheckPassword, Idle
      <3> QED
        BY <1>3, <2>1, <2>5, <3>1 DEF Phases
    <2>6. CASE CompleteReset(v) \/ OpenSession(v)
      BY <1>4, <2>1, <2>6 DEF CompleteReset, OpenSession
    <2> QED
      BY <1>6, <2>2, <2>3, <2>4, <2>5, <2>6 DEF Complete, SignIn
  <1>7. ASSUME NEW x \in Requests, Abandon(x) PROVE OnlyWrites(x) /\ Others(x)
    BY <1>4, <1>7 DEF Abandon
  <1>8. \/ req' = req
        \/ \E x \in Requests : OnlyWrites(x) /\ Others(x)
    BY <1>5, <1>6, <1>7
    DEF Next, vars, CreateAccount, DeleteAccount, ExpireLink, EndSession,
        Requests
  <1>9. ASSUME NEW x \in Requests, OnlyWrites(x), Others(x)
        PROVE  req'[r] = req[r] \/ OnlyWrites(r)
    BY <1>9
  <1>10. req'[r] = req[r] \/ OnlyWrites(r)
    BY <1>8, <1>9
  <1> QED
    BY <1>10

\* Only initiate_reset makes a link usable.
LEMMA UsableStays ==
    ASSUME IInv, [Next]_vars, ~\E o \in Operators : InsertLink(o),
           NEW l \in Links, Usable(l)'
    PROVE  Usable(l) /\ links'[l].id = links[l].id
  <1> DEFINE Kept == Usable(l) /\ links'[l].id = links[l].id
  <1>1. links \in [Links -> LinkRows] /\ links[l] \in LinkRows
    BY DEF IInv, TypeOK
  <1>2. ASSUME RowsWritten PROVE Kept
    BY <1>1, <1>2 DEF RowsWritten, Usable, LinkRows
  <1>3. ASSUME links' = links PROVE Kept
    BY <1>3 DEF Usable
  <1>4. ASSUME NEW r \in Requests, RequestOK(req[r]),
               Withdraw(r) \/ CompleteReset(r)
        PROVE  Kept
    <2>1. req[r].link \in Links
      BY <1>4 DEF Withdraw, CompleteReset, At, RequestOK
    <2>2. RowsWritten
      BY <1>4, <2>1, MarkingWrites DEF Withdraw, CompleteReset
    <2> QED
      BY <1>2, <2>2
  <1>5. ASSUME NEW k \in Links, ExpireLink(k) PROVE Kept
    <2>1. links' = [links EXCEPT ![k] = Marked(links[k], "expired")]
      BY <1>5 DEF ExpireLink
    <2> QED
      BY <1>1, <2>1 DEF Usable, Marked, LinkRows
  <1>6. ASSUME NEW r \in Requests, Deliver(r) \/ FailToDeliver(r) PROVE Kept
    <2>1. PICK out : links' = [links EXCEPT ![req[r].link].mailed = out]
      BY <1>6 DEF Deliver, FailToDeliver
    <2> QED
      BY <1>1, <2>1 DEF Usable, LinkRows
  <1>7. ASSUME NEW u \in Ids, DeleteAccount(u) PROVE Kept
    BY <1>1, <1>7
    DEF DeleteAccount, LinksDeleted, Gone, UnusedLink, Usable, LinkRows
  <1>8. \A r \in Requests : RequestOK(req[r])
    BY DEF IInv
  <1>9. ASSUME NEW o \in Operators, Initiate(o) PROVE Kept
    BY <1>3, <1>4, <1>6, <1>8, <1>9
    DEF Initiate, StartReset, ReadActiveLinks, Tables, Requests
  <1>10. ASSUME NEW v \in Visitors, Complete(v) \/ SignIn(v) PROVE Kept
    BY <1>3, <1>4, <1>8, <1>10
    DEF Complete, SignIn, PresentLink, ReadLink, ReadOwner, CheckPassword,
        OpenSession, Tables, Requests
  <1>11. CASE \/ EndSession \/ UNCHANGED vars
              \/ \E r \in Requests : Abandon(r)
              \/ \E u \in Ids : CreateAccount(u)
    BY <1>3, <1>11 DEF EndSession, vars, Abandon, Tables, CreateAccount
  <1> QED
    BY <1>5, <1>7, <1>9, <1>10, <1>11 DEF Next

\* The resets of account u that have read its links and not yet written.
Waiting(u) == {o \in Operators : At(o, "active") /\ req[o].id = u}

\* The usable links of u that none of the resets X has seen.
Unseen(u, X) == {l \in UsableLinks(u) : \A o \in X : l \notin req[o].seen}

\* Whichever resets have read, the links that none of them will supersede
\* were left by the others.  This, for no reset at all, is the bound.
ResetsInv ==
    \A u \in Ids : \A X \in SUBSET Waiting(u) :
        /\ IsFiniteSet(Unseen(u, X))
        /\ Cardinality(Unseen(u, X)) + Cardinality(X) <= Cardinality(Operators)

\* Fewer unseen links by no more resets.
LEMMA StillBounded ==
    ASSUME NEW u \in Ids, NEW X \in SUBSET Waiting(u), ResetsInv,
           NEW S \in SUBSET Unseen(u, X)
    PROVE  /\ IsFiniteSet(S)
           /\ Cardinality(S) + Cardinality(X) <= Cardinality(Operators)
<1>1. /\ IsFiniteSet(Unseen(u, X))
      /\ Cardinality(Unseen(u, X)) + Cardinality(X) <= Cardinality(Operators)
  BY DEF ResetsInv
<1>2. X \in SUBSET Operators
  BY DEF Waiting
<1>3. /\ Cardinality(X) \in Nat /\ Cardinality(Operators) \in Nat
      /\ Cardinality(Unseen(u, X)) \in Nat
  BY <1>1, <1>2, SlotsAssumption, FS_Subset, FS_CardinalityType
<1>4. /\ IsFiniteSet(S) /\ Cardinality(S) \in Nat
      /\ Cardinality(S) <= Cardinality(Unseen(u, X))
  BY <1>1, FS_Subset, FS_CardinalityType
<1> QED
  BY <1>1, <1>3, <1>4

LEMMA ResetsInit == Init => ResetsInv
<1> SUFFICES ASSUME Init, NEW u \in Ids, NEW X \in SUBSET Waiting(u)
             PROVE  /\ IsFiniteSet(Unseen(u, X))
                    /\ Cardinality(Unseen(u, X)) + Cardinality(X)
                         <= Cardinality(Operators)
  BY DEF ResetsInv
<1>1. Unseen(u, X) = {} /\ X = {}
  BY DEF Init, Unseen, UsableLinks, Usable, UnusedLink, Waiting, At, Idle, Requests
<1> QED
  BY <1>1, FS_EmptySet, FS_CardinalityType, SlotsAssumption

\* Reading and everything that makes no link usable.
LEMMA ResetsReadStep ==
    ASSUME IInv, ResetsInv, [Next]_vars, ~\E o \in Operators : InsertLink(o)
    PROVE  ResetsInv'
<1> SUFFICES ASSUME NEW u \in Ids, NEW X \in SUBSET Waiting(u)'
             PROVE  /\ IsFiniteSet(Unseen(u, X)')
                    /\ Cardinality(Unseen(u, X)') + Cardinality(X)
                         <= Cardinality(Operators)
  BY DEF ResetsInv
<1>1. /\ req \in [Requests -> ReqRecords] /\ X \subseteq Operators
      /\ \A o \in Operators : o \in Requests /\ req[o] \in ReqRecords
  BY DEF IInv, TypeOK, Requests, Waiting
<1>2. \A l \in UsableLinks(u)' : l \in UsableLinks(u)
  BY UsableStays DEF UsableLinks
<1>3. CASE \E o \in X : ReadActiveLinks(o)
  <2>1. PICK o \in X : ReadActiveLinks(o)
    BY <1>3
  <2>2. /\ req'[o].seen = ActiveLinks(req[o].id) /\ req'[o].id = req[o].id
        /\ req'[o].id = u
    BY <1>1, <2>1 DEF ReadActiveLinks, Becomes, ReqRecords, Waiting
  <2>3. \A l \in UsableLinks(u) : l \in ActiveLinks(u)
    BY DEF UsableLinks, Usable, ActiveLinks
  <2>4. Unseen(u, X)' = {}
    BY <1>2, <2>1, <2>2, <2>3 DEF Unseen
  <2>5. Cardinality(X) <= Cardinality(Operators) /\ Cardinality(X) \in Nat
    BY <1>1, SlotsAssumption, FS_Subset, FS_CardinalityType
  <2> QED
    BY <2>4, <2>5, FS_EmptySet
<1>4. CASE ~\E o \in X : ReadActiveLinks(o)
  <2>1. \A o \in X : req'[o] = req[o]
    BY <1>1, <1>4, AboutToWrite DEF Waiting, At
  <2>2. X \in SUBSET Waiting(u)
    BY <2>1 DEF Waiting, At
  <2>3. Unseen(u, X)' \subseteq Unseen(u, X)
    BY <1>2, <2>1 DEF Unseen
  <2> QED
    BY <2>2, <2>3, StillBounded
<1> QED
  BY <1>3, <1>4

\* The reset that writes leaves the resets that wait, and one link more.
LEMMA ResetsWriteStep ==
    ASSUME IInv, ResetsInv, NEW o \in Operators, InsertLink(o)
    PROVE  ResetsInv'
<1> SUFFICES ASSUME NEW u \in Ids, NEW X \in SUBSET Waiting(u)'
             PROVE  /\ IsFiniteSet(Unseen(u, X)')
                    /\ Cardinality(Unseen(u, X)') + Cardinality(X)
                         <= Cardinality(Operators)
  BY DEF ResetsInv
<1>1. /\ o \in Requests /\ req[o] \in ReqRecords
      /\ req \in [Requests -> ReqRecords]
      /\ links \in [Links -> LinkRows] /\ At(o, "active")
      /\ X \subseteq Operators
  BY DEF IInv, TypeOK, Requests, InsertLink, Waiting
<1> DEFINE marked == Marking(req[o].seen, "invalidated")
<1>2. PICK new \in Links, n \in Keys :
        /\ links' = [marked EXCEPT
             ![new] = [UnusedLink EXCEPT !.st = "row", !.key = n,
                                         !.id = req[o].id,
                                         !.for = holder[req[o].id]]]
        /\ Becomes(o, [req[o] EXCEPT !.ph = "sending", !.link = new])
  BY DEF InsertLink
<1>3. req[o].seen \in SUBSET Links
  BY <1>1 DEF ReqRecords
<1>4. marked \in [Links -> LinkRows]
  BY <1>3, MarkingRows
<1>5. links'[new].id = req[o].id
  BY <1>2, <1>4 DEF UnusedLink
<1>6. ASSUME NEW l \in Links, l # new, Usable(l)'
      PROVE  Usable(l) /\ links'[l].id = links[l].id /\ l \notin req[o].seen
  <2>1. links'[l] = marked[l]
    BY <1>2, <1>4, <1>6
  <2>2. /\ marked[l].st = links[l].st /\ marked[l].id = links[l].id
        /\ links[l].marks \subseteq marked[l].marks
        /\ l \in req[o].seen /\ links[l].st = "row"
             => "invalidated" \in marked[l].marks
    BY <1>3, MarkingRows
  <2> QED
    BY <1>6, <2>1, <2>2 DEF Usable
<1>7. req'[o].ph = "sending" /\ \A p \in Operators : p # o => req'[p] = req[p]
  BY <1>1, <1>2 DEF Becomes, ReqRecords, Requests
<1>8. o \notin X /\ (\A p \in X : req'[p] = req[p]) /\ X \in SUBSET Waiting(u)
  BY <1>1, <1>7 DEF Waiting, At
<1>9. CASE u # req[o].id
  <2>1. Unseen(u, X)' \subseteq Unseen(u, X)
    BY <1>5, <1>6, <1>8, <1>9 DEF Unseen, UsableLinks
  <2> QED
    BY <1>8, <2>1, StillBounded
<1>10. CASE u = req[o].id
  <2> DEFINE Y == X \cup {o}  S == Unseen(u, X)' \ {new}
  <2>1. Y \in SUBSET Waiting(u)
    BY <1>1, <1>8, <1>10 DEF Waiting
  <2>2. S \in SUBSET Unseen(u, Y)
    BY <1>6, <1>8 DEF Unseen, UsableLinks
  <2> HIDE DEF S, Y
  <2>3. IsFiniteSet(S) /\ Cardinality(S) + Cardinality(Y) <= Cardinality(Operators)
    BY <2>1, <2>2, StillBounded
  <2>4. IsFiniteSet(X) /\ Cardinality(X) \in Nat
    BY <1>1, SlotsAssumption, FS_Subset, FS_CardinalityType
  <2>5. Cardinality(Y) = Cardinality(X) + 1
    BY <1>8, <2>4, FS_AddElement DEF Y
  <2>6. Cardinality(S) \in Nat /\ Cardinality(Operators) \in Nat
    BY <2>3, SlotsAssumption, FS_CardinalityType
  <2>7. /\ IsFiniteSet(S \cup {new})
        /\ Cardinality(S \cup {new}) <= Cardinality(S) + 1
    BY <2>3, <2>6, FS_AddElement
  <2>8. Unseen(u, X)' \in SUBSET (S \cup {new})
    BY DEF S
  <2>9. /\ IsFiniteSet(Unseen(u, X)')
        /\ Cardinality(Unseen(u, X)') <= Cardinality(S \cup {new})
        /\ Cardinality(Unseen(u, X)') \in Nat
        /\ Cardinality(S \cup {new}) \in Nat
    BY <2>7, <2>8, FS_Subset, FS_CardinalityType
  <2> QED
    BY <2>3, <2>4, <2>5, <2>6, <2>7, <2>9
<1> QED
  BY <1>9, <1>10

\* initiate_reset: an account has never more usable links than resets can run
\* at once; where administrators take turns, it has one.
THEOREM ResetsLeaveOneLinkEach == Spec => []NoMoreLinksThanResetsAtOnce
<1>1. IInv /\ ResetsInv /\ [Next]_vars => ResetsInv'
  BY ResetsReadStep, ResetsWriteStep
<1>2. ResetsInv => NoMoreLinksThanResetsAtOnce
  <2> SUFFICES ASSUME ResetsInv, NEW u \in Ids
               PROVE  Cardinality(UsableLinks(u)) <= Cardinality(Operators)
    BY DEF NoMoreLinksThanResetsAtOnce
  <2>1. Unseen(u, {}) = UsableLinks(u)
    BY DEF Unseen
  <2>2. Cardinality(Unseen(u, {})) + Cardinality({}) <= Cardinality(Operators)
    BY DEF ResetsInv
  <2>3. IsFiniteSet(Unseen(u, {}))
    BY DEF ResetsInv
  <2> QED
    BY <2>1, <2>2, <2>3, FS_EmptySet, FS_CardinalityType
<1> QED
  BY <1>1, <1>2, ResetsInit, Invariance, PTL DEF Spec

-----------------------------------------------------------------------------
LEMMA RacersAreVisitors ==
    ASSUME NEW l \in Links
    PROVE  /\ Racing(l) \subseteq Visitors /\ IsFiniteSet(Racing(l))
           /\ Cardinality(Racing(l)) \in Nat /\ Cardinality(Visitors) \in Nat
<1>1. Racing(l) \in SUBSET Visitors
  BY DEF Racing
<1> QED
  BY <1>1, SlotsAssumption, FS_Subset, FS_CardinalityType

\* Nobody joins the race for a link that has set a password.
LEMMA RaceIsClosed ==
    ASSUME IInv, [Next]_vars, NEW l \in Links, uses[l] > 0
    PROVE  Racing(l)' \subseteq Racing(l)
<1>1. /\ req \in [Requests -> ReqRecords]
      /\ \A v \in Visitors : v \in Requests /\ req[v] \in ReqRecords
  BY DEF IInv, TypeOK, Requests
<1>2. ASSUME NEW v \in Racing(l)' PROVE v \in Racing(l)
  <2>1. v \in Visitors /\ req'[v].ph \in {"link", "owner"} /\ req'[v].link = l
    BY <1>2 DEF Racing, At
  <2>2. CASE req'[v] = req[v]
    BY <2>1, <2>2 DEF Racing, At
  <2>3. CASE ReadOwner(v)
    <3>1. req'[v].link = req[v].link /\ req[v].ph = "link"
      BY <1>1, <2>1, <2>3 DEF ReadOwner, Goto, Becomes, At, ReqRecords
    <3> QED
      BY <2>1, <3>1 DEF Racing, At
  <2>4. CASE ReadLink(v)
    <3>1. req'[v].link = req[v].link /\ Usable(req[v].link)
      BY <1>1, <2>1, <2>4 DEF ReadLink, Becomes, ReqRecords
    <3> QED
      BY <2>1, <3>1 DEF IInv, LinkOK, Usable
  <2> QED
    BY <1>1, <2>1, <2>2, <2>3, <2>4, AboutToWrite
<1> QED
  BY <1>2

LEMMA RaceStep ==
    ASSUME IInv, NoMorePasswordsThanRacers, [Next]_vars, NEW l \in Links,
           uses'[l] > 0
    PROVE  uses'[l] + Cardinality(Racing(l)') <= Cardinality(Visitors)
<1>1. /\ req \in [Requests -> ReqRecords] /\ uses[l] \in Nat
      /\ \A v \in Visitors : v \in Requests /\ req[v] \in ReqRecords
  BY DEF IInv, TypeOK, Requests
<1>2. /\ Racing(l)' \in SUBSET Visitors
      /\ Cardinality(Racing(l)') \in Nat
  <2>1. Racing(l)' \in SUBSET Visitors
    BY DEF Racing
  <2> QED
    BY <2>1, SlotsAssumption, FS_Subset, FS_CardinalityType
<1>3. CASE uses'[l] = uses[l]
  <2>1. Racing(l)' \in SUBSET Racing(l)
    BY <1>3, RaceIsClosed
  <2>2. Cardinality(Racing(l)') <= Cardinality(Racing(l))
    BY <2>1, RacersAreVisitors, FS_Subset
  <2>3. uses[l] + Cardinality(Racing(l)) <= Cardinality(Visitors)
    BY <1>3 DEF NoMorePasswordsThanRacers
  <2> QED
    BY <1>1, <1>2, <1>3, <2>2, <2>3, RacersAreVisitors
<1>4. ASSUME NEW v \in Visitors, CompleteReset(v), req[v].link = l,
             uses'[l] = uses[l] + 1
      PROVE  uses'[l] + Cardinality(Racing(l)') <= Cardinality(Visitors)
  <2>1. v \in Racing(l)
    BY <1>4 DEF Racing, CompleteReset
  <2>2. req'[v].ph = "idle" /\ \A w \in Visitors : w # v => req'[w] = req[w]
    BY <1>1, <1>4 DEF CompleteReset, Done, Becomes, Idle
  <2>3. Racing(l)' \in SUBSET (Racing(l) \ {v})
    BY <2>2 DEF Racing, At
  <2>4. /\ IsFiniteSet(Racing(l) \ {v})
        /\ Cardinality(Racing(l) \ {v}) = Cardinality(Racing(l)) - 1
    BY <2>1, RacersAreVisitors, FS_RemoveElement
  <2>5. Cardinality(Racing(l)') <= Cardinality(Racing(l)) - 1
    BY <2>3, <2>4, FS_Subset
  <2>6. Cardinality(Racing(l)) <= Cardinality(Visitors)
    BY RacersAreVisitors, SlotsAssumption, FS_Subset
  <2>7. uses[l] > 0 => uses[l] + Cardinality(Racing(l)) <= Cardinality(Visitors)
    BY DEF NoMorePasswordsThanRacers
  <2> QED
    BY <1>1, <1>2, <1>4, <2>5, <2>6, <2>7, RacersAreVisitors
<1> QED
  BY <1>3, <1>4, UsesGrow

\* complete_reset: a link sets no more passwords than completions can race for
\* it; where visitors take turns, it sets one, whatever the administrators
\* and removals do to its row.
THEOREM RacersAloneUseALinkAgain == Spec => []NoMorePasswordsThanRacers
<1>1. Init => NoMorePasswordsThanRacers
  BY DEF Init, NoMorePasswordsThanRacers
<1>2. IInv /\ NoMorePasswordsThanRacers /\ [Next]_vars
        => NoMorePasswordsThanRacers'
  BY RaceStep DEF NoMorePasswordsThanRacers
<1> QED
  BY <1>1, <1>2, Invariance, PTL DEF Spec
=============================================================================

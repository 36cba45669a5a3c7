------------------------- MODULE InstallationProofs -------------------------
(* An installation gets one first administrator, setup is over for good, and *)
(* the keys a backfill leaves behind are those of the names.                 *)
EXTENDS Installation, FiniteSetTheorems, TLAPS

Accounts == Used(db.rows["users"])

\* What process p knows of the database at its place in the program.
Sound(p) ==
    LET q == proc[p] IN
    /\ q.ph \in {"check", "insert"} => writer = p
    /\ q.ph = "insert" => Accounts = {}
    /\ q.ph = "write" => /\ Order[q.at] \in Keyed
                         /\ Used(q.rows) \subseteq Used(db.rows[Order[q.at]])
    /\ q.ph \in {"read_count", "write_state"} =>
         /\ q.state # "none" => db.inst # "none"
         /\ q.state = "initialized" => db.inst = "initialized"
    /\ q.ph = "write_state" /\ q.count = 0 =>
         Accounts = {} \/ db.inst = "initialized"
    /\ q.ph \in Ready =>
         /\ db.inst # "none"
         /\ db.inst = "needs_bootstrap" => Accounts = {}

FirstIsThere == firsts # 0 => Accounts # {}

IInv == TypeOK /\ (\A p \in Procs : Sound(p)) /\ FirstIsThere

\* What a step of process p leaves alone: the others, what is written under
\* the lock of another process, the rows that are there, and the mark of an
\* installation with accounts.
Effect(p) ==
    /\ db' \in Databases
    /\ \A q \in Procs \ {p} :
         /\ proc'[q] = proc[q]
         /\ writer = q => writer' = q /\ db' = db
    /\ \A t \in Keyed : Used(db.rows[t]) \subseteq Used(db'.rows[t])
    /\ Used(db'.rows["users"]) = Accounts \/ db'.inst = "initialized"
    /\ \/ db'.inst \in {db.inst, "initialized"}
       \/ db.inst = "none" /\ db'.inst = "needs_bootstrap"

Preserves(p) ==
    proc' \in [Procs -> ProcRecords] /\ Effect(p) /\ Sound(p)'

-----------------------------------------------------------------------------
(* Rows, records and effects.                                              *)

LEMMA UsersAreCounted ==
    ASSUME db \in Databases
    PROVE  Users \in 0..MaxRows /\ (Users = 0 <=> Accounts = {})
<1>1. Accounts \subseteq 1..MaxRows
  BY InstallationAssumption DEF Accounts, Used, Databases, RowSets
<1>2. IsFiniteSet(1..MaxRows) /\ Cardinality(1..MaxRows) = MaxRows
  BY InstallationAssumption, FS_Interval
<1>3. IsFiniteSet(Accounts) /\ Cardinality(Accounts) <= MaxRows
  BY <1>1, <1>2, FS_Subset
<1>4. Cardinality(Accounts) \in Nat /\ (Cardinality(Accounts) = 0 <=> Accounts = {})
  BY <1>3, FS_CardinalityType, FS_EmptySet
<1> QED BY <1>3, <1>4, InstallationAssumption DEF Users, Accounts

LEMMA OrderIsThere ==
    /\ Len(Order) \in Nat /\ DOMAIN Order = 1..Len(Order) /\ 1 \in DOMAIN Order
    /\ \A i \in DOMAIN Order : Order[i] \in Tables
<1>1. PICK i \in DOMAIN Order : Order[i] = "users"
  BY InstallationAssumption DEF Tables
<1> QED BY <1>1, InstallationAssumption DEF Tables

LEMMA OffIsTyped ==
    /\ Off \in ProcRecords /\ NothingRead \in RowSets
    /\ Off.ph = "off" /\ "off" \notin Ready
<1>1. NothingRead \in RowSets
  BY DEF NothingRead, RowSets, RowRecords
<1>2. 1 \in DOMAIN Order /\ 0 \in 0..MaxRows
  BY OrderIsThere, InstallationAssumption
<1> QED BY <1>1, <1>2 DEF Off, ProcRecords, Commands, InstallationStates, Ready

LEMMA RecordChanges ==
    ASSUME TypeOK, NEW p \in Procs, NEW q \in ProcRecords, Becomes(p, q)
    PROVE  /\ proc' \in [Procs -> ProcRecords] /\ proc'[p] = q
           /\ \A o \in Procs \ {p} : proc'[o] = proc[o]
BY DEF TypeOK, Becomes

\* Whoever may write meets no lock of another process.
LEMMA NobodyElseWrites ==
    ASSUME NEW p \in Procs, MayWrite(p), NEW q \in Procs \ {p}
    PROVE  writer # q
BY InstallationAssumption DEF MayWrite

LEMMA ReleasedKeepsOthers ==
    ASSUME NEW p \in Procs, NEW q \in Procs \ {p}, writer = q
    PROVE  Released(p) = q
BY DEF Released


LEMMA QuietEffect ==
    ASSUME TypeOK, NEW p \in Procs, db' = db,
           \A o \in Procs \ {p} :
              proc'[o] = proc[o] /\ (writer = o => writer' = o)
    PROVE  Effect(p)
BY DEF Effect, TypeOK, Accounts

LEMMA InertIsSound ==
    ASSUME NEW p \in Procs,
           proc'[p].ph \notin Ready \cup {"write", "read_count", "write_state"}
    PROVE  Sound(p)'
BY DEF Sound, Ready

\* A step that writes nothing and goes to a place where nothing is known.
LEMMA InertStep ==
    ASSUME TypeOK, NEW p \in Procs, NEW q \in ProcRecords, Becomes(p, q),
           db' = db, \A o \in Procs \ {p} : writer = o => writer' = o,
           q.ph \notin Ready \cup {"write", "read_count", "write_state"}
    PROVE  Preserves(p)
<1>1. /\ proc' \in [Procs -> ProcRecords] /\ proc'[p] = q
      /\ \A o \in Procs \ {p} : proc'[o] = proc[o]
  BY RecordChanges
<1>2. Effect(p)
  BY <1>1, QuietEffect
<1>3. Sound(p)'
  BY <1>1, InertIsSound
<1> QED BY <1>1, <1>2, <1>3 DEF Preserves

LEMMA NextTableIsTyped ==
    ASSUME NEW q \in ProcRecords, NEW again \in {"inspect", "read"},
           NEW done \in {"read", "list"}
    PROVE  /\ NextTable(q, q.at, again, done) \in ProcRecords
           /\ NextTable(q, q.at, again, done).ph \in {"inspect", "read", "list"}
<1>1. /\ 1 \in DOMAIN Order
      /\ q.at < Len(Order) => q.at + 1 \in DOMAIN Order
  <2>1. q.at \in DOMAIN Order
    BY DEF ProcRecords
  <2> QED BY <2>1, OrderIsThere
<1>2. \A at \in DOMAIN Order : \A ph \in {again, done} :
         [q EXCEPT !.ph = ph, !.at = at] \in ProcRecords
  BY DEF ProcRecords
<1>3. CASE q.at < Len(Order)
  <2>1. NextTable(q, q.at, again, done) = [q EXCEPT !.ph = again, !.at = q.at + 1]
    BY <1>3 DEF NextTable
  <2>2. [q EXCEPT !.ph = again, !.at = q.at + 1].ph = again
    BY DEF ProcRecords
  <2> QED BY <1>1, <1>2, <1>3, <2>1, <2>2
<1>4. CASE ~(q.at < Len(Order))
  <2>1. NextTable(q, q.at, again, done) = [q EXCEPT !.ph = done, !.at = 1]
    BY <1>4 DEF NextTable
  <2>2. [q EXCEPT !.ph = done, !.at = 1].ph = done
    BY DEF ProcRecords
  <2> QED BY <1>1, <1>2, <2>1, <2>2
<1> QED BY <1>3, <1>4

LEMMA StopIsInert ==
    ASSUME TypeOK, NEW p \in Procs, Becomes(p, Off), db' = db,
           \A o \in Procs \ {p} : writer = o => writer' = o
    PROVE  Preserves(p)
BY InertStep, OffIsTyped

-----------------------------------------------------------------------------
(* Steps that write nothing.                                               *)

LEMMA StartPreserves ==
    ASSUME TypeOK, NEW p \in Procs, Start(p) PROVE Preserves(p)
<1>1. PICK cmd \in Commands :
         Becomes(p, [Off EXCEPT !.ph = "inspect", !.cmd = cmd])
  BY DEF Start
<1>2. [Off EXCEPT !.ph = "inspect", !.cmd = cmd] \in ProcRecords
  BY OffIsTyped DEF ProcRecords
<1>3. [Off EXCEPT !.ph = "inspect", !.cmd = cmd].ph = "inspect"
  BY DEF Off
<1>4. db' = db /\ writer' = writer
  BY DEF Start, OnlyProc
<1> QED BY <1>1, <1>2, <1>3, <1>4, InertStep DEF Ready

LEMMA InspectPreserves ==
    ASSUME TypeOK, NEW p \in Procs, Inspect(p) PROVE Preserves(p)
<1> DEFINE q == proc[p]
           lacks == MissingColumns(Order[q.at])
<1>1. db' = db /\ writer' = writer /\ q \in ProcRecords
  BY DEF Inspect, OnlyProc, TypeOK
<1>2. CASE lacks = {}
  <2>1. Becomes(p, NextTable(q, q.at, "inspect", "read"))
    BY <1>2 DEF Inspect
  <2> QED BY <1>1, <2>1, NextTableIsTyped, InertStep DEF Ready
<1>3. CASE lacks # {}
  <2>1. Becomes(p, [q EXCEPT !.ph = "alter", !.todo = lacks])
    BY <1>3 DEF Inspect
  <2>2. q.at \in DOMAIN Order
    BY <1>1 DEF ProcRecords
  <2>3. Order[q.at] \in Tables
    BY <2>2, OrderIsThere
  <2>4. lacks \subseteq UNION {Columns[t] : t \in Tables}
    BY <2>3 DEF MissingColumns, TypeOK, Databases
  <2>5. [q EXCEPT !.ph = "alter", !.todo = lacks] \in ProcRecords
    BY <1>1, <2>4 DEF ProcRecords
  <2>6. [q EXCEPT !.ph = "alter", !.todo = lacks].ph = "alter"
    BY <1>1 DEF ProcRecords
  <2> QED BY <1>1, <2>1, <2>5, <2>6, InertStep DEF Ready
<1> QED BY <1>2, <1>3

LEMMA ReadRowsPreserves ==
    ASSUME TypeOK, NEW p \in Procs, ReadRows(p) PROVE Preserves(p)
<1> DEFINE q == proc[p]
           t == Order[q.at]
           new == [q EXCEPT !.ph = "write", !.rows = db.rows[t]]
<1>1. db' = db /\ writer' = writer /\ q \in ProcRecords
  BY DEF ReadRows, OnlyProc, TypeOK
<1>2. CASE ~HasKeys(t)
  <2>1. Becomes(p, NextTable(q, q.at, "read", "list"))
    BY <1>2 DEF ReadRows
  <2> QED BY <1>1, <2>1, NextTableIsTyped, InertStep DEF Ready
<1>3. CASE HasKeys(t)
  <2>1. Becomes(p, new) /\ t \in Keyed
    BY <1>3 DEF ReadRows, HasKeys
  <2>2. db.rows[t] \in RowSets
    BY <2>1 DEF TypeOK, Databases
  <2>3. new \in ProcRecords
    BY <1>1, <2>2 DEF ProcRecords
  <2>4. new.ph = "write" /\ new.at = q.at /\ new.rows = db.rows[t]
    BY <1>1 DEF ProcRecords
  <2>5. /\ proc' \in [Procs -> ProcRecords] /\ proc'[p] = new
        /\ \A o \in Procs \ {p} : proc'[o] = proc[o]
    BY <2>1, <2>3, RecordChanges
  <2>6. Effect(p)
    BY <1>1, <2>5, QuietEffect
  <2>7. Sound(p)'
    BY <1>1, <2>1, <2>4, <2>5 DEF Sound, Ready
  <2> QED BY <2>5, <2>6, <2>7 DEF Preserves
<1> QED BY <1>2, <1>3

LEMMA ListTablesPreserves ==
    ASSUME TypeOK, NEW p \in Procs, ListTables(p) PROVE Preserves(p)
<1> DEFINE q == proc[p]
           absent == {t \in AllTables : ~db.exists[t]}
           ph == IF absent = {} THEN "read_state" ELSE "create"
           new == [q EXCEPT !.todo = absent, !.ph = ph]
<1>1. db' = db /\ writer' = writer /\ q \in ProcRecords /\ Becomes(p, new)
  BY DEF ListTables, OnlyProc, TypeOK
<1>2. absent \subseteq AllTables /\ ph \in {"read_state", "create"}
  OBVIOUS
<1> HIDE DEF absent, ph
<1>3. new \in ProcRecords /\ new.ph = ph
  BY <1>1, <1>2 DEF ProcRecords
<1> QED BY <1>1, <1>2, <1>3, InertStep DEF Ready

\* A step that writes nothing, to a place where something is known.
LEMMA KnowingStep ==
    ASSUME TypeOK, NEW p \in Procs, NEW q \in ProcRecords, Becomes(p, q),
           db' = db, \A o \in Procs \ {p} : writer = o => writer' = o
    PROVE  /\ proc'[p] = q
           /\ Sound(p)' => Preserves(p)
<1>1. /\ proc' \in [Procs -> ProcRecords] /\ proc'[p] = q
      /\ \A o \in Procs \ {p} : proc'[o] = proc[o]
  BY RecordChanges
<1>2. Effect(p)
  BY <1>1, QuietEffect
<1> QED BY <1>1, <1>2 DEF Preserves

LEMMA ReadStatePreserves ==
    ASSUME IInv, NEW p \in Procs, ReadState(p) PROVE Preserves(p)
<1> DEFINE q == proc[p]
           new == [q EXCEPT !.ph = "read_count", !.state = db.inst]
<1>1. /\ TypeOK /\ db' = db /\ writer' = writer /\ q \in ProcRecords
      /\ Becomes(p, new)
  BY DEF ReadState, OnlyProc, TypeOK, IInv
<1>2. db.inst \in InstallationStates
  BY <1>1 DEF TypeOK, Databases
<1>3. new \in ProcRecords
  BY <1>1, <1>2 DEF ProcRecords
<1>4. new.ph = "read_count" /\ new.state = db.inst
  BY <1>1 DEF ProcRecords
<1>5. Sound(p)'
  BY <1>1, <1>3, <1>4, KnowingStep DEF Sound, Ready
<1> QED BY <1>1, <1>3, <1>5, KnowingStep

LEMMA ReadCountPreserves ==
    ASSUME IInv, NEW p \in Procs, ReadCount(p) PROVE Preserves(p)
<1> DEFINE q == proc[p]
           new == [q EXCEPT !.ph = "write_state", !.count = Users]
<1>1. /\ TypeOK /\ db' = db /\ writer' = writer /\ q \in ProcRecords
      /\ Becomes(p, new) /\ q.ph = "read_count" /\ Sound(p)
  BY DEF ReadCount, At, OnlyProc, TypeOK, IInv
<1>2. Users \in 0..MaxRows /\ (Users = 0 <=> Accounts = {})
  BY <1>1, UsersAreCounted DEF TypeOK
<1>3. new \in ProcRecords
  BY <1>1, <1>2 DEF ProcRecords
<1>4. new.ph = "write_state" /\ new.count = Users /\ new.state = q.state
  BY <1>1 DEF ProcRecords
<1>5. proc'[p] = new
  BY <1>1, <1>3, KnowingStep
<1>6. Accounts' = Accounts
  BY <1>1 DEF Accounts
<1>7. Sound(p)'
  <2>1. /\ q.state # "none" => db.inst # "none"
        /\ q.state = "initialized" => db.inst = "initialized"
    BY <1>1 DEF Sound
  <2> HIDE DEF new
  <2> QED BY <1>1, <1>2, <1>4, <1>5, <1>6, <2>1 DEF Sound, Ready
<1> QED BY <1>1, <1>3, <1>7, KnowingStep

LEMMA BeginPreserves ==
    ASSUME IInv, NEW p \in Procs, Begin(p) PROVE Preserves(p)
<1> DEFINE q == proc[p]
           new == [q EXCEPT !.ph = "check"]
<1>1. /\ TypeOK /\ db' = db /\ writer' = p /\ q \in ProcRecords
      /\ Becomes(p, new) /\ q.ph = "begin" /\ Sound(p)
      /\ \A o \in Procs \ {p} : writer # o
  BY NobodyElseWrites DEF Begin, BeginImmediate, At, TypeOK, IInv
<1>2. new \in ProcRecords /\ new.ph = "check"
  BY <1>1 DEF ProcRecords, Ready
<1>3. proc'[p] = new /\ Accounts' = Accounts
  BY <1>1, <1>2, KnowingStep DEF Accounts
<1>4. Sound(p)'
  BY <1>1, <1>2, <1>3 DEF Sound, Ready
<1> QED BY <1>1, <1>2, <1>4, KnowingStep

LEMMA RefusePreserves ==
    ASSUME IInv, NEW p \in Procs, Refuse(p) PROVE Preserves(p)
<1>1. TypeOK /\ Becomes(p, Off) /\ db' = db /\ writer' = Released(p)
  BY DEF Refuse, IInv
<1> QED BY <1>1, StopIsInert, ReleasedKeepsOthers

LEMMA AllowPreserves ==
    ASSUME IInv, NEW p \in Procs, Allow(p) PROVE Preserves(p)
<1> DEFINE q == proc[p]
           new == [q EXCEPT !.ph = "insert"]
<1>1. /\ TypeOK /\ db' = db /\ writer' = writer /\ q \in ProcRecords
      /\ Becomes(p, new) /\ q.ph = "check" /\ Sound(p)
      /\ ~(Users > 0)
  BY DEF Allow, OnlyProc, At, TypeOK, IInv
<1>2. new \in ProcRecords /\ new.ph = "insert"
  BY <1>1 DEF ProcRecords, Ready
<1>3. Accounts = {}
  BY <1>1, UsersAreCounted, InstallationAssumption DEF TypeOK
<1>4. proc'[p] = new /\ Accounts' = Accounts
  BY <1>1, <1>2, KnowingStep DEF Accounts
<1>5. Sound(p)'
  BY <1>1, <1>2, <1>3, <1>4 DEF Sound, Ready
<1> QED BY <1>1, <1>2, <1>5, KnowingStep

LEMMA LookForUsersPreserves ==
    ASSUME IInv, NEW p \in Procs, LookForUsers(p) PROVE Preserves(p)
<1> DEFINE q == proc[p]
           new == [q EXCEPT !.ph = "prompt"]
<1>1. /\ TypeOK /\ db' = db /\ writer' = writer /\ q \in ProcRecords
      /\ q.ph = "look" /\ Sound(p)
      /\ Becomes(p, Off) \/ Becomes(p, new)
  BY DEF LookForUsers, OnlyProc, At, TypeOK, IInv
<1>2. CASE Becomes(p, Off)
  BY <1>1, <1>2, StopIsInert
<1>3. CASE Becomes(p, new)
  <2>1. new \in ProcRecords /\ new.ph = "prompt"
    BY <1>1 DEF ProcRecords, Ready
  <2>2. proc'[p] = new /\ Accounts' = Accounts
    BY <1>1, <1>3, <2>1, KnowingStep DEF Accounts
  <2>3. Sound(p)'
    BY <1>1, <2>1, <2>2 DEF Sound, Ready
  <2> QED BY <1>1, <1>3, <2>1, <2>3, KnowingStep
<1> QED BY <1>1, <1>2, <1>3

LEMMA EndPreserves ==
    ASSUME IInv, NEW p \in Procs, Stop(p) \/ LockTimesOut(p) \/ Kill(p)
    PROVE  Preserves(p)
<1>1. TypeOK /\ Becomes(p, Off) /\ db' = db /\ writer' \in {writer, Released(p)}
  BY DEF Stop, LockTimesOut, Kill, OnlyProc, IInv
<1> QED BY <1>1, StopIsInert, ReleasedKeepsOthers

-----------------------------------------------------------------------------
(* Steps that write.                                                       *)

LEMMA WritingEffect ==
    ASSUME TypeOK, NEW p \in Procs, MayWrite(p), db' \in Databases,
           \A o \in Procs \ {p} : proc'[o] = proc[o],
           \A t \in Keyed : Used(db.rows[t]) \subseteq Used(db'.rows[t]),
           Used(db'.rows["users"]) = Accounts \/ db'.inst = "initialized",
           \/ db'.inst \in {db.inst, "initialized"}
           \/ db.inst = "none" /\ db'.inst = "needs_bootstrap"
    PROVE  Effect(p)
BY NobodyElseWrites DEF Effect

\* ALTER TABLE and CREATE TABLE or INDEX.
LEMMA SchemaStep ==
    ASSUME TypeOK, NEW p \in Procs, NEW q \in ProcRecords, Becomes(p, q),
           MayWrite(p), db' \in Databases, db'.rows = db.rows, db'.inst = db.inst,
           q.ph \notin Ready \cup {"write", "read_count", "write_state"}
    PROVE  Preserves(p)
<1>1. /\ proc' \in [Procs -> ProcRecords] /\ proc'[p] = q
      /\ \A o \in Procs \ {p} : proc'[o] = proc[o]
  BY RecordChanges
<1>2. Used(db'.rows["users"]) = Accounts
  BY DEF Accounts
<1>3. Effect(p)
  BY <1>1, <1>2, WritingEffect
<1>4. Sound(p)'
  BY <1>1, InertIsSound
<1> QED BY <1>1, <1>3, <1>4 DEF Preserves

LEMMA AlterPreserves ==
    ASSUME IInv, NEW p \in Procs, Alter(p) PROVE Preserves(p)
<1> DEFINE q == proc[p]
           t == Order[q.at]
<1>1. /\ TypeOK /\ writer' = writer /\ q \in ProcRecords /\ MayWrite(p)
  BY DEF Alter, Upgrading, TypeOK, IInv
<1>2. PICK c \in q.todo :
         IF c \notin db.missing[t] THEN Dies(p)
         ELSE /\ db' = [db EXCEPT !.missing[t] = @ \ {c}]
              /\ IF q.todo = {c}
                 THEN Becomes(p, NextTable([q EXCEPT !.todo = {}], q.at,
                                           "inspect", "read"))
                 ELSE Becomes(p, [q EXCEPT !.todo = @ \ {c}])
  BY DEF Alter
<1>3. CASE c \notin db.missing[t]
  <2>1. Becomes(p, Off) /\ db' = db
    BY <1>2, <1>3 DEF Dies
  <2> QED BY <1>1, <2>1, StopIsInert
<1>4. CASE c \in db.missing[t]
  <2>1. t \in Tables
    BY <1>1, OrderIsThere DEF ProcRecords
  <2>2. db' = [db EXCEPT !.missing[t] = @ \ {c}]
    BY <1>2, <1>4
  <2>3. [db.missing EXCEPT ![t] = @ \ {c}]
           \in [Tables -> SUBSET UNION {Columns[u] : u \in Tables}]
    BY <1>1, <2>1 DEF TypeOK, Databases
  <2>4. db' = [db EXCEPT !.missing = [db.missing EXCEPT ![t] = @ \ {c}]]
    BY <1>1, <2>2 DEF TypeOK, Databases
  <2>5. db' \in Databases /\ db'.rows = db.rows /\ db'.inst = db.inst
    BY <1>1, <2>3, <2>4 DEF TypeOK, Databases
  <2>6. CASE q.todo = {c}
    <3> DEFINE r == [q EXCEPT !.todo = {}]
    <3>1. r \in ProcRecords /\ r.at = q.at
      BY <1>1 DEF ProcRecords
    <3>2. Becomes(p, NextTable(r, r.at, "inspect", "read"))
      BY <1>2, <1>4, <2>6, <3>1
    <3> HIDE DEF r
    <3> QED BY <1>1, <2>5, <3>1, <3>2, NextTableIsTyped, SchemaStep DEF Ready
  <2>7. CASE q.todo # {c}
    <3> DEFINE r == [q EXCEPT !.todo = @ \ {c}]
    <3>1. r \in ProcRecords /\ r.ph = q.ph /\ q.ph = "alter"
      BY <1>1 DEF ProcRecords, Alter, At
    <3>2. Becomes(p, r)
      BY <1>2, <1>4, <2>7
    <3> HIDE DEF r
    <3> QED BY <1>1, <2>5, <3>1, <3>2, SchemaStep DEF Ready
  <2> QED BY <2>6, <2>7
<1> QED BY <1>3, <1>4

LEMMA CreatedIsTyped ==
    ASSUME NEW q \in ProcRecords, NEW t
    PROVE  /\ Created(q, t) \in ProcRecords
           /\ Created(q, t).ph \in {"read_state", "create"}
<1>1. CASE q.todo = {t}
  <2>1. Created(q, t) = [q EXCEPT !.todo = {}, !.ph = "read_state"]
    BY <1>1 DEF Created
  <2> QED BY <2>1 DEF ProcRecords
<1>2. CASE q.todo # {t}
  <2> DEFINE rest == q.todo \ {t}
  <2>1. Created(q, t) = [q EXCEPT !.todo = rest, !.ph = "create"]
    BY <1>2 DEF Created
  <2>2. rest \subseteq AllTables \cup UNION {Columns[u] : u \in Tables}
    BY DEF ProcRecords
  <2> HIDE DEF rest
  <2> QED BY <2>1, <2>2 DEF ProcRecords
<1> QED BY <1>1, <1>2

LEMMA CreateTablePreserves ==
    ASSUME IInv, NEW p \in Procs, CreateTable(p) PROVE Preserves(p)
<1> DEFINE q == proc[p]
<1>1. /\ TypeOK /\ writer' = writer /\ q \in ProcRecords /\ MayWrite(p)
  BY DEF CreateTable, Upgrading, TypeOK, IInv
<1>2. PICK t \in q.todo :
         IF db.exists[t] THEN Dies(p)
         ELSE /\ db' = [db EXCEPT !.exists[t] = TRUE]
              /\ IF t \in Keyed THEN Becomes(p, [q EXCEPT !.ph = "index"])
                 ELSE Becomes(p, Created(q, t))
  BY DEF CreateTable
<1>3. CASE db.exists[t]
  <2>1. Becomes(p, Off) /\ db' = db
    BY <1>2, <1>3 DEF Dies
  <2> QED BY <1>1, <2>1, StopIsInert
<1>4. CASE ~db.exists[t]
  <2>1. db' = [db EXCEPT !.exists[t] = TRUE]
    BY <1>2, <1>4
  <2>2. [db.exists EXCEPT ![t] = TRUE] \in [AllTables -> BOOLEAN]
    BY <1>1 DEF TypeOK, Databases
  <2>3. db' = [db EXCEPT !.exists = [db.exists EXCEPT ![t] = TRUE]]
    BY <1>1, <2>1 DEF TypeOK, Databases
  <2>4. db' \in Databases /\ db'.rows = db.rows /\ db'.inst = db.inst
    BY <1>1, <2>2, <2>3 DEF TypeOK, Databases
  <2>5. CASE t \in Keyed
    <3> DEFINE r == [q EXCEPT !.ph = "index"]
    <3>1. r \in ProcRecords /\ r.ph = "index" /\ Becomes(p, r)
      BY <1>1, <1>2, <1>4, <2>5 DEF ProcRecords
    <3> HIDE DEF r
    <3> QED BY <1>1, <2>4, <3>1, SchemaStep DEF Ready
  <2>6. CASE t \notin Keyed
    <3>1. Becomes(p, Created(q, t))
      BY <1>2, <1>4, <2>6
    <3> QED BY <1>1, <2>4, <3>1, CreatedIsTyped, SchemaStep DEF Ready
  <2> QED BY <2>5, <2>6
<1> QED BY <1>3, <1>4

LEMMA CreateIndexPreserves ==
    ASSUME IInv, NEW p \in Procs, CreateIndex(p) PROVE Preserves(p)
<1> DEFINE q == proc[p]
<1>1. /\ TypeOK /\ writer' = writer /\ q \in ProcRecords /\ MayWrite(p)
  BY DEF CreateIndex, Upgrading, TypeOK, IInv
<1>2. PICK t \in q.todo \cap Keyed :
         IF db.indexed[t] THEN Dies(p)
         ELSE /\ db' = [db EXCEPT !.indexed[t] = TRUE]
              /\ Becomes(p, Created(q, t))
  BY DEF CreateIndex
<1>3. CASE db.indexed[t]
  <2>1. Becomes(p, Off) /\ db' = db
    BY <1>2, <1>3 DEF Dies
  <2> QED BY <1>1, <2>1, StopIsInert
<1>4. CASE ~db.indexed[t]
  <2>1. db' = [db EXCEPT !.indexed[t] = TRUE] /\ Becomes(p, Created(q, t))
    BY <1>2, <1>4
  <2>2. [db.indexed EXCEPT ![t] = TRUE] \in [Keyed -> BOOLEAN]
    BY <1>1 DEF TypeOK, Databases
  <2>3. db' = [db EXCEPT !.indexed = [db.indexed EXCEPT ![t] = TRUE]]
    BY <1>1, <2>1 DEF TypeOK, Databases
  <2>4. db' \in Databases /\ db'.rows = db.rows /\ db'.inst = db.inst
    BY <1>1, <2>2, <2>3 DEF TypeOK, Databases
  <2> QED BY <1>1, <2>1, <2>4, CreatedIsTyped, SchemaStep DEF Ready
<1> QED BY <1>3, <1>4

LEMMA RowsReplaced ==
    ASSUME TypeOK, NEW t \in Keyed, NEW new \in RowSets
    PROVE  /\ [db EXCEPT !.rows[t] = new].rows = [db.rows EXCEPT ![t] = new]
           /\ [db EXCEPT !.rows[t] = new].inst = db.inst
           /\ \A b \in BOOLEAN :
                /\ [db EXCEPT !.rows[t] = new, !.indexed[t] = b] \in Databases
                /\ [db EXCEPT !.rows[t] = new, !.indexed[t] = b].rows
                      = [db.rows EXCEPT ![t] = new]
                /\ [db EXCEPT !.rows[t] = new, !.indexed[t] = b].inst = db.inst
           /\ [db EXCEPT !.rows[t] = new] \in Databases
<1>1. db \in Databases /\ [db.rows EXCEPT ![t] = new] \in [Keyed -> RowSets]
  BY DEF TypeOK, Databases
<1>2. \A b \in BOOLEAN :
        [db.indexed EXCEPT ![t] = b] \in [Keyed -> BOOLEAN]
  BY <1>1 DEF Databases
<1>3. [db EXCEPT !.rows[t] = new] = [db EXCEPT !.rows = [db.rows EXCEPT ![t] = new]]
  BY <1>1 DEF Databases
<1>4. \A b \in BOOLEAN :
        [db EXCEPT !.rows[t] = new, !.indexed[t] = b]
          = [db EXCEPT !.rows = [db.rows EXCEPT ![t] = new],
                       !.indexed = [db.indexed EXCEPT ![t] = b]]
  BY <1>1 DEF Databases
<1> QED BY <1>1, <1>2, <1>3, <1>4 DEF Databases

LEMMA NamesMakeRows ==
    ASSUME NEW n \in Names, NEW k \in {NormOf[m] : m \in Names} \cup {"null"}
    PROVE  [name |-> n, key |-> k] \in RowRecords \ {NoRow}
BY InstallationAssumption DEF RowRecords, NoRow

LEMMA BackfillKeepsRows ==
    ASSUME TypeOK, NEW t \in Keyed, NEW read \in RowSets,
           Used(read) \subseteq Used(db.rows[t])
    PROVE  /\ Backfilled(t, read) \in RowSets
           /\ Used(Backfilled(t, read)) = Used(db.rows[t])
<1> DEFINE now == db.rows[t]
           new == Backfilled(t, read)
<1>1. now \in [1..MaxRows -> RowRecords] /\ read \in [1..MaxRows -> RowRecords]
  BY DEF TypeOK, Databases, RowSets
<1>2. DOMAIN new = 1..MaxRows
  BY DEF Backfilled
<1>3. ASSUME NEW i \in 1..MaxRows, read[i] = NoRow PROVE new[i] = now[i]
  BY <1>3 DEF Backfilled
<1>4. ASSUME NEW i \in 1..MaxRows, read[i] # NoRow
      PROVE  new[i] \in RowRecords \ {NoRow} /\ now[i] # NoRow
  <2>1. i \in Used(now)
    BY <1>1, <1>4 DEF Used
  <2>2. now[i] \in RowRecords \ {NoRow} /\ read[i] \in RowRecords \ {NoRow}
    BY <1>1, <1>4, <2>1 DEF Used
  <2>3. /\ now[i].name \in Names /\ read[i].name \in Names
        /\ read[i].key \in {NormOf[m] : m \in Names} \cup {"null"}
    BY <2>2 DEF RowRecords
  <2>4. Value(read[i]) \in {NormOf[m] : m \in Names} \cup {"null"}
    BY <2>3 DEF Value
  <2>5. new[i] = [name |-> IF t = "users" THEN now[i].name ELSE read[i].name,
                  key |-> Value(read[i])]
    BY <1>4 DEF Backfilled
  <2>6. new[i] \in RowRecords \ {NoRow}
    BY <2>3, <2>4, <2>5, NamesMakeRows
  <2> QED BY <2>2, <2>6
<1> HIDE DEF new
<1>5. \A i \in 1..MaxRows : new[i] \in RowRecords /\ (new[i] = NoRow <=> now[i] = NoRow)
  BY <1>1, <1>3, <1>4
<1>6. new = [i \in 1..MaxRows |-> new[i]]
  BY DEF new, Backfilled
<1>7. new \in [1..MaxRows -> RowRecords]
  BY <1>5, <1>6
<1>8. Used(new) = Used(now)
  BY <1>1, <1>2, <1>5 DEF Used
<1> QED BY <1>7, <1>8 DEF new, RowSets

LEMMA WriteRowsPreserves ==
    ASSUME IInv, NEW p \in Procs, WriteRows(p) PROVE Preserves(p)
<1> DEFINE q == proc[p]
           t == Order[q.at]
           new == Backfilled(t, q.rows)
<1>1. /\ TypeOK /\ writer' = writer /\ q \in ProcRecords /\ MayWrite(p)
      /\ q.ph = "write" /\ Sound(p)
  BY DEF WriteRows, At, Upgrading, TypeOK, IInv
<1>2. CASE ~Distinct(new)
  <2>1. Becomes(p, Off) /\ db' = db
    BY <1>2 DEF WriteRows, Dies
  <2> QED BY <1>1, <2>1, StopIsInert
<1>3. CASE Distinct(new)
  <2> DEFINE r == [q EXCEPT !.rows = NothingRead, !.saw = @ \cup {t}]
  <2>1. t \in Keyed /\ Used(q.rows) \subseteq Used(db.rows[t])
    BY <1>1 DEF Sound
  <2>2. q.rows \in RowSets /\ q.saw \subseteq Keyed
    BY <1>1 DEF ProcRecords
  <2>3. new \in RowSets /\ Used(new) = Used(db.rows[t])
    BY <1>1, <2>1, <2>2, BackfillKeepsRows
  <2>4. /\ db' = [db EXCEPT !.rows[t] = new, !.indexed[t] = TRUE]
        /\ Becomes(p, NextTable(r, q.at, "read", "list"))
    BY <1>3 DEF WriteRows, IndexMade
  <2> HIDE DEF new
  <2>5. /\ db' \in Databases /\ db'.inst = db.inst
        /\ db'.rows = [db.rows EXCEPT ![t] = new]
    BY <1>1, <2>1, <2>3, <2>4, RowsReplaced
  <2>6. r \in ProcRecords /\ r.at = q.at
    <3>1. q.saw \cup {t} \subseteq Keyed
      BY <2>1, <2>2
    <3> QED BY <1>1, <3>1, OffIsTyped DEF ProcRecords
  <2> HIDE DEF r
  <2>7. \A u \in Keyed : Used(db'.rows[u]) = Used(db.rows[u])
    <3>1. db.rows \in [Keyed -> RowSets]
      BY <1>1 DEF TypeOK, Databases
    <3> QED BY <2>3, <2>5, <3>1
  <2> DEFINE n == NextTable(r, r.at, "read", "list")
  <2>8. n \in ProcRecords /\ n.ph \in {"read", "list", "inspect"} /\ Becomes(p, n)
    BY <2>4, <2>6, NextTableIsTyped
  <2> HIDE DEF n
  <2>9. /\ proc' \in [Procs -> ProcRecords] /\ proc'[p] = n
        /\ \A o \in Procs \ {p} : proc'[o] = proc[o]
    BY <1>1, <2>8, RecordChanges
  <2>10. Used(db'.rows["users"]) = Accounts
    BY <2>7, InstallationAssumption DEF Accounts
  <2>11. Effect(p)
    BY <1>1, <2>5, <2>7, <2>9, <2>10, WritingEffect
  <2>12. Sound(p)'
    BY <2>8, <2>9, InertIsSound DEF Ready
  <2> QED BY <2>9, <2>11, <2>12 DEF Preserves
<1> QED BY <1>2, <1>3

LEMMA ServingIsTyped ==
    ASSUME NEW q \in ProcRecords
    PROVE  Serving(q) \in ProcRecords /\ Serving(q).ph \in {"serving", "look", "begin"}
<1> DEFINE ph == IF q.cmd = "serve" THEN "serving"
                 ELSE IF q.cmd = "seed-demo" THEN "look" ELSE "begin"
<1>1. ph \in {"serving", "look", "begin"}
  OBVIOUS
<1>2. Serving(q) = [Off EXCEPT !.cmd = q.cmd, !.saw = q.saw, !.ph = ph]
  BY DEF Serving
<1> HIDE DEF ph
<1> QED BY <1>1, <1>2, OffIsTyped DEF ProcRecords, Ready

LEMMA WriteStatePreserves ==
    ASSUME IInv, NEW p \in Procs, WriteState(p) PROVE Preserves(p)
<1> DEFINE q == proc[p]
           new == Serving(q)
<1>1. /\ TypeOK /\ writer' = writer /\ q \in ProcRecords
      /\ q.ph = "write_state" /\ Sound(p)
  BY DEF WriteState, At, Upgrading, TypeOK, IInv
<1>2. /\ q.state # "none" => db.inst # "none"
      /\ q.state = "initialized" => db.inst = "initialized"
      /\ q.count = 0 => Accounts = {} \/ db.inst = "initialized"
  BY <1>1 DEF Sound
<1>3. new \in ProcRecords /\ new.ph \in {"serving", "look", "begin"}
  BY <1>1, ServingIsTyped
<1>4. /\ q.count \in Nat /\ q.state \in InstallationStates
      /\ db \in Databases /\ db.inst \in InstallationStates
  BY <1>1, InstallationAssumption DEF ProcRecords, TypeOK, Databases
<1> HIDE DEF new
<1>5. CASE ~Written(q.state, q.count)
  <2>1. Becomes(p, new) /\ db' = db
    BY <1>5 DEF WriteState, new
  <2>2. proc'[p] = new /\ Accounts' = Accounts
    BY <1>1, <1>3, <2>1, KnowingStep DEF Accounts
  <2>3. db.inst # "none" /\ (db.inst = "needs_bootstrap" => Accounts = {})
    BY <1>2, <1>4, <1>5 DEF Written, InstallationStates
  <2>4. Sound(p)'
    BY <1>3, <2>1, <2>2, <2>3 DEF Sound, Ready
  <2> QED BY <1>1, <1>3, <2>1, <2>4, KnowingStep
<1>6. CASE Written(q.state, q.count) /\ q.state = "none" /\ db.inst # "none"
  <2>1. Becomes(p, Off) /\ db' = db
    BY <1>6 DEF WriteState, Dies
  <2> QED BY <1>1, <2>1, StopIsInert
<1>7. CASE Written(q.state, q.count) /\ ~(q.state = "none" /\ db.inst # "none")
  <2>1. /\ MayWrite(p) /\ Becomes(p, new)
        /\ db' = [db EXCEPT !.inst = Desired(q.count)]
    BY <1>7 DEF WriteState, new
  <2>2. Desired(q.count) \in {"initialized", "needs_bootstrap"}
    BY DEF Desired
  <2>3. /\ db' \in Databases /\ db'.rows = db.rows /\ db'.inst = Desired(q.count)
    BY <1>4, <2>1, <2>2 DEF Databases, InstallationStates
  <2>4. db'.inst = "needs_bootstrap" => q.count = 0 /\ db.inst = "none"
    BY <1>4, <1>7, <2>3 DEF Written, Desired
  <2>5. Used(db'.rows["users"]) = Accounts /\ Accounts' = Accounts
    BY <2>3 DEF Accounts
  <2>6. /\ proc' \in [Procs -> ProcRecords] /\ proc'[p] = new
        /\ \A o \in Procs \ {p} : proc'[o] = proc[o]
    BY <1>1, <1>3, <2>1, RecordChanges
  <2>7. Effect(p)
    BY <1>1, <2>1, <2>2, <2>3, <2>4, <2>5, <2>6, WritingEffect
  <2>8. Sound(p)'
    <3>1. db'.inst # "none" /\ (db'.inst = "needs_bootstrap" => Accounts' = {})
      BY <1>2, <2>2, <2>3, <2>4, <2>5
    <3> QED BY <1>3, <2>6, <3>1 DEF Sound, Ready
  <2> QED BY <2>6, <2>7, <2>8 DEF Preserves
<1> QED BY <1>5, <1>6, <1>7

LEMMA InsertedIsThere ==
    ASSUME NEW rows \in RowSets, NEW name \in Names, HasPlace(rows)
    PROVE  /\ Inserted(rows, name) \in RowSets
           /\ Used(rows) \subseteq Used(Inserted(rows, name))
           /\ Used(Inserted(rows, name)) # {}
<1> DEFINE i == CHOOSE i \in DOMAIN rows : rows[i] = NoRow
           row == [name |-> name, key |-> NormOf[name]]
<1>1. i \in 1..MaxRows /\ rows[i] = NoRow
  BY DEF HasPlace, RowSets
<1>2. row \in RowRecords \ {NoRow}
  BY NamesMakeRows
<1>3. Inserted(rows, name) = [rows EXCEPT ![i] = row]
  BY DEF Inserted
<1> HIDE DEF i, row
<1> QED BY <1>1, <1>2, <1>3 DEF RowSets, Used

\* An account is inserted, and the installation is marked with it.
LEMMA InsertingStep ==
    ASSUME TypeOK, NEW p \in Procs, MayWrite(p), NEW name \in Names,
           HasPlace(db.rows["users"]), Becomes(p, Off),
           db' = [db EXCEPT !.rows["users"] = Inserted(db.rows["users"], name),
                            !.inst = "initialized"]
    PROVE  Preserves(p) /\ Accounts' # {}
<1> DEFINE new == Inserted(db.rows["users"], name)
<1>1. "users" \in Keyed /\ db.rows \in [Keyed -> RowSets]
  BY InstallationAssumption DEF TypeOK, Databases
<1>2. /\ new \in RowSets
      /\ Accounts \subseteq Used(new) /\ Used(new) # {}
  BY <1>1, InsertedIsThere DEF Accounts
<1> HIDE DEF new
<1>3. db' = [db EXCEPT !.rows["users"] = new, !.inst = "initialized"]
  BY DEF new
<1>4. /\ db' \in Databases /\ db'.inst = "initialized"
      /\ db'.rows = [db.rows EXCEPT !["users"] = new]
  <2>1. db \in Databases
    BY DEF TypeOK
  <2>2. [db.rows EXCEPT !["users"] = new] \in [Keyed -> RowSets]
    BY <1>1, <1>2
  <2>3. db' = [db EXCEPT !.rows = [db.rows EXCEPT !["users"] = new],
                         !.inst = "initialized"]
    BY <1>3, <2>1 DEF Databases
  <2> QED BY <2>1, <2>2, <2>3 DEF Databases, InstallationStates
<1>5. \A t \in Keyed : Used(db.rows[t]) \subseteq Used(db'.rows[t])
  BY <1>1, <1>2, <1>4 DEF Accounts
<1>6. Accounts' # {}
  BY <1>1, <1>2, <1>4 DEF Accounts
<1>7. /\ proc' \in [Procs -> ProcRecords] /\ proc'[p] = Off
      /\ \A o \in Procs \ {p} : proc'[o] = proc[o]
  BY OffIsTyped, RecordChanges
<1>8. Effect(p)
  BY <1>4, <1>5, <1>7, WritingEffect
<1>9. Sound(p)'
  BY <1>7, OffIsTyped, InertIsSound
<1> QED BY <1>6, <1>7, <1>8, <1>9 DEF Preserves

LEMMA CommitBootstrapPreserves ==
    ASSUME IInv, NEW p \in Procs, CommitBootstrap(p)
    PROVE  Preserves(p) /\ Accounts' # {}
<1>1. /\ TypeOK /\ MayWrite(p) /\ Becomes(p, Off)
      /\ HasPlace(db.rows["users"])
  BY DEF CommitBootstrap, IInv
<1>2. PICK name \in Names :
         db' = [db EXCEPT !.rows["users"] = Inserted(db.rows["users"], name),
                          !.inst = "initialized"]
  BY InstallationAssumption DEF CommitBootstrap
<1> QED BY <1>1, <1>2, InsertingStep

LEMMA CommitSeedPreserves ==
    ASSUME IInv, NEW p \in Procs, CommitSeed(p) PROVE Preserves(p)
<1>1. /\ TypeOK /\ MayWrite(p) /\ Becomes(p, Off) /\ writer' = writer
      /\ HasPlace(db.rows["users"])
  BY DEF CommitSeed, Upgrading, IInv
<1>2. PICK name \in Names :
         \/ db' = db
         \/ db' = [db EXCEPT !.rows["users"] = Inserted(db.rows["users"], name),
                             !.inst = "initialized"]
  BY InstallationAssumption DEF CommitSeed
<1>3. CASE db' = db
  BY <1>1, <1>3, StopIsInert
<1> QED BY <1>1, <1>2, <1>3, InsertingStep

LEMMA RenamePreserves ==
    ASSUME IInv, NEW p \in Procs, Rename(p) PROVE Preserves(p)
<1>1. /\ TypeOK /\ proc' = proc /\ writer = Nobody /\ MayWrite(p)
      /\ proc[p].ph = "serving" /\ Sound(p)
  BY DEF Rename, At, MayWrite, IInv
<1>2. PICK t \in Keyed, name \in Names : \E i \in Used(db.rows[t]) :
         db' = [db EXCEPT !.rows[t] = [db.rows[t] EXCEPT
                   ![i] = [name |-> name, key |-> NormOf[name]]]]
  BY InstallationAssumption DEF Rename
<1>3. PICK i \in Used(db.rows[t]) :
         db' = [db EXCEPT !.rows[t] = [db.rows[t] EXCEPT
                   ![i] = [name |-> name, key |-> NormOf[name]]]]
  BY <1>2
<1> DEFINE row == [name |-> name, key |-> NormOf[name]]
           new == [db.rows[t] EXCEPT ![i] = row]
<1>4. db.rows \in [Keyed -> RowSets] /\ "users" \in Keyed
  BY <1>1, InstallationAssumption DEF TypeOK, Databases
<1>5. row \in RowRecords \ {NoRow}
  BY NamesMakeRows
<1> HIDE DEF row
<1>6. new \in RowSets /\ Used(new) = Used(db.rows[t])
  BY <1>4, <1>5 DEF Used, RowSets
<1>7. db' = [db EXCEPT !.rows[t] = new]
  BY <1>3 DEF row
<1> HIDE DEF new
<1>8. db' \in Databases /\ db'.inst = db.inst /\ db'.rows = [db.rows EXCEPT ![t] = new]
  BY <1>1, <1>6, <1>7, RowsReplaced
<1>9. \A u \in Keyed : Used(db'.rows[u]) = Used(db.rows[u])
  BY <1>4, <1>6, <1>8
<1>10. Used(db'.rows["users"]) = Accounts /\ Accounts' = Accounts
  BY <1>4, <1>9 DEF Accounts
<1>11. Effect(p)
  BY <1>1, <1>8, <1>9, <1>10, WritingEffect
<1>12. Sound(p)'
  BY <1>1, <1>8, <1>10 DEF Sound, Ready
<1> QED BY <1>1, <1>11, <1>12 DEF Preserves, TypeOK

-----------------------------------------------------------------------------
(* The invariant.                                                          *)

LEMMA Initially == Init => IInv
<1> SUFFICES ASSUME Init PROVE IInv
  OBVIOUS
<1>1. TypeOK
  BY OffIsTyped, InstallationAssumption DEF Init, TypeOK
<1>2. \A p \in Procs : Sound(p)
  BY OffIsTyped DEF Init, Sound, Off, Ready
<1> QED BY <1>1, <1>2 DEF IInv, FirstIsThere, Init

LEMMA EveryStepPreserves ==
    ASSUME IInv, NEW p \in Procs,
           Start(p) \/ Step(p) \/ Rename(p) \/ Stop(p) \/ LockTimesOut(p) \/ Kill(p)
    PROVE  Preserves(p)
<1>1. CASE Start(p)
  BY <1>1, StartPreserves DEF IInv
<1>2. CASE Step(p)
  <2>1. CASE Inspect(p) \/ ReadRows(p) \/ ListTables(p)
    BY <2>1, InspectPreserves, ReadRowsPreserves, ListTablesPreserves DEF IInv
  <2>2. CASE Alter(p) \/ WriteRows(p) \/ CreateTable(p) \/ CreateIndex(p)
    BY <2>2, AlterPreserves, WriteRowsPreserves, CreateTablePreserves,
       CreateIndexPreserves
  <2>3. CASE ReadState(p) \/ ReadCount(p) \/ WriteState(p)
    BY <2>3, ReadStatePreserves, ReadCountPreserves, WriteStatePreserves
  <2>4. CASE Begin(p) \/ Refuse(p) \/ Allow(p) \/ CommitBootstrap(p)
    BY <2>4, BeginPreserves, RefusePreserves, AllowPreserves,
       CommitBootstrapPreserves
  <2>5. CASE LookForUsers(p) \/ CommitSeed(p)
    BY <2>5, LookForUsersPreserves, CommitSeedPreserves
  <2> QED BY <1>2, <2>1, <2>2, <2>3, <2>4, <2>5 DEF Step
<1>3. CASE Rename(p)
  BY <1>3, RenamePreserves
<1>4. CASE Stop(p) \/ LockTimesOut(p) \/ Kill(p)
  BY <1>4, EndPreserves
<1> QED BY <1>1, <1>2, <1>3, <1>4

\* What another process knows is not disturbed.
LEMMA OthersStaySound ==
    ASSUME IInv, NEW p \in Procs, Preserves(p), NEW q \in Procs \ {p}
    PROVE  Sound(q)'
<1>1. /\ TypeOK /\ Sound(q) /\ proc'[q] = proc[q]
      /\ writer = q => writer' = q /\ db' = db
      /\ \A t \in Keyed : Used(db.rows[t]) \subseteq Used(db'.rows[t])
      /\ Accounts' = Accounts \/ db'.inst = "initialized"
      /\ \/ db'.inst \in {db.inst, "initialized"}
         \/ db.inst = "none" /\ db'.inst = "needs_bootstrap"
  BY DEF IInv, Preserves, Effect, Accounts
<1>2. CASE proc[q].ph \in {"check", "insert"}
  <2>1. writer' = q /\ db' = db /\ Accounts' = Accounts
    BY <1>1, <1>2 DEF Sound, Accounts
  <2> QED BY <1>1, <1>2, <2>1 DEF Sound, Ready
<1>3. CASE proc[q].ph = "write"
  BY <1>1, <1>3 DEF Sound, Ready
<1>4. CASE proc[q].ph \in {"read_count", "write_state"}
  BY <1>1, <1>4 DEF Sound, Ready
<1>5. CASE proc[q].ph \in Ready \ {"check", "insert"}
  BY <1>1, <1>5 DEF Sound, Ready
<1>6. CASE proc[q].ph \notin Ready \cup {"write", "read_count", "write_state"}
  BY <1>1, <1>6, InertIsSound
<1> QED BY <1>2, <1>3, <1>4, <1>5, <1>6

\* A bootstrap that succeeds is the first, and finds nobody.
LEMMA BootstrapIsTheFirst ==
    ASSUME IInv, NEW p \in Procs, CommitBootstrap(p)
    PROVE  firsts = 0 /\ Users = 0
<1>1. TypeOK /\ Sound(p) /\ proc[p].ph = "insert" /\ FirstIsThere
  BY DEF CommitBootstrap, At, IInv
<1>2. Accounts = {}
  BY <1>1 DEF Sound
<1> QED BY <1>1, <1>2, UsersAreCounted DEF FirstIsThere, TypeOK

LEMMA CountersStayTyped ==
    ASSUME IInv, NEW p \in Procs,
           Start(p) \/ Step(p) \/ Rename(p) \/ Stop(p) \/ LockTimesOut(p) \/ Kill(p)
    PROVE  /\ writer' \in Procs \cup {Nobody}
           /\ kills' \in 0..MaxKills /\ renames' \in 0..MaxRenames
           /\ firsts' \in Nat /\ crossed' \subseteq Keyed
           /\ firsts' = firsts \/ CommitBootstrap(p)
<1> USE DEF IInv, TypeOK
<1>1. CASE Start(p) \/ Stop(p) \/ LockTimesOut(p)
  BY <1>1 DEF Start, Stop, LockTimesOut, OnlyProc
<1>2. CASE Inspect(p) \/ ReadRows(p) \/ ListTables(p) \/ ReadState(p)
             \/ ReadCount(p) \/ Allow(p) \/ LookForUsers(p)
  BY <1>2 DEF Inspect, ReadRows, ListTables, ReadState, ReadCount, Allow,
              LookForUsers, OnlyProc
<1>3. CASE Alter(p) \/ WriteRows(p) \/ CreateTable(p) \/ CreateIndex(p)
             \/ WriteState(p) \/ CommitSeed(p)
  BY <1>3 DEF Alter, WriteRows, CreateTable, CreateIndex, WriteState, CommitSeed,
              Upgrading
<1>4. CASE Begin(p) \/ Refuse(p)
  BY <1>4 DEF Begin, BeginImmediate, Refuse, Released
<1>5. CASE Rename(p)
  <2>1. renames' \in 0..MaxRenames
    BY <1>5, InstallationAssumption DEF Rename
  <2>2. crossed' \subseteq Keyed
    BY <1>5 DEF Rename
  <2> QED BY <1>5, <2>1, <2>2 DEF Rename
<1>6. CASE Kill(p)
  BY <1>6, InstallationAssumption DEF Kill, Released
<1>7. CASE CommitBootstrap(p)
  <2>1. /\ firsts' = firsts + 1 /\ writer' = Released(p)
        /\ kills' = kills /\ renames' = renames /\ crossed' = crossed
    BY <1>7 DEF CommitBootstrap
  <2> QED BY <1>7, <2>1 DEF Released
<1> QED BY <1>1, <1>2, <1>3, <1>4, <1>5, <1>6, <1>7 DEF Step

LEMMA Inductive ==
    IInv /\ [Next]_vars => IInv'
<1> SUFFICES ASSUME IInv, [Next]_vars PROVE IInv'
  OBVIOUS
<1>1. CASE UNCHANGED vars
  BY <1>1 DEF IInv, TypeOK, Sound, FirstIsThere, Accounts, vars
<1>2. CASE Next
  <2>1. PICK p \in Procs :
          Start(p) \/ Step(p) \/ Rename(p) \/ Stop(p) \/ LockTimesOut(p) \/ Kill(p)
    BY <1>2 DEF Next
  <2>2. Preserves(p)
    BY <2>1, EveryStepPreserves
  <2>3. TypeOK'
    BY <2>1, <2>2, CountersStayTyped DEF Preserves, Effect, TypeOK
  <2>4. \A q \in Procs : Sound(q)'
    BY <2>2, OthersStaySound DEF Preserves
  <2>5. FirstIsThere'
    <3>1. CASE CommitBootstrap(p)
      BY <3>1, CommitBootstrapPreserves DEF FirstIsThere
    <3>2. CASE firsts' = firsts
      <4>1. Accounts \subseteq Accounts'
        BY <2>2, InstallationAssumption DEF Preserves, Effect, Accounts
      <4> QED BY <3>2, <4>1 DEF IInv, FirstIsThere
    <3> QED BY <2>1, <3>1, <3>2, CountersStayTyped
  <2> QED BY <2>3, <2>4, <2>5 DEF IInv
<1> QED BY <1>1, <1>2

-----------------------------------------------------------------------------
(* The keys that a backfill leaves behind.                                 *)

\* Rows that were read, and what has become of them since: they have kept
\* their names, and those that came later have their keys.
Kept(read, now) ==
    \A i \in Used(now) :
        IF i \in Used(read)
        THEN /\ now[i].name = read[i].name
             /\ read[i].key = "null" \/ Normal(read[i])
        ELSE Normal(now[i])

AllNormal(rows) == \A i \in Used(rows) : Normal(rows[i])

\* The columns that process p has looked after.
Upgraded(p) ==
    LET q == proc[p] IN
    /\ q.ph \notin {"off", "inspect", "alter"} =>
         \A t \in Tables : db.missing[t] = {}
    /\ q.ph \in {"inspect", "alter"} =>
         \A j \in 1..(q.at - 1) : db.missing[Order[j]] = {}
    /\ q.ph = "alter" => db.missing[Order[q.at]] \subseteq q.todo

\* The rows it has read or may index, and the tables it went through.
RowsKnown(p) ==
    LET q == proc[p] IN
    /\ q.ph = "index" /\ First(q.todo) \in Keyed =>
         Distinct(db.rows[First(q.todo)])
    /\ q.ph = "write" /\ Order[q.at] \notin crossed =>
         Kept(q.rows, db.rows[Order[q.at]])

SawKept(p) ==
    \A t \in proc[p].saw \ crossed : db.indexed[t] /\ AllNormal(db.rows[t])

Knows(p) == Upgraded(p) /\ RowsKnown(p) /\ SawKept(p)

SchemaSound ==
    /\ \A t \in Tables : ~db.exists[t] => db.missing[t] = {}
    /\ \A t \in Keyed : db.indexed[t] \/ ~db.exists[t] => Distinct(db.rows[t])
    /\ \A t \in Keyed \ crossed : \A i \in Used(db.rows[t]) :
         db.rows[t][i].key = "null" \/ Normal(db.rows[t][i])

KInv == IInv /\ SchemaSound /\ \A p \in Procs : Knows(p)

Writing(o, t) == At(o, "write") /\ Order[proc[o].at] = t

\* What a step makes of the file, but for the tables with a rename during a
\* backfill: a row is as it was or has its key, and nobody's name changes
\* while somebody is about to write.
Upkeep ==
    /\ \A t \in Tables :
         /\ db'.missing[t] \subseteq db.missing[t]
         /\ db.exists[t] => db'.exists[t]
    /\ \A t \in Keyed :
         /\ db.indexed[t] => db'.indexed[t]
         /\ db'.indexed[t] => db.indexed[t] \/ Distinct(db'.rows[t])
         /\ db'.rows[t] = db.rows[t] \/ Distinct(db'.rows[t])
    /\ crossed \subseteq crossed'
    /\ \A t \in Keyed \ crossed' :
         /\ \A i \in Used(db'.rows[t]) :
              \/ Normal(db'.rows[t][i])
              \/ i \in Used(db.rows[t]) /\ db'.rows[t][i] = db.rows[t][i]
         /\ (\E o \in Procs : Writing(o, t)) =>
              \A i \in Used(db.rows[t]) : db'.rows[t][i].name = db.rows[t][i].name

LEMMA QuietUpkeep ==
    ASSUME db' = db, crossed' = crossed PROVE Upkeep
BY DEF Upkeep

LEMMA SchemaStaysSound ==
    ASSUME KInv, Upkeep PROVE SchemaSound'
<1>1. SchemaSound /\ Keyed \subseteq Tables
  BY InstallationAssumption DEF KInv
<1>2. ASSUME NEW t \in Tables, ~db'.exists[t] PROVE db'.missing[t] = {}
  BY <1>1, <1>2 DEF SchemaSound, Upkeep
<1>3. ASSUME NEW t \in Keyed, db'.indexed[t] \/ ~db'.exists[t]
      PROVE  Distinct(db'.rows[t])
  BY <1>1, <1>3 DEF SchemaSound, Upkeep
<1>4. ASSUME NEW t \in Keyed \ crossed', NEW i \in Used(db'.rows[t])
      PROVE  db'.rows[t][i].key = "null" \/ Normal(db'.rows[t][i])
  BY <1>1, <1>4 DEF SchemaSound, Upkeep
<1> QED BY <1>2, <1>3, <1>4 DEF SchemaSound

LEMMA SawStaysKept ==
    ASSUME KInv, Upkeep, NEW o \in Procs, proc'[o].saw \subseteq proc[o].saw
    PROVE  SawKept(o)'
<1> SUFFICES ASSUME NEW t \in proc[o].saw \ crossed'
             PROVE  db'.indexed[t] /\ AllNormal(db'.rows[t])
  BY DEF SawKept
<1>1. SawKept(o) /\ proc[o] \in ProcRecords /\ crossed \subseteq crossed'
  BY DEF KInv, Knows, IInv, TypeOK, Upkeep
<1>2. t \in Keyed
  BY <1>1 DEF ProcRecords
<1>3. db.indexed[t] /\ AllNormal(db.rows[t])
  BY <1>1 DEF SawKept
<1> QED BY <1>2, <1>3 DEF Upkeep, AllNormal

\* What another process knows of columns and rows stays true.
LEMMA OthersStayInformed ==
    ASSUME KInv, NEW p \in Procs, Preserves(p), Upkeep, NEW o \in Procs \ {p}
    PROVE  Knows(o)'
<1> DEFINE q == proc[o]
           t == Order[q.at]
<1>1. /\ proc'[o] = q /\ Upgraded(o) /\ RowsKnown(o) /\ Sound(o)
      /\ q \in ProcRecords
  BY DEF KInv, Knows, Preserves, Effect, IInv, TypeOK
<1>2. SawKept(o)'
  BY <1>1, SawStaysKept
<1>3. Upgraded(o)'
  <2>1. \A j \in DOMAIN Order : Order[j] \in Tables
    BY OrderIsThere
  <2>2. q.at \in DOMAIN Order /\ \A j \in 1..(q.at - 1) : j \in DOMAIN Order
    BY <1>1, OrderIsThere DEF ProcRecords
  <2>3. \A u \in Tables : db'.missing[u] \subseteq db.missing[u]
    BY DEF Upkeep
  <2>4. q.ph \notin {"off", "inspect", "alter"} =>
           \A u \in Tables : db'.missing[u] = {}
    BY <1>1, <2>3 DEF Upgraded
  <2>5. q.ph \in {"inspect", "alter"} =>
           \A j \in 1..(q.at - 1) : db'.missing[Order[j]] = {}
    BY <1>1, <2>1, <2>2, <2>3 DEF Upgraded
  <2>6. q.ph = "alter" => db'.missing[t] \subseteq q.todo
    BY <1>1, <2>1, <2>2, <2>3 DEF Upgraded
  <2> QED BY <1>1, <2>4, <2>5, <2>6 DEF Upgraded
<1>4. RowsKnown(o)'
  <2>1. ASSUME q.ph = "index", First(q.todo) \in Keyed
        PROVE  Distinct(db'.rows[First(q.todo)])
    BY <1>1, <2>1 DEF RowsKnown, Upkeep
  <2>2. ASSUME q.ph = "write", t \notin crossed'
        PROVE  Kept(q.rows, db'.rows[t])
    <3>1. /\ t \in Keyed \ crossed' /\ Writing(o, t)
          /\ Used(q.rows) \subseteq Used(db.rows[t])
      BY <1>1, <2>2 DEF Sound, Writing, At
    <3>2. Kept(q.rows, db.rows[t])
      BY <1>1, <2>2 DEF RowsKnown, Upkeep
    <3>3. /\ \A i \in Used(db'.rows[t]) :
               \/ Normal(db'.rows[t][i])
               \/ i \in Used(db.rows[t]) /\ db'.rows[t][i] = db.rows[t][i]
          /\ \A i \in Used(db.rows[t]) : db'.rows[t][i].name = db.rows[t][i].name
      BY <3>1 DEF Upkeep
    <3> HIDE DEF q, t
    <3> QED BY <3>1, <3>2, <3>3 DEF Kept
  <2> QED BY <1>1, <2>1, <2>2 DEF RowsKnown
<1> QED BY <1>2, <1>3, <1>4 DEF Knows

\* What a process knows at a place where nothing new is known.
LEMMA NothingNew ==
    ASSUME KInv, Upkeep, NEW p \in Procs, proc'[p].saw \subseteq proc[p].saw,
           proc'[p].ph \notin {"inspect", "alter", "index", "write"},
           \/ proc'[p].ph = "off"
           \/ proc[p].ph \notin {"off", "inspect", "alter"}
    PROVE  Knows(p)'
<1>1. SawKept(p)'
  BY SawStaysKept
<1>2. Upgraded(p)'
  <2>1. \A t \in Tables : db'.missing[t] \subseteq db.missing[t]
    BY DEF Upkeep
  <2> QED BY <2>1 DEF KInv, Knows, Upgraded
<1>3. RowsKnown(p)'
  BY DEF RowsKnown
<1> QED BY <1>1, <1>2, <1>3 DEF Knows

\* Most steps leave the file alone and learn nothing.
LEMMA QuietStep ==
    ASSUME KInv, db' = db, crossed' = crossed,
           NEW p \in Procs, NEW q, Becomes(p, q), q.saw \subseteq proc[p].saw,
           q.ph \notin {"inspect", "alter", "index", "write"},
           \/ q.ph = "off"
           \/ proc[p].ph \notin {"off", "inspect", "alter"}
    PROVE  Upkeep /\ Knows(p)'
<1>1. proc'[p] = q
  BY DEF Becomes, KInv, IInv, TypeOK
<1> QED BY <1>1, QuietUpkeep, NothingNew

LEMMA StopIsQuiet ==
    ASSUME KInv, db' = db, crossed' = crossed, NEW p \in Procs, Becomes(p, Off)
    PROVE  Upkeep /\ Knows(p)'
<1>1. Off.saw = {} /\ Off.ph = "off"
  BY DEF Off
<1> QED BY <1>1, QuietStep

LEMMA StartLearns ==
    ASSUME KInv, NEW p \in Procs, Start(p) PROVE Upkeep /\ Knows(p)'
<1>1. PICK cmd \in Commands :
         Becomes(p, [Off EXCEPT !.ph = "inspect", !.cmd = cmd])
  BY DEF Start
<1>2. /\ proc'[p] = [Off EXCEPT !.ph = "inspect", !.cmd = cmd]
      /\ db' = db /\ crossed' = crossed
  BY <1>1 DEF Becomes, KInv, IInv, TypeOK, Start, OnlyProc
<1>3. proc'[p].ph = "inspect" /\ proc'[p].at = 1 /\ proc'[p].saw = {}
  BY <1>2 DEF Off
<1> QED BY <1>2, <1>3, QuietUpkeep DEF Knows, Upgraded, RowsKnown, SawKept

\* On to the next table, or to the next part after the last one.
LEMMA NextTableIsNext ==
    ASSUME NEW q \in ProcRecords, NEW again \in {"inspect", "read"},
           NEW done \in {"read", "list"}, NEW n,
           n = NextTable(q, q.at, again, done)
    PROVE  /\ n.saw = q.saw /\ n.todo = q.todo /\ n.rows = q.rows
           /\ \/ n.ph = again /\ n.at = q.at + 1 /\ q.at + 1 \in DOMAIN Order
              \/ n.ph = done /\ \A j \in DOMAIN Order : j \in 1..q.at
<1>1. q.at \in 1..Len(Order) /\ Len(Order) \in Nat /\ DOMAIN Order = 1..Len(Order)
  BY OrderIsThere DEF ProcRecords
<1>2. CASE q.at < Len(Order)
  <2>1. n = [q EXCEPT !.ph = again, !.at = q.at + 1]
    BY <1>2 DEF NextTable
  <2> QED BY <1>1, <1>2, <2>1 DEF ProcRecords
<1>3. CASE ~(q.at < Len(Order))
  <2>1. n = [q EXCEPT !.ph = done, !.at = 1]
    BY <1>3 DEF NextTable
  <2> QED BY <1>1, <1>3, <2>1 DEF ProcRecords
<1> QED BY <1>2, <1>3

\* A table that lacks nothing any more is behind the process.
LEMMA TableIsBehind ==
    ASSUME KInv, Upkeep, NEW p \in Procs, NEW q \in ProcRecords,
           proc[p].ph \in {"inspect", "alter"}, q.at = proc[p].at,
           q.saw = proc[p].saw, db'.missing[Order[q.at]] = {},
           proc'[p] = NextTable(q, q.at, "inspect", "read")
    PROVE  Knows(p)'
<1> DEFINE n == proc'[p]
<1>1. /\ n.saw = q.saw
      /\ \/ n.ph = "inspect" /\ n.at = q.at + 1 /\ q.at + 1 \in DOMAIN Order
         \/ n.ph = "read" /\ \A j \in DOMAIN Order : j \in 1..q.at
  <2>1. \A m : m = NextTable(q, q.at, "inspect", "read") =>
          /\ m.saw = q.saw
          /\ \/ m.ph = "inspect" /\ m.at = q.at + 1 /\ q.at + 1 \in DOMAIN Order
             \/ m.ph = "read" /\ \A j \in DOMAIN Order : j \in 1..q.at
    BY NextTableIsNext
  <2> QED BY <2>1
<1>2. q.at \in 1..Len(Order) /\ Len(Order) \in Nat
  BY OrderIsThere DEF ProcRecords
<1>3. \A j \in 1..q.at : db'.missing[Order[j]] = {}
  <2>1. \A j \in 1..(q.at - 1) : db.missing[Order[j]] = {}
    BY DEF KInv, Knows, Upgraded
  <2>2. \A j \in 1..(q.at - 1) : db'.missing[Order[j]] \subseteq db.missing[Order[j]]
    BY <1>2, OrderIsThere DEF Upkeep
  <2>3. \A j \in 1..q.at : j = q.at \/ j \in 1..(q.at - 1)
    BY <1>2
  <2> QED BY <2>1, <2>2, <2>3
<1>4. Upgraded(p)'
  <2>1. CASE n.ph = "inspect" /\ n.at = q.at + 1
    <3>1. n.at - 1 = q.at
      BY <1>2, <2>1
    <3> QED BY <1>3, <2>1, <3>1 DEF Upgraded
  <2>2. CASE n.ph = "read" /\ \A j \in DOMAIN Order : j \in 1..q.at
    <3>1. \A t \in Tables : db'.missing[t] = {}
      BY <1>3, <2>2 DEF Tables
    <3> QED BY <2>2, <3>1 DEF Upgraded
  <2> QED BY <1>1, <2>1, <2>2
<1>5. RowsKnown(p)'
  BY <1>1 DEF RowsKnown
<1>6. SawKept(p)'
  BY <1>1, SawStaysKept
<1> QED BY <1>4, <1>5, <1>6 DEF Knows

LEMMA InspectLearns ==
    ASSUME KInv, NEW p \in Procs, Inspect(p) PROVE Upkeep /\ Knows(p)'
<1> DEFINE q == proc[p]
           t == Order[q.at]
           lacks == MissingColumns(t)
<1>1. /\ db' = db /\ crossed' = crossed /\ q \in ProcRecords /\ q.ph = "inspect"
      /\ proc \in [Procs -> ProcRecords] /\ SchemaSound /\ Knows(p)
  BY DEF Inspect, At, OnlyProc, KInv, IInv, TypeOK
<1>2. t \in Tables
  BY <1>1, OrderIsThere DEF ProcRecords
<1>3. db.missing[t] = lacks
  BY <1>1, <1>2 DEF MissingColumns, SchemaSound
<1>4. CASE lacks = {}
  <2>1. proc'[p] = NextTable(q, q.at, "inspect", "read")
    BY <1>1, <1>4 DEF Inspect, Becomes
  <2> QED BY <1>1, <1>3, <1>4, <2>1, QuietUpkeep, TableIsBehind
<1>5. CASE lacks # {}
  <2>1. proc'[p] = [q EXCEPT !.ph = "alter", !.todo = lacks]
    BY <1>1, <1>5 DEF Inspect, Becomes
  <2>2. /\ proc'[p].ph = "alter" /\ proc'[p].todo = lacks
        /\ proc'[p].at = q.at /\ proc'[p].saw = q.saw
    BY <1>1, <2>1 DEF ProcRecords
  <2>3. Upkeep /\ SawKept(p)'
    BY <1>1, <2>2, QuietUpkeep, SawStaysKept
  <2>4. Upgraded(p)'
    BY <1>1, <1>3, <2>2 DEF Knows, Upgraded
  <2>5. RowsKnown(p)'
    BY <2>2 DEF RowsKnown
  <2> QED BY <2>3, <2>4, <2>5 DEF Knows
<1> QED BY <1>4, <1>5

\* A column, a table or an index more, and the rows as they are.
LEMMA SchemaUpkeep ==
    ASSUME db'.rows = db.rows, crossed' = crossed,
           \A t \in Tables : /\ db'.missing[t] \subseteq db.missing[t]
                             /\ db.exists[t] => db'.exists[t],
           \A t \in Keyed : /\ db.indexed[t] => db'.indexed[t]
                            /\ db'.indexed[t] => db.indexed[t] \/ Distinct(db.rows[t])
    PROVE  Upkeep
BY DEF Upkeep

LEMMA AlterLearns ==
    ASSUME KInv, NEW p \in Procs, Alter(p) PROVE Upkeep /\ Knows(p)'
<1> DEFINE q == proc[p]
           t == Order[q.at]
<1>1. /\ crossed' = crossed /\ q \in ProcRecords /\ q.ph = "alter"
      /\ proc \in [Procs -> ProcRecords] /\ db \in Databases /\ Knows(p)
  BY DEF Alter, At, Upgrading, KInv, IInv, TypeOK
<1>2. t \in Tables
  BY <1>1, OrderIsThere DEF ProcRecords
<1>3. PICK c \in q.todo :
         IF c \notin db.missing[t] THEN Dies(p)
         ELSE /\ db' = [db EXCEPT !.missing[t] = @ \ {c}]
              /\ IF q.todo = {c}
                 THEN Becomes(p, NextTable([q EXCEPT !.todo = {}], q.at,
                                           "inspect", "read"))
                 ELSE Becomes(p, [q EXCEPT !.todo = @ \ {c}])
  BY DEF Alter
<1>4. CASE c \notin db.missing[t]
  BY <1>1, <1>3, <1>4, StopIsQuiet DEF Dies
<1>5. CASE c \in db.missing[t]
  <2>1. db' = [db EXCEPT !.missing[t] = @ \ {c}]
    BY <1>3, <1>5
  <2>2. /\ db'.rows = db.rows /\ db'.exists = db.exists /\ db'.indexed = db.indexed
        /\ db'.missing = [db.missing EXCEPT ![t] = @ \ {c}]
    BY <1>1, <2>1 DEF Databases
  <2>3. \A u \in Tables : db'.missing[u] \subseteq db.missing[u]
    BY <1>1, <2>2 DEF Databases
  <2>4. db'.missing[t] = db.missing[t] \ {c}
    BY <1>1, <1>2, <2>2 DEF Databases
  <2>5. Upkeep
    BY <1>1, <2>2, <2>3, SchemaUpkeep
  <2>6. db.missing[t] \subseteq q.todo
    BY <1>1 DEF Knows, Upgraded
  <2>7. CASE q.todo = {c}
    <3> DEFINE r == [q EXCEPT !.todo = {}]
    <3>1. r \in ProcRecords /\ r.at = q.at /\ r.saw = q.saw
      BY <1>1 DEF ProcRecords
    <3>2. proc'[p] = NextTable(r, r.at, "inspect", "read")
      BY <1>1, <1>3, <1>5, <2>7, <3>1 DEF Becomes
    <3>3. db'.missing[Order[r.at]] = {}
      BY <2>4, <2>6, <2>7, <3>1
    <3> HIDE DEF r
    <3> QED BY <1>1, <2>5, <3>1, <3>2, <3>3, TableIsBehind
  <2>8. CASE q.todo # {c}
    <3>1. proc'[p] = [q EXCEPT !.todo = @ \ {c}]
      BY <1>1, <1>3, <1>5, <2>8 DEF Becomes
    <3>2. /\ proc'[p].ph = "alter" /\ proc'[p].todo = q.todo \ {c}
          /\ proc'[p].at = q.at /\ proc'[p].saw = q.saw
      BY <1>1, <3>1 DEF ProcRecords
    <3>3. SawKept(p)' /\ RowsKnown(p)'
      BY <2>5, <3>2, SawStaysKept DEF RowsKnown
    <3>4. \A j \in 1..(q.at - 1) : db'.missing[Order[j]] = {}
      <4>1. \A j \in 1..(q.at - 1) : db.missing[Order[j]] = {}
        BY <1>1 DEF Knows, Upgraded
      <4>2. \A j \in 1..(q.at - 1) : Order[j] \in Tables
        BY <1>1, OrderIsThere DEF ProcRecords
      <4> QED BY <2>3, <4>1, <4>2
    <3>5. db'.missing[t] \subseteq q.todo \ {c}
      BY <2>4, <2>6
    <3>6. Upgraded(p)'
      BY <3>2, <3>4, <3>5 DEF Upgraded
    <3> QED BY <2>5, <3>3, <3>6 DEF Knows
  <2> QED BY <2>7, <2>8
<1> QED BY <1>4, <1>5

\* What has just been read has the names and the keys that are there.
LEMMA ReadRowsLearns ==
    ASSUME KInv, NEW p \in Procs, ReadRows(p) PROVE Upkeep /\ Knows(p)'
<1> DEFINE q == proc[p]
           t == Order[q.at]
<1>1. /\ db' = db /\ crossed' = crossed /\ q \in ProcRecords /\ q.ph = "read"
      /\ proc \in [Procs -> ProcRecords] /\ SchemaSound /\ Knows(p)
  BY DEF ReadRows, At, OnlyProc, KInv, IInv, TypeOK
<1>2. CASE ~HasKeys(t)
  <2> DEFINE n == NextTable(q, q.at, "read", "list")
  <2>1. Becomes(p, n)
    BY <1>2 DEF ReadRows
  <2>2. n.saw = q.saw /\ n.ph \in {"read", "list"}
    BY <1>1, NextTableIsNext
  <2> HIDE DEF n
  <2> QED BY <1>1, <2>1, <2>2, QuietStep
<1>3. CASE HasKeys(t)
  <2>1. t \in Keyed
    BY <1>3 DEF HasKeys
  <2>2. proc'[p] = [q EXCEPT !.ph = "write", !.rows = db.rows[t]]
    BY <1>1, <1>3 DEF ReadRows, Becomes
  <2>3. /\ proc'[p].ph = "write" /\ proc'[p].rows = db.rows[t]
        /\ proc'[p].at = q.at /\ proc'[p].saw = q.saw
    BY <1>1, <2>2 DEF ProcRecords
  <2>4. Upkeep /\ SawKept(p)'
    BY <1>1, <2>3, QuietUpkeep, SawStaysKept
  <2>5. Upgraded(p)'
    BY <1>1, <2>3 DEF Knows, Upgraded
  <2>6. t \notin crossed => Kept(db.rows[t], db.rows[t])
    BY <1>1, <2>1 DEF Kept, SchemaSound
  <2>7. RowsKnown(p)'
    BY <1>1, <2>3, <2>6 DEF RowsKnown
  <2> QED BY <2>4, <2>5, <2>7 DEF Knows
<1> QED BY <1>2, <1>3

\* The UPDATEs leave every row with the key of its name, unless a name was
\* changed since the rows were read.
LEMMA BackfilledRowsAreNormal ==
    ASSUME NEW t \in Keyed, NEW read \in RowSets, db.rows[t] \in RowSets,
           Used(read) \subseteq Used(db.rows[t]), Kept(read, db.rows[t])
    PROVE  LET new == Backfilled(t, read) IN
           \A i \in 1..MaxRows : db.rows[t][i] # NoRow =>
              Normal(new[i]) /\ new[i].name = db.rows[t][i].name
<1> SUFFICES ASSUME NEW i \in 1..MaxRows, db.rows[t][i] # NoRow
             PROVE  /\ Normal(Backfilled(t, read)[i])
                    /\ Backfilled(t, read)[i].name = db.rows[t][i].name
  OBVIOUS
<1> DEFINE now == db.rows[t]
           new == Backfilled(t, read)
<1>1. i \in Used(now) /\ (i \in Used(read) <=> read[i] # NoRow)
  BY DEF Used, RowSets
<1>2. CASE read[i] = NoRow
  <2>1. new[i] = now[i]
    BY <1>2 DEF Backfilled
  <2> QED BY <1>1, <1>2, <2>1 DEF Kept
<1>3. CASE read[i] # NoRow
  <2>1. new[i] = [name |-> IF t = "users" THEN now[i].name ELSE read[i].name,
                  key |-> Value(read[i])]
    BY <1>3 DEF Backfilled
  <2>2. /\ now[i].name = read[i].name
        /\ read[i].key = "null" \/ Normal(read[i])
    BY <1>1, <1>3 DEF Kept
  <2>3. Value(read[i]) = NormOf[read[i].name]
    BY <2>2 DEF Value, Normal
  <2> QED BY <2>1, <2>2, <2>3 DEF Normal
<1> QED BY <1>2, <1>3

LEMMA WriteRowsLearns ==
    ASSUME KInv, NEW p \in Procs, WriteRows(p) PROVE Upkeep /\ Knows(p)'
<1> DEFINE q == proc[p]
           t == Order[q.at]
           now == db.rows[t]
           new == Backfilled(t, q.rows)
<1>1. /\ crossed' = crossed /\ q \in ProcRecords /\ q.ph = "write"
      /\ proc \in [Procs -> ProcRecords] /\ db \in Databases /\ TypeOK
      /\ Sound(p) /\ Knows(p)
  BY DEF WriteRows, At, Upgrading, KInv, IInv, TypeOK
<1>2. CASE ~Distinct(new)
  <2>1. Becomes(p, Off) /\ db' = db
    BY <1>2 DEF WriteRows, Dies
  <2> QED BY <1>1, <2>1, StopIsQuiet
<1>3. CASE Distinct(new)
  <2> DEFINE r == [q EXCEPT !.rows = NothingRead, !.saw = @ \cup {t}]
             n == NextTable(r, r.at, "read", "list")
  <2>1. t \in Keyed /\ Used(q.rows) \subseteq Used(now)
    BY <1>1 DEF Sound
  <2>2. q.rows \in RowSets /\ now \in RowSets /\ q.saw \subseteq Keyed
    BY <1>1, <2>1 DEF ProcRecords, Databases
  <2>3. /\ new \in RowSets /\ Used(new) = Used(now)
    BY <1>1, <2>1, <2>2, BackfillKeepsRows
  <2>4. r \in ProcRecords /\ r.at = q.at /\ r.saw = q.saw \cup {t}
    <3>1. q.saw \cup {t} \subseteq Keyed
      BY <2>1, <2>2
    <3> QED BY <1>1, <3>1, OffIsTyped DEF ProcRecords
  <2>5. /\ db' = [db EXCEPT !.rows[t] = new, !.indexed[t] = TRUE]
        /\ Becomes(p, NextTable(r, q.at, "read", "list"))
    BY <1>3 DEF WriteRows, IndexMade
  <2>6. ASSUME t \notin crossed
        PROVE  \A i \in Used(now) : Normal(new[i]) /\ new[i].name = now[i].name
    <3>1. Kept(q.rows, now)
      BY <1>1, <2>6 DEF Knows, RowsKnown
    <3>2. \A i \in Used(now) : i \in 1..MaxRows /\ now[i] # NoRow
      BY <2>2 DEF Used, RowSets
    <3> QED BY <2>1, <2>2, <3>1, <3>2, BackfilledRowsAreNormal
  <2> HIDE DEF r, new
  <2>7. proc'[p] = n
    BY <1>1, <2>4, <2>5 DEF Becomes
  <2>8. n.saw = q.saw \cup {t} /\ n.ph \in {"read", "list"}
    BY <2>4, NextTableIsNext
  <2> HIDE DEF n
  <2>9. /\ db'.rows = [db.rows EXCEPT ![t] = new]
        /\ db'.indexed = [db.indexed EXCEPT ![t] = TRUE]
        /\ db'.missing = db.missing /\ db'.exists = db.exists
    BY <1>1, <2>5 DEF Databases
  <2>10. /\ db'.rows[t] = new /\ db'.indexed[t] = TRUE
         /\ \A u \in Keyed \ {t} :
              db'.rows[u] = db.rows[u] /\ db'.indexed[u] = db.indexed[u]
    BY <1>1, <2>1, <2>9 DEF Databases
  <2>11. Upkeep
    <3>1. ASSUME NEW u \in Keyed
          PROVE  /\ db.indexed[u] => db'.indexed[u]
                 /\ db'.indexed[u] => db.indexed[u] \/ Distinct(db'.rows[u])
                 /\ db'.rows[u] = db.rows[u] \/ Distinct(db'.rows[u])
      BY <1>3, <2>10 DEF new
    <3>2. ASSUME NEW u \in Keyed \ crossed'
          PROVE  /\ \A i \in Used(db'.rows[u]) :
                      \/ Normal(db'.rows[u][i])
                      \/ i \in Used(db.rows[u]) /\ db'.rows[u][i] = db.rows[u][i]
                 /\ \A i \in Used(db.rows[u]) :
                      db'.rows[u][i].name = db.rows[u][i].name
      BY <1>1, <2>3, <2>6, <2>10
    <3> QED BY <1>1, <2>9, <3>1, <3>2 DEF Upkeep
  <2>12. SawKept(p)'
    <3> SUFFICES ASSUME NEW u \in (q.saw \cup {t}) \ crossed
                 PROVE  db'.indexed[u] /\ AllNormal(db'.rows[u])
      BY <1>1, <2>7, <2>8 DEF SawKept
    <3>1. CASE u = t
      BY <2>3, <2>6, <2>10, <3>1 DEF AllNormal
    <3>2. CASE u # t
      <4>1. u \in Keyed \ {t} /\ db.indexed[u] /\ AllNormal(db.rows[u])
        BY <1>1, <2>2, <3>2 DEF Knows, SawKept
      <4> QED BY <2>10, <4>1
    <3> QED BY <3>1, <3>2
  <2>13. Upgraded(p)' /\ RowsKnown(p)'
    <3>1. \A u \in Tables : db.missing[u] = {}
      BY <1>1 DEF Knows, Upgraded
    <3> QED BY <2>7, <2>8, <2>9, <3>1 DEF Upgraded, RowsKnown
  <2> QED BY <2>11, <2>12, <2>13 DEF Knows
<1> QED BY <1>2, <1>3

LEMMA CreateTableLearns ==
    ASSUME KInv, NEW p \in Procs, CreateTable(p) PROVE Upkeep /\ Knows(p)'
<1> DEFINE q == proc[p]
<1>1. /\ crossed' = crossed /\ q \in ProcRecords /\ q.ph = "create"
      /\ proc \in [Procs -> ProcRecords] /\ db \in Databases
      /\ SchemaSound /\ Knows(p)
  BY DEF CreateTable, At, Upgrading, KInv, IInv, TypeOK
<1>2. PICK t \in q.todo :
         /\ t = First(q.todo)
         /\ IF db.exists[t] THEN Dies(p)
            ELSE /\ db' = [db EXCEPT !.exists[t] = TRUE]
                 /\ IF t \in Keyed THEN Becomes(p, [q EXCEPT !.ph = "index"])
                    ELSE Becomes(p, Created(q, t))
  BY DEF CreateTable
<1>3. CASE db.exists[t]
  BY <1>1, <1>2, <1>3, StopIsQuiet DEF Dies
<1>4. CASE ~db.exists[t]
  <2>1. db' = [db EXCEPT !.exists[t] = TRUE]
    BY <1>2, <1>4
  <2>2. /\ db'.rows = db.rows /\ db'.missing = db.missing /\ db'.indexed = db.indexed
        /\ \A u \in Tables : db.exists[u] => db'.exists[u]
    BY <1>1, <2>1 DEF Databases, AllTables
  <2>3. Upkeep
    BY <1>1, <2>2, SchemaUpkeep
  <2>4. CASE t \in Keyed
    <3>1. proc'[p] = [q EXCEPT !.ph = "index"]
      BY <1>1, <1>2, <1>4, <2>4 DEF Becomes
    <3>2. /\ proc'[p].ph = "index" /\ proc'[p].todo = q.todo
          /\ proc'[p].saw = q.saw
      BY <1>1, <3>1 DEF ProcRecords
    <3>3. Distinct(db'.rows[t])
      BY <1>1, <1>4, <2>2, <2>4 DEF SchemaSound
    <3>4. RowsKnown(p)'
      BY <1>2, <3>2, <3>3 DEF RowsKnown
    <3>5. Upgraded(p)'
      BY <1>1, <2>2, <3>2 DEF Knows, Upgraded
    <3> QED BY <2>3, <3>2, <3>4, <3>5, SawStaysKept DEF Knows
  <2>5. CASE t \notin Keyed
    <3>1. proc'[p] = Created(q, t)
      BY <1>1, <1>2, <1>4, <2>5 DEF Becomes
    <3>2. Created(q, t).saw = q.saw
      BY <1>1 DEF Created, ProcRecords
    <3> QED BY <1>1, <2>3, <3>1, <3>2, CreatedIsTyped, NothingNew
  <2> QED BY <2>4, <2>5
<1> QED BY <1>3, <1>4

LEMMA CreateIndexLearns ==
    ASSUME KInv, NEW p \in Procs, CreateIndex(p) PROVE Upkeep /\ Knows(p)'
<1> DEFINE q == proc[p]
<1>1. /\ crossed' = crossed /\ q \in ProcRecords /\ q.ph = "index"
      /\ proc \in [Procs -> ProcRecords] /\ db \in Databases /\ Knows(p)
  BY DEF CreateIndex, At, Upgrading, KInv, IInv, TypeOK
<1>2. PICK t \in q.todo \cap Keyed :
         /\ t = First(q.todo)
         /\ IF db.indexed[t] THEN Dies(p)
            ELSE /\ db' = [db EXCEPT !.indexed[t] = TRUE]
                 /\ Becomes(p, Created(q, t))
  BY DEF CreateIndex
<1>3. CASE db.indexed[t]
  BY <1>1, <1>2, <1>3, StopIsQuiet DEF Dies
<1>4. CASE ~db.indexed[t]
  <2>1. db' = [db EXCEPT !.indexed[t] = TRUE] /\ Becomes(p, Created(q, t))
    BY <1>2, <1>4
  <2>2. /\ db'.rows = db.rows /\ db'.missing = db.missing /\ db'.exists = db.exists
        /\ db'.indexed = [db.indexed EXCEPT ![t] = TRUE]
    BY <1>1, <2>1 DEF Databases
  <2>3. Distinct(db.rows[t])
    BY <1>1, <1>2 DEF Knows, RowsKnown
  <2>4. \A u \in Keyed : /\ db.indexed[u] => db'.indexed[u]
                         /\ db'.indexed[u] => db.indexed[u] \/ Distinct(db.rows[u])
    BY <1>1, <2>2, <2>3 DEF Databases
  <2>5. Upkeep
    BY <1>1, <2>2, <2>4, SchemaUpkeep
  <2>6. proc'[p] = Created(q, t)
    BY <1>1, <2>1 DEF Becomes
  <2>7. Created(q, t).saw = q.saw
    BY <1>1 DEF Created, ProcRecords
  <2> QED BY <1>1, <2>5, <2>6, <2>7, CreatedIsTyped, NothingNew
<1> QED BY <1>3, <1>4

\* The steps after the upgrade that leave the file alone.
LEMMA LaterStepsAreQuiet ==
    ASSUME KInv, NEW p \in Procs,
           \/ ListTables(p) \/ ReadState(p) \/ ReadCount(p)
           \/ Begin(p) \/ Allow(p) \/ LookForUsers(p)
    PROVE  Upkeep /\ Knows(p)'
<1> DEFINE q == proc[p]
<1>1. /\ q \in ProcRecords /\ proc \in [Procs -> ProcRecords]
  BY DEF KInv, IInv, TypeOK
<1>2. db' = db /\ crossed' = crossed
  BY DEF ListTables, ReadState, ReadCount, Begin, Allow, LookForUsers, OnlyProc
<1>3. CASE ListTables(p)
  <2> DEFINE absent == {t \in AllTables : ~db.exists[t]}
             ph == IF absent = {} THEN "read_state" ELSE "create"
             new == [q EXCEPT !.todo = absent, !.ph = ph]
  <2>1. q.ph = "list" /\ Becomes(p, new) /\ ph \in {"read_state", "create"}
    BY <1>3 DEF ListTables, At
  <2> HIDE DEF absent, ph
  <2>2. new.saw = q.saw /\ new.ph = ph
    BY <1>1 DEF ProcRecords
  <2> HIDE DEF new
  <2> QED BY <1>2, <2>1, <2>2, QuietStep
<1>4. CASE ReadState(p)
  <2> DEFINE new == [q EXCEPT !.ph = "read_count", !.state = db.inst]
  <2>1. q.ph = "read_state" /\ Becomes(p, new)
    BY <1>4 DEF ReadState, At
  <2>2. new.saw = q.saw /\ new.ph = "read_count"
    BY <1>1 DEF ProcRecords
  <2> HIDE DEF new
  <2> QED BY <1>2, <2>1, <2>2, QuietStep
<1>5. CASE ReadCount(p)
  <2> DEFINE new == [q EXCEPT !.ph = "write_state", !.count = Users]
  <2>1. q.ph = "read_count" /\ Becomes(p, new)
    BY <1>5 DEF ReadCount, At
  <2>2. new.saw = q.saw /\ new.ph = "write_state"
    BY <1>1 DEF ProcRecords
  <2> HIDE DEF new
  <2> QED BY <1>2, <2>1, <2>2, QuietStep
<1>6. CASE Begin(p) \/ Allow(p) \/ LookForUsers(p)
  <2>1. PICK ph \in {"check", "insert", "prompt"} :
          /\ q.ph \in {"begin", "check", "look"}
          /\ Becomes(p, Off) \/ Becomes(p, [q EXCEPT !.ph = ph])
    BY <1>6 DEF Begin, Allow, LookForUsers, At
  <2>2. CASE Becomes(p, Off)
    BY <1>2, <2>2, StopIsQuiet
  <2>3. CASE Becomes(p, [q EXCEPT !.ph = ph])
    <3> DEFINE new == [q EXCEPT !.ph = ph]
    <3>1. new.saw = q.saw /\ new.ph = ph
      BY <1>1 DEF ProcRecords
    <3> HIDE DEF new
    <3>2. Becomes(p, new)
      BY <2>3 DEF new
    <3> QED BY <1>2, <2>1, <3>1, <3>2, QuietStep
  <2> QED BY <2>1, <2>2, <2>3
<1> QED BY <1>3, <1>4, <1>5, <1>6

LEMMA EndsAreQuiet ==
    ASSUME KInv, NEW p \in Procs,
           Refuse(p) \/ Stop(p) \/ LockTimesOut(p) \/ Kill(p)
    PROVE  Upkeep /\ Knows(p)'
<1>1. Becomes(p, Off) /\ db' = db /\ crossed' = crossed
  BY DEF Refuse, Stop, LockTimesOut, Kill, OnlyProc
<1> QED BY <1>1, StopIsQuiet

LEMMA WriteStateLearns ==
    ASSUME KInv, NEW p \in Procs, WriteState(p) PROVE Upkeep /\ Knows(p)'
<1> DEFINE q == proc[p]
<1>1. /\ crossed' = crossed /\ q \in ProcRecords /\ q.ph = "write_state"
      /\ proc \in [Procs -> ProcRecords] /\ db \in Databases
  BY DEF WriteState, At, Upgrading, KInv, IInv, TypeOK
<1>2. /\ Becomes(p, Off) \/ Becomes(p, Serving(q))
      /\ db' = db \/ db' = [db EXCEPT !.inst = Desired(q.count)]
  BY DEF WriteState, Dies
<1>3. Serving(q).saw = q.saw /\ Off.saw = {} /\ Off.ph = "off"
  BY DEF Serving, Off
<1>4. Serving(q).ph \in {"serving", "look", "begin"}
  BY <1>1, ServingIsTyped
<1>5. /\ proc'[p].saw \subseteq q.saw
      /\ proc'[p].ph \in {"off", "serving", "look", "begin"}
  BY <1>1, <1>2, <1>3, <1>4 DEF Becomes
<1>6. /\ db'.rows = db.rows /\ db'.missing = db.missing
      /\ db'.indexed = db.indexed /\ db'.exists = db.exists
  BY <1>1, <1>2 DEF Databases
<1>7. Upkeep
  BY <1>1, <1>6, SchemaUpkeep
<1> QED BY <1>1, <1>5, <1>7, NothingNew

\* The rows of one table change to distinct ones.
LEMMA RowsUpkeep ==
    ASSUME db \in Databases, NEW t \in Keyed, NEW new, Distinct(new),
           db'.rows = [db.rows EXCEPT ![t] = new],
           db'.missing = db.missing, db'.exists = db.exists,
           db'.indexed = db.indexed, crossed \subseteq crossed',
           t \notin crossed' =>
              /\ \A i \in Used(new) :
                   Normal(new[i]) \/ (i \in Used(db.rows[t]) /\ new[i] = db.rows[t][i])
              /\ (\E o \in Procs : Writing(o, t)) =>
                   \A i \in Used(db.rows[t]) : new[i].name = db.rows[t][i].name
    PROVE  Upkeep
<1>1. /\ db'.rows[t] = new
      /\ \A u \in Keyed \ {t} : db'.rows[u] = db.rows[u]
  BY DEF Databases
<1>2. ASSUME NEW u \in Keyed
      PROVE  db'.rows[u] = db.rows[u] \/ Distinct(db'.rows[u])
  BY <1>1
<1>3. ASSUME NEW u \in Keyed \ crossed'
      PROVE  /\ \A i \in Used(db'.rows[u]) :
                  \/ Normal(db'.rows[u][i])
                  \/ i \in Used(db.rows[u]) /\ db'.rows[u][i] = db.rows[u][i]
             /\ (\E o \in Procs : Writing(o, u)) =>
                  \A i \in Used(db.rows[u]) : db'.rows[u][i].name = db.rows[u][i].name
  BY <1>1
<1> QED BY <1>2, <1>3 DEF Upkeep

\* An account comes with its key, in a place where there was none.
LEMMA InsertLearns ==
    ASSUME KInv, NEW p \in Procs, NEW name \in Names, HasPlace(db.rows["users"]),
           Distinct(Inserted(db.rows["users"], name)),
           db' = [db EXCEPT !.rows["users"] = Inserted(db.rows["users"], name),
                            !.inst = "initialized"],
           crossed' = crossed, Becomes(p, Off)
    PROVE  Upkeep /\ Knows(p)'
<1> DEFINE now == db.rows["users"]
           new == Inserted(now, name)
           i == CHOOSE i \in DOMAIN now : now[i] = NoRow
           row == [name |-> name, key |-> NormOf[name]]
<1>1. db \in Databases /\ "users" \in Keyed /\ now \in RowSets
  BY InstallationAssumption DEF KInv, IInv, TypeOK, Databases
<1>2. i \in 1..MaxRows /\ now[i] = NoRow
  BY <1>1 DEF HasPlace, RowSets
<1>3. new = [now EXCEPT ![i] = row]
  BY DEF Inserted
<1>4. Normal(row)
  BY DEF Normal
<1> HIDE DEF i, row
<1>5. \A j \in Used(new) : Normal(new[j]) \/ (j \in Used(now) /\ new[j] = now[j])
  BY <1>1, <1>2, <1>3, <1>4 DEF Used, RowSets
<1>6. \A j \in Used(now) : new[j].name = now[j].name
  BY <1>1, <1>2, <1>3 DEF Used, RowSets
<1> HIDE DEF new
<1>7. db' = [db EXCEPT !.rows["users"] = new, !.inst = "initialized"]
  BY DEF new
<1>8. /\ db'.rows = [db.rows EXCEPT !["users"] = new]
      /\ db'.missing = db.missing /\ db'.exists = db.exists
      /\ db'.indexed = db.indexed
  BY <1>1, <1>7 DEF Databases
<1>9. Distinct(new)
  BY DEF new
<1>10. Upkeep
  BY <1>1, <1>5, <1>6, <1>8, <1>9, RowsUpkeep
<1>11. proc'[p].saw = {} /\ proc'[p].ph = "off"
  BY DEF Becomes, Off, KInv, IInv, TypeOK
<1> QED BY <1>10, <1>11, NothingNew

LEMMA CommitsLearn ==
    ASSUME KInv, NEW p \in Procs, CommitBootstrap(p) \/ CommitSeed(p)
    PROVE  Upkeep /\ Knows(p)'
<1>1. /\ Becomes(p, Off) /\ crossed' = crossed /\ HasPlace(db.rows["users"])
  BY DEF CommitBootstrap, CommitSeed, Upgrading
<1>2. PICK name \in Names :
         \/ db' = db
         \/ /\ Distinct(Inserted(db.rows["users"], name))
            /\ db' = [db EXCEPT !.rows["users"] = Inserted(db.rows["users"], name),
                                !.inst = "initialized"]
  BY InstallationAssumption DEF CommitBootstrap, CommitSeed
<1> QED BY <1>1, <1>2, StopIsQuiet, InsertLearns

\* Who renames while somebody is about to write what he has read, crosses.
LEMMA RenameLearns ==
    ASSUME KInv, NEW p \in Procs, Rename(p) PROVE Upkeep /\ Knows(p)'
<1>1. /\ db \in Databases /\ proc' = proc /\ crossed \subseteq crossed'
      /\ proc[p].ph = "serving"
  BY DEF Rename, At, KInv, IInv, TypeOK
<1>2. PICK t \in Keyed, name \in Names : \E i \in Used(db.rows[t]) :
         LET new == [db.rows[t] EXCEPT ![i] = [name |-> name,
                                               key |-> NormOf[name]]] IN
         /\ Distinct(new)
         /\ db' = [db EXCEPT !.rows[t] = new]
         /\ (\E o \in Procs : Writing(o, t)) => t \in crossed'
  BY InstallationAssumption DEF Rename, Writing
<1>3. PICK i \in Used(db.rows[t]) :
         LET new == [db.rows[t] EXCEPT ![i] = [name |-> name,
                                               key |-> NormOf[name]]] IN
         /\ Distinct(new)
         /\ db' = [db EXCEPT !.rows[t] = new]
         /\ (\E o \in Procs : Writing(o, t)) => t \in crossed'
  BY <1>2
<1> DEFINE now == db.rows[t]
           row == [name |-> name, key |-> NormOf[name]]
           new == [now EXCEPT ![i] = row]
<1>4. Normal(row)
  BY DEF Normal
<1> HIDE DEF row
<1>5. \A j \in Used(new) : Normal(new[j]) \/ (j \in Used(now) /\ new[j] = now[j])
  BY <1>4 DEF Used
<1>6. Distinct(new) /\ db' = [db EXCEPT !.rows[t] = new]
  BY <1>3 DEF row
<1> HIDE DEF new
<1>7. /\ db'.rows = [db.rows EXCEPT ![t] = new]
      /\ db'.missing = db.missing /\ db'.exists = db.exists
      /\ db'.indexed = db.indexed
  BY <1>1, <1>6 DEF Databases
<1>8. Upkeep
  BY <1>1, <1>3, <1>5, <1>6, <1>7, RowsUpkeep
<1> QED BY <1>1, <1>8, NothingNew

LEMMA EveryStepLearns ==
    ASSUME KInv, NEW p \in Procs,
           Start(p) \/ Step(p) \/ Rename(p) \/ Stop(p) \/ LockTimesOut(p) \/ Kill(p)
    PROVE  Upkeep /\ Knows(p)'
<1>1. CASE Start(p) \/ Rename(p) \/ Stop(p) \/ LockTimesOut(p) \/ Kill(p)
  BY <1>1, StartLearns, RenameLearns, EndsAreQuiet
<1>2. CASE Step(p)
  <2>1. CASE Inspect(p) \/ Alter(p) \/ ReadRows(p) \/ WriteRows(p)
    BY <2>1, InspectLearns, AlterLearns, ReadRowsLearns, WriteRowsLearns
  <2>2. CASE CreateTable(p) \/ CreateIndex(p) \/ WriteState(p)
    BY <2>2, CreateTableLearns, CreateIndexLearns, WriteStateLearns
  <2>3. CASE CommitBootstrap(p) \/ CommitSeed(p) \/ Refuse(p)
    BY <2>3, CommitsLearn, EndsAreQuiet
  <2>4. CASE \/ ListTables(p) \/ ReadState(p) \/ ReadCount(p)
             \/ Begin(p) \/ Allow(p) \/ LookForUsers(p)
    BY <2>4, LaterStepsAreQuiet
  <2> QED BY <1>2, <2>1, <2>2, <2>3, <2>4 DEF Step
<1> QED BY <1>1, <1>2

LEMMA KeysInitially == Init => KInv
<1> SUFFICES ASSUME Init PROVE KInv
  OBVIOUS
<1>1. IInv /\ db \in Legacies /\ crossed = {}
  BY Initially DEF Init
<1>2. SchemaSound
  <2>1. \A t \in Keyed : ~db.exists[t] => Distinct(db.rows[t])
    BY <1>1, LegaciesAssumption DEF Distinct
  <2> QED BY <1>1, <2>1, LegaciesAssumption DEF SchemaSound
<1>3. ASSUME NEW p \in Procs PROVE Knows(p)
  <2>1. proc[p].ph = "off" /\ proc[p].saw = {}
    BY DEF Init, Off
  <2> QED BY <2>1 DEF Knows, Upgraded, RowsKnown, SawKept
<1> QED BY <1>1, <1>2, <1>3 DEF KInv

LEMMA KeysInductive == KInv /\ [Next]_vars => KInv'
<1> SUFFICES ASSUME KInv, [Next]_vars PROVE KInv'
  OBVIOUS
<1>1. IInv'
  BY Inductive DEF KInv
<1>2. CASE UNCHANGED vars
  <2>1. SchemaSound'
    BY <1>2 DEF KInv, SchemaSound, vars
  <2>2. \A p \in Procs : Knows(p)'
    BY <1>2 DEF KInv, Knows, Upgraded, RowsKnown, SawKept, vars
  <2> QED BY <1>1, <2>1, <2>2 DEF KInv
<1>3. CASE Next
  <2>1. PICK p \in Procs :
          Start(p) \/ Step(p) \/ Rename(p) \/ Stop(p) \/ LockTimesOut(p) \/ Kill(p)
    BY <1>3 DEF Next
  <2>2. Preserves(p) /\ Upkeep /\ Knows(p)'
    BY <2>1, EveryStepPreserves, EveryStepLearns DEF KInv
  <2>3. SchemaSound' /\ \A o \in Procs \ {p} : Knows(o)'
    BY <2>2, SchemaStaysSound, OthersStayInformed
  <2> QED BY <1>1, <2>2, <2>3 DEF KInv
<1> QED BY <1>2, <1>3

-----------------------------------------------------------------------------
(* The theorems.                                                           *)

\* The inductive invariant: types, what the lock protects, and what a command
\* in the middle of create_schema or bootstrap_admin can rely on.
THEOREM Invariance == Spec => []IInv
BY Initially, Inductive, PTL DEF Spec

\* The database and the records of the commands keep their types.
THEOREM TypeCorrect == Spec => []TypeOK
<1>1. IInv => TypeOK
  BY DEF IInv
<1> QED BY <1>1, Invariance, PTL

\* However many bootstrap_admin run, beside seed_demo, upgrades and kills: one
\* that succeeds is the first to do so and finds no account.
THEOREM FirstAdministrator == Spec => OneFirstAdministrator
<1>1. IInv /\ [Next]_vars => [firsts' # firsts => firsts = 0 /\ Users = 0]_vars
  <2> SUFFICES ASSUME IInv, Next, firsts' # firsts PROVE firsts = 0 /\ Users = 0
    OBVIOUS
  <2>1. PICK p \in Procs :
          Start(p) \/ Step(p) \/ Rename(p) \/ Stop(p) \/ LockTimesOut(p) \/ Kill(p)
    BY DEF Next
  <2> QED BY <2>1, CountersStayTyped, BootstrapIsTheFirst
<1> QED BY <1>1, Invariance, PTL DEF Spec, OneFirstAdministrator

\* _ensure_installation_state and the other commands never undo the mark.
THEOREM SetupIsOver == Spec => InitializedForGood
<1>1. IInv /\ [Next]_vars =>
        [db.inst = "initialized" => db'.inst = "initialized"]_vars
  <2> SUFFICES ASSUME IInv, Next, db.inst = "initialized"
               PROVE  db'.inst = "initialized"
    OBVIOUS
  <2>1. PICK p \in Procs :
          Start(p) \/ Step(p) \/ Rename(p) \/ Stop(p) \/ LockTimesOut(p) \/ Kill(p)
    BY DEF Next
  <2>2. Effect(p)
    BY <2>1, EveryStepPreserves DEF Preserves
  <2> QED BY <2>2 DEF Effect
<1> QED BY <1>1, Invariance, PTL DEF Spec, InitializedForGood

\* A portal that serves asks for setup only while there is no account.
THEOREM SetupIsForNobody == Spec => []SetupMeansEmpty
<1>1. IInv => SetupMeansEmpty
  <2> SUFFICES ASSUME IInv, NEW p \in Procs, proc[p].ph \in Ready
               PROVE  /\ db.inst # "none"
                      /\ db.inst = "needs_bootstrap" => Users = 0
    BY DEF SetupMeansEmpty
  <2>1. /\ db.inst # "none"
        /\ db.inst = "needs_bootstrap" => Accounts = {}
    BY DEF IInv, Sound
  <2> QED BY <2>1, UsersAreCounted DEF IInv, TypeOK
<1> QED BY <1>1, Invariance, PTL

\* The inductive invariant of the upgrade: which columns are there, and how the
\* rows that a process has read stand to those of the file.
THEOREM UpgradeInvariance == Spec => []KInv
BY KeysInitially, KeysInductive, PTL DEF Spec

\* However many processes upgrade one file, race, time out and are killed:
\* whoever is ready, and went through a table, has unique keys that are those
\* of the names, but where a rename fell between a backfill's SELECT and UPDATE.
THEOREM BackfilledKeys == Spec => []KeysAreThoseOfTheNames
<1>1. KInv => KeysAreThoseOfTheNames
  <2> SUFFICES ASSUME KInv, NEW p \in Procs, proc[p].ph \in Ready,
                      NEW t \in proc[p].saw \ crossed
               PROVE  /\ db.indexed[t] /\ db.missing[t] = {}
                      /\ Distinct(db.rows[t])
                      /\ \A i \in Used(db.rows[t]) : Normal(db.rows[t][i])
    BY DEF KeysAreThoseOfTheNames
  <2>1. t \in Keyed /\ t \in Tables
    BY InstallationAssumption DEF KInv, IInv, TypeOK, ProcRecords
  <2>2. db.indexed[t] /\ AllNormal(db.rows[t])
    BY DEF KInv, Knows, SawKept
  <2>3. db.missing[t] = {}
    BY <2>1 DEF KInv, Knows, Upgraded, Ready
  <2>4. Distinct(db.rows[t])
    BY <2>1, <2>2 DEF KInv, SchemaSound
  <2> QED BY <2>2, <2>3, <2>4 DEF AllNormal
<1> QED BY <1>1, UpgradeInvariance, PTL
=============================================================================

---------------------------- MODULE Installation ----------------------------
(***************************************************************************)
(* The first minutes of an installation, and every start after them: the   *)
(* commands of cli.py run as processes of their own on one SQLite file,    *)
(* each begins with create_schema, and any of them may be killed anywhere  *)
(* and started again.                                                      *)
(*                                                                         *)
(* SQLite runs a SELECT and a CREATE or ALTER outside a transaction; the   *)
(* first UPDATE or INSERT, and BEGIN IMMEDIATE, take the write lock until  *)
(* the commit.  What a transaction writes is one step here, its commit.    *)
(***************************************************************************)
EXTENDS Naturals, FiniteSets, Sequences

CONSTANTS
    Procs, Nobody,  \* processes; nobody holds the write lock
    Order,          \* the tables that upgrade_existing_schema looks at
    Keyed,          \* those with a normalized name: users and groups
    Columns,        \* [table -> the columns it may lack]
    Names, NormOf,  \* names as they are spelled, and what casefold makes of them
    Typed,          \* those that somebody types while the commands run
    Legacies,       \* the databases an installation may start from
    MaxRows, MaxKills, MaxRenames           \* bounds

Tables == {Order[i] : i \in DOMAIN Order}

AllTables == Tables \cup {"installation_state"}

NoRow == [name |-> "-", key |-> "-"]

\* A key of "null" is that of a row from before normalized names.
RowRecords ==
    {NoRow} \cup [name : Names, key : {NormOf[n] : n \in Names} \cup {"null"}]

RowSets == [1..MaxRows -> RowRecords]

InstallationStates == {"none", "needs_bootstrap", "initialized"}

Databases ==
    [exists : [AllTables -> BOOLEAN],
     missing : [Tables -> SUBSET UNION {Columns[t] : t \in Tables}],
     rows : [Keyed -> RowSets],
     indexed : [Keyed -> BOOLEAN],      \* the unique index on the keys
     inst : InstallationStates]         \* the row of installation_state

ASSUME InstallationAssumption ==
    /\ Order \in Seq(Tables) /\ Keyed \subseteq Tables /\ "users" \in Keyed
    /\ "installation_state" \notin Tables
    /\ Nobody \notin Procs
    /\ MaxRows \in Nat /\ MaxKills \in Nat /\ MaxRenames \in Nat
    /\ "-" \notin Names /\ Typed \subseteq Names
    /\ Legacies \subseteq Databases

VARIABLES
    db,             \* the database file
    writer,         \* who holds the write lock between two steps
    proc,           \* what each process does
    kills, renames, \* how many so far
    firsts,         \* history: bootstraps that succeeded
    crossed         \* history: tables with a rename during a backfill

vars == <<db, writer, proc, kills, renames, firsts, crossed>>

Commands == {"serve", "bootstrap-admin", "seed-demo"}

Ready == {"serving", "begin", "check", "insert", "look", "prompt"}

NothingRead == [i \in 1..MaxRows |-> NoRow]

Off ==
    [ph |-> "off", cmd |-> "serve", at |-> 1, todo |-> {},
     rows |-> NothingRead, state |-> "none", count |-> 0, saw |-> {}]

ProcRecords ==
    [ph : Ready \cup
          {"off", "inspect", "alter", "read", "write", "list", "create",
           "index", "read_state", "read_count", "write_state"},
     cmd : Commands, at : DOMAIN Order,
     todo : SUBSET (AllTables \cup UNION {Columns[t] : t \in Tables}),
     rows : RowSets, state : InstallationStates, count : 0..MaxRows,
     saw : SUBSET Keyed]            \* the tables its backfill went through

TypeOK ==
    /\ db \in Databases
    /\ writer \in Procs \cup {Nobody}
    /\ proc \in [Procs -> ProcRecords]
    /\ kills \in 0..MaxKills /\ renames \in 0..MaxRenames
    /\ firsts \in Nat
    /\ crossed \subseteq Keyed

Init ==
    /\ db \in Legacies
    /\ writer = Nobody
    /\ proc = [p \in Procs |-> Off]
    /\ kills = 0 /\ renames = 0 /\ firsts = 0 /\ crossed = {}

At(p, ph) == proc[p].ph = ph

Becomes(p, rec) == proc' = [proc EXCEPT ![p] = rec]

\* An exception that nobody catches ends the process.
Dies(p) == Becomes(p, Off) /\ UNCHANGED db

MayWrite(p) == writer \in {Nobody, p}

OnlyProc == UNCHANGED <<db, writer, kills, renames, firsts, crossed>>

Upgrading == UNCHANGED <<writer, kills, renames, firsts, crossed>>

\* init-db and the users command are a "serve" that stops at once.
Start(p) ==
    /\ At(p, "off")
    /\ \E cmd \in Commands : Becomes(p, [Off EXCEPT !.ph = "inspect", !.cmd = cmd])
    /\ OnlyProc

-----------------------------------------------------------------------------
(* upgrade_existing_schema.                                                *)

\* The table after this one, or on to the next part.
NextTable(q, i, again, done) ==
    IF i < Len(Order) THEN [q EXCEPT !.ph = again, !.at = i + 1]
    ELSE [q EXCEPT !.ph = done, !.at = 1]

EveryUpgrade(t) == IF db.exists[t] THEN Columns[t] ELSE {}

MissingColumns(t) == IF db.exists[t] THEN db.missing[t] ELSE {}

\* _add_columns looks at a table ...
Inspect(p) ==
    LET q == proc[p]
        lacks == MissingColumns(Order[q.at]) IN
    /\ At(p, "inspect")
    /\ IF lacks = {} THEN Becomes(p, NextTable(q, q.at, "inspect", "read"))
       ELSE Becomes(p, [q EXCEPT !.ph = "alter", !.todo = lacks])
    /\ OnlyProc

\* ... and adds the columns one by one; SQLite refuses one that is there.
Alter(p) ==
    LET q == proc[p]
        t == Order[q.at] IN
    /\ At(p, "alter") /\ MayWrite(p)
    /\ \E c \in q.todo :
         IF c \notin db.missing[t] THEN Dies(p)
         ELSE /\ db' = [db EXCEPT !.missing[t] = @ \ {c}]
              /\ IF q.todo = {c}
                 THEN Becomes(p, NextTable([q EXCEPT !.todo = {}], q.at,
                                           "inspect", "read"))
                 ELSE Becomes(p, [q EXCEPT !.todo = @ \ {c}])
    /\ Upgrading

HasKeys(t) ==
    t \in Keyed /\ db.exists[t] /\ "normalized" \notin db.missing[t]

\* _backfill_normalized_emails and _groups read all the rows ...
ReadRows(p) ==
    LET q == proc[p]
        t == Order[q.at] IN
    /\ At(p, "read")
    /\ IF HasKeys(t)
       THEN Becomes(p, [q EXCEPT !.ph = "write", !.rows = db.rows[t]])
       ELSE Becomes(p, NextTable(q, q.at, "read", "list"))
    /\ OnlyProc

Value(row) == IF row.key # "null" THEN row.key ELSE NormOf[row.name]

Used(rows) == {i \in DOMAIN rows : rows[i] # NoRow}

Distinct(rows) ==
    \A i, j \in Used(rows) : rows[i].key = rows[j].key => i = j \/ rows[i].key = "null"

Normal(row) == row.key = NormOf[row.name]

\* Earlier releases wrote a name with its key or without one; SQLite's unique
\* index was true, and a table that is not there has no rows and lacks nothing.
ASSUME LegaciesAssumption ==
    \A b \in Legacies :
        /\ \A t \in Tables : ~b.exists[t] => b.missing[t] = {}
        /\ \A t \in Keyed :
             /\ ~b.exists[t] => Used(b.rows[t]) = {}
             /\ b.indexed[t] => Distinct(b.rows[t])
             /\ \A i \in Used(b.rows[t]) :
                  b.rows[t][i].key = "null" \/ Normal(b.rows[t][i])

\* What the UPDATEs make of the rows: the key is the one computed from what
\* was read; the name of a user is trimmed where it is, the name of a group
\* is written back as it was read.
Backfilled(t, read) ==
    [i \in 1..MaxRows |->
       IF read[i] = NoRow THEN db.rows[t][i]
       ELSE [name |-> IF t = "users" THEN db.rows[t][i].name ELSE read[i].name,
             key |-> Value(read[i])]]

IndexKept(t) == db.indexed[t]

\* CREATE UNIQUE INDEX IF NOT EXISTS.
IndexMade(t) == TRUE

\* ... and write them under the lock, with the unique index.
WriteRows(p) ==
    LET q == proc[p]
        t == Order[q.at]
        new == Backfilled(t, q.rows) IN
    /\ At(p, "write") /\ MayWrite(p)
    /\ IF ~Distinct(new) THEN Dies(p)
       ELSE /\ db' = [db EXCEPT !.rows[t] = new, !.indexed[t] = IndexMade(t)]
            /\ Becomes(p, NextTable([q EXCEPT !.rows = NothingRead,
                                              !.saw = @ \cup {t}],
                                    q.at, "read", "list"))
    /\ Upgrading

-----------------------------------------------------------------------------
(* Base.metadata.create_all, and _ensure_installation_state.               *)

ListTables(p) ==
    LET absent == {t \in AllTables : ~db.exists[t]} IN
    /\ At(p, "list")
    /\ Becomes(p, [proc[p] EXCEPT !.todo = absent,
                     !.ph = IF absent = {} THEN "read_state" ELSE "create"])
    /\ OnlyProc

\* The tables are created in one order, the same in every process.
First(todo) == CHOOSE t \in todo : TRUE

\* After the table (and its index) the next one.
Created(q, t) ==
    IF q.todo = {t} THEN [q EXCEPT !.todo = {}, !.ph = "read_state"]
    ELSE [q EXCEPT !.todo = @ \ {t}, !.ph = "create"]

CreateTable(p) ==
    /\ At(p, "create") /\ MayWrite(p)
    /\ \E t \in proc[p].todo :
         /\ t = First(proc[p].todo)
         /\ IF db.exists[t] THEN Dies(p)
            ELSE /\ db' = [db EXCEPT !.exists[t] = TRUE]
                 /\ IF t \in Keyed
                    THEN Becomes(p, [proc[p] EXCEPT !.ph = "index"])
                    ELSE Becomes(p, Created(proc[p], t))
    /\ Upgrading

\* The one this process has just made.
CreateIndex(p) ==
    /\ At(p, "index") /\ MayWrite(p)
    /\ \E t \in proc[p].todo \cap Keyed :
         /\ t = First(proc[p].todo)
         /\ IF db.indexed[t] THEN Dies(p)
            ELSE /\ db' = [db EXCEPT !.indexed[t] = TRUE]
                 /\ Becomes(p, Created(proc[p], t))
    /\ Upgrading

Users == Cardinality(Used(db.rows["users"]))

ReadState(p) ==
    /\ At(p, "read_state")
    /\ Becomes(p, [proc[p] EXCEPT !.ph = "read_count", !.state = db.inst])
    /\ OnlyProc

ReadCount(p) ==
    /\ At(p, "read_count")
    /\ Becomes(p, [proc[p] EXCEPT !.ph = "write_state", !.count = Users])
    /\ OnlyProc

Desired(count) == IF count > 0 THEN "initialized" ELSE "needs_bootstrap"

WrittenAnyway(state, count) == TRUE

WrittenWhenAbsent(state, count) == state = "none"

\* Whether the row is written: inserted, or moved on.
Written(state, count) ==
    state = "none" \/ (state = "needs_bootstrap" /\ count > 0)

Serving(q) ==
    [Off EXCEPT !.cmd = q.cmd, !.saw = q.saw,
       !.ph = IF q.cmd = "serve" THEN "serving"
              ELSE IF q.cmd = "seed-demo" THEN "look" ELSE "begin"]

WriteState(p) ==
    LET q == proc[p] IN
    /\ At(p, "write_state")
    /\ IF ~Written(q.state, q.count) THEN UNCHANGED db /\ Becomes(p, Serving(q))
       ELSE /\ MayWrite(p)
            /\ IF q.state = "none" /\ db.inst # "none" THEN Dies(p)
               ELSE /\ db' = [db EXCEPT !.inst = Desired(q.count)]
                    /\ Becomes(p, Serving(q))
    /\ Upgrading

-----------------------------------------------------------------------------
(* bootstrap_admin.                                                        *)

\* BEGIN, or BEGIN IMMEDIATE.
BeginDeferred(p) == Nobody

BeginImmediate(p) == p

Begin(p) ==
    /\ At(p, "begin") /\ MayWrite(p)
    /\ writer' = BeginImmediate(p)
    /\ Becomes(p, [proc[p] EXCEPT !.ph = "check"])
    /\ UNCHANGED <<db, kills, renames, firsts, crossed>>

Released(p) == IF writer = p THEN Nobody ELSE writer

\* "Installation is already initialized".
Refuse(p) ==
    /\ At(p, "check")
    /\ db.inst = "initialized" \/ Users > 0
    /\ writer' = Released(p)
    /\ Becomes(p, Off)
    /\ UNCHANGED <<db, kills, renames, firsts, crossed>>

Allow(p) ==
    /\ At(p, "check")
    /\ ~(db.inst = "initialized" \/ Users > 0)
    /\ Becomes(p, [proc[p] EXCEPT !.ph = "insert"])
    /\ OnlyProc

\* A row with this name in the next free place; the keys stay unique.
Inserted(rows, name) ==
    LET i == CHOOSE i \in DOMAIN rows : rows[i] = NoRow IN
    [rows EXCEPT ![i] = [name |-> name, key |-> NormOf[name]]]

HasPlace(rows) == \E i \in DOMAIN rows : rows[i] = NoRow

CommitBootstrap(p) ==
    /\ At(p, "insert")
    /\ MayWrite(p)
    /\ HasPlace(db.rows["users"])
    /\ \E name \in Typed :
         /\ Distinct(Inserted(db.rows["users"], name))
         /\ db' = [db EXCEPT !.rows["users"] = Inserted(@, name),
                             !.inst = "initialized"]
    /\ firsts' = firsts + 1
    /\ writer' = Released(p)
    /\ Becomes(p, Off)
    /\ UNCHANGED <<kills, renames, crossed>>

-----------------------------------------------------------------------------
(* seed_demo, the portal, and what ends a process.                         *)

\* It looks for a user once, before it asks for the passwords.
LookForUsers(p) ==
    /\ At(p, "look")
    /\ Becomes(p, IF Users > 0 THEN Off ELSE [proc[p] EXCEPT !.ph = "prompt"])
    /\ OnlyProc

\* The accounts of the demonstration, of which the model keeps one.
CommitSeed(p) ==
    /\ At(p, "prompt") /\ MayWrite(p)
    /\ HasPlace(db.rows["users"])
    /\ \E name \in Typed :
         LET new == Inserted(db.rows["users"], name) IN
         IF Distinct(new)
         THEN db' = [db EXCEPT !.rows["users"] = new, !.inst = "initialized"]
         ELSE UNCHANGED db
    /\ Becomes(p, Off)
    /\ Upgrading

\* The portal renames a user or a group while other commands start.
Rename(p) ==
    /\ At(p, "serving") /\ writer = Nobody
    /\ renames < MaxRenames /\ renames' = renames + 1
    /\ \E t \in Keyed, name \in Typed :
         \E i \in Used(db.rows[t]) :
           LET new == [db.rows[t] EXCEPT ![i] = [name |-> name,
                                                 key |-> NormOf[name]]] IN
           /\ Distinct(new) /\ db.rows[t][i].name # name
           /\ db' = [db EXCEPT !.rows[t] = new]
           /\ crossed' = IF \E o \in Procs :
                              At(o, "write") /\ Order[proc[o].at] = t
                         THEN crossed \cup {t} ELSE crossed
    /\ UNCHANGED <<writer, proc, kills, firsts>>

Stop(p) == At(p, "serving") /\ Becomes(p, Off) /\ OnlyProc

\* "database is locked".
LockTimesOut(p) ==
    /\ proc[p].ph \in {"alter", "write", "create", "index", "write_state",
                       "begin", "prompt"}
    /\ ~MayWrite(p)
    /\ Becomes(p, Off)
    /\ OnlyProc

\* The process is killed; SQLite rolls its transaction back.
Kill(p) ==
    /\ ~At(p, "off")
    /\ kills < MaxKills /\ kills' = kills + 1
    /\ writer' = Released(p)
    /\ Becomes(p, Off)
    /\ UNCHANGED <<db, renames, firsts, crossed>>

Step(p) ==
    \/ Inspect(p) \/ Alter(p) \/ ReadRows(p) \/ WriteRows(p)
    \/ ListTables(p) \/ CreateTable(p) \/ CreateIndex(p)
    \/ ReadState(p) \/ ReadCount(p) \/ WriteState(p)
    \/ Begin(p) \/ Refuse(p) \/ Allow(p) \/ CommitBootstrap(p)
    \/ LookForUsers(p) \/ CommitSeed(p)

Next ==
    \E p \in Procs :
        Start(p) \/ Step(p) \/ Rename(p) \/ Stop(p) \/ LockTimesOut(p) \/ Kill(p)

\* A process that can go on does, and somebody starts the commands again.
Fairness == \A p \in Procs : WF_vars(Start(p)) /\ WF_vars(Step(p))

Spec == Init /\ [][Next]_vars /\ Fairness

-----------------------------------------------------------------------------
(* Properties.                                                             *)

\* 004 FR-024: bootstrap succeeds only where there is no identity, and once,
\* however many of them run and whatever else starts meanwhile.
OneFirstAdministrator ==
    [][firsts' # firsts => firsts = 0 /\ Users = 0]_vars

\* No command, killed and repeated anywhere, takes an installation back to
\* its setup.
InitializedForGood ==
    [][db.inst = "initialized" => db'.inst = "initialized"]_vars

\* While a process that went through create_schema runs, setup is not asked
\* for over the heads of users.
SetupMeansEmpty ==
    (\E p \in Procs : proc[p].ph \in Ready)
      => /\ db.inst # "none"
         /\ db.inst = "needs_bootstrap" => Users = 0

\* A process that is ready, and whose backfill found the table, runs on keys
\* that are unique and are those of the names (004 data-model, 008 plan);
\* excepted are tables with a rename between a backfill's SELECT and UPDATE.
KeysAreThoseOfTheNames ==
    \A p \in Procs : proc[p].ph \in Ready =>
        \A t \in proc[p].saw \ crossed :
            /\ db.indexed[t] /\ db.missing[t] = {}
            /\ Distinct(db.rows[t])
            /\ \A i \in Used(db.rows[t]) : Normal(db.rows[t][i])

Upgradable ==
    \A t \in Keyed : Distinct(Backfilled(t, db.rows[t]))

\* Processes that race and kill each other's upgrade (SQLite refuses what
\* the other one has done) do not do so for ever: where no two names collide,
\* one gets through.
SomebodyGetsReady == Upgradable ~> \E p \in Procs : proc[p].ph \in Ready
=============================================================================

------------------------------ MODULE Migration ------------------------------
(***************************************************************************)
(* The schema builder as a program that migrates a PostgreSQL database      *)
(* (schema_builder/usecases/postgres, schema_builder/queries/postgres): a   *)
(* call of create and then calls of alter and drop, each step looked up in  *)
(* the table _allographer_migrations by its checksum, executed statement by *)
(* statement outside any transaction, and recorded afterwards.              *)
(*                                                                          *)
(* Every statement, look-up and insert is a round trip of its own; the      *)
(* program may die in between, and several programs may migrate at once.    *)
(***************************************************************************)
EXTENDS Integers, Sequences, FiniteSets

CONSTANTS Migrators,  \* programs that run the script
          MaxRuns,    \* bound: runs of the script, over all programs
          Scenarios   \* scripts with the events that may happen

Columns == [name : STRING, index : BOOLEAN]

(* A step is one call of a query procedure. *)
Steps == [op : {"createTable", "addColumn", "dropColumn", "dropTable"},
          table : STRING, columns : Seq(Columns)]

(* The create steps come first: they are the tables of one call of create.    *)
(* alter calls addColumn and dropColumn once for each column.                 *)
ASSUME ScenariosAssumption ==
  \A s \in Scenarios :
    /\ s.script \in Seq(Steps) /\ s.script # <<>>
    /\ \A k \in DOMAIN s.script :
         s.script[k].op \in {"addColumn", "dropColumn"} => Len(s.script[k].columns) = 1
    /\ \A j, k \in DOMAIN s.script :
         j < k /\ s.script[k].op = "createTable" => s.script[j].op = "createTable"
    /\ s.resets \in BOOLEAN /\ s.overlap \in BOOLEAN
    /\ s.crashes \in BOOLEAN /\ s.faults \in BOOLEAN

ASSUME MaxRunsAssumption == MaxRuns \in Nat

VARIABLES
  scenario,  \* one of Scenarios, never changed
  db,        \* the schema objects that exist
  history,   \* rows of _allographer_migrations
  runs,      \* runs still to be started
  pc,        \* where each program is
  at,        \* the step of the script it is at
  stmt,      \* the statement of that step it is at
  isReset,   \* whether this run has --reset
  isSuccess, \* whether the statements of the step were executed
  clean      \* history: this run did not crash and met no failure from outside

runVars == <<scenario, runs, isReset>>
vars == <<runVars, db, history, pc, at, stmt, isSuccess, clean>>

Script == scenario.script

Creates == {k \in DOMAIN Script : Script[k].op = "createTable"}

-----------------------------------------------------------------------------
(* Schema objects: the table, its columns and its indexes. *)
TheTable(t)     == <<t, "table", t>>
TheColumn(t, c) == <<t, "column", c.name>>
TheIndex(t, c)  == <<t, "index", c.name>>

ColumnsOf(s) == {s.columns[k] : k \in DOMAIN s.columns}

(* What a step is about. *)
ObjectsOf(s) == {TheColumn(s.table, c) : c \in ColumnsOf(s)}
                  \cup {TheIndex(s.table, c) : c \in {d \in ColumnsOf(s) : d.index}}
                  \cup (IF s.op \in {"createTable", "dropTable"}
                        THEN {TheTable(s.table)} ELSE {})

OfTable(t) == {o \in UNION {ObjectsOf(Script[k]) : k \in DOMAIN Script} : o[1] = t}

(* What a statement needs, adds and removes; a lenient one says IF NOT       *)
(* EXISTS or IF EXISTS and does nothing when its object exists, or does not. *)
Statement(needs, adds, removes, lenient) ==
  [needs |-> needs, adds |-> adds, removes |-> removes, lenient |-> lenient]

Indexed(s) == {k \in DOMAIN s.columns : s.columns[k].index}

(* The n-th column that has an index. *)
NthIndexed(s, n) ==
  s.columns[CHOOSE k \in Indexed(s) : Cardinality({j \in Indexed(s) : j <= k}) = n]

CreateIndex(s, c) == Statement({TheColumn(s.table, c)}, {TheIndex(s.table, c)}, {}, TRUE)

CreateIndexes(s) ==
  [n \in 1 .. Cardinality(Indexed(s)) |-> CreateIndex(s, NthIndexed(s, n))]

(* The statements of createTable, addColumn, dropColumn and dropTable. *)
CreateTable(s) ==
  Statement({}, {TheTable(s.table)} \cup {TheColumn(s.table, c) : c \in ColumnsOf(s)}, {}, TRUE)

AddColumns(s) ==
  Statement({TheTable(s.table)}, {TheColumn(s.table, c) : c \in ColumnsOf(s)}, {}, FALSE)

DropColumns(s) ==
  Statement({TheColumn(s.table, c) : c \in ColumnsOf(s)}, {},
            UNION {{TheColumn(s.table, c), TheIndex(s.table, c)} : c \in ColumnsOf(s)}, FALSE)

DropTable(s) == Statement({}, {}, OfTable(s.table), TRUE)

Statements(s) ==
  CASE s.op = "createTable" -> <<CreateTable(s)>> \o CreateIndexes(s)
    [] s.op = "addColumn"   -> <<AddColumns(s)>> \o CreateIndexes(s)
    [] s.op = "dropColumn"  -> <<DropColumns(s)>>
    [] s.op = "dropTable"   -> <<DropTable(s)>>

Succeeds(st) == st.needs \subseteq db /\ (st.lenient \/ st.adds \cap db = {})

(* CREATE TABLE IF NOT EXISTS leaves an existing table as it is. *)
Effect(st, s) == IF s.op = "createTable" /\ st.needs = {} /\ TheTable(s.table) \in db
                 THEN db
                 ELSE (db \ st.removes) \cup st.adds

(* toSchema: a table's schema has its name, a column's has not the table's. *)
Checksum(s) == IF s.op \in {"createTable", "dropTable"}
               THEN <<s.op, s.table, s.columns>>
               ELSE <<s.op, s.columns>>

Row(s, status) == [name |-> s.table, checksum |-> Checksum(s), status |-> status]

RowsOf(s) == {row \in history : row.checksum = Checksum(s)}

-----------------------------------------------------------------------------
Init == /\ scenario \in Scenarios
        /\ db        = {}
        /\ history   = {}
        /\ runs      = MaxRuns
        /\ pc        = [m \in Migrators |-> "idle"]
        /\ at        = [m \in Migrators |-> 1]
        /\ stmt      = [m \in Migrators |-> 1]
        /\ isReset   = [m \in Migrators |-> FALSE]
        /\ isSuccess = [m \in Migrators |-> FALSE]
        /\ clean     = [m \in Migrators |-> TRUE]

StepOf(m) == Script[at[m]]

(* create: with --reset its tables are reset first, the last one first. *)
Start(m) ==
  /\ pc[m] = "idle"
  /\ runs > 0
  /\ scenario.overlap \/ \A n \in Migrators : pc[n] = "idle"
  /\ runs' = runs - 1
  /\ \E reset \in (IF scenario.resets THEN BOOLEAN ELSE {FALSE}) :
       /\ isReset' = [isReset EXCEPT ![m] = reset]
       /\ pc' = [pc EXCEPT ![m] = IF reset /\ Creates # {} THEN "forget" ELSE "check"]
       /\ at' = [at EXCEPT ![m] = IF reset /\ Creates # {} THEN Cardinality(Creates) ELSE 1]
  /\ clean' = [clean EXCEPT ![m] = TRUE]
  /\ UNCHANGED <<scenario, db, history, stmt, isSuccess>>

(* Mutant: the rows stay. *)
KeepMigrationTable(m) ==
  /\ pc[m] = "forget"
  /\ pc' = [pc EXCEPT ![m] = "drop"]
  /\ UNCHANGED <<runVars, db, history, at, stmt, isSuccess, clean>>

(* resetMigrationTable *)
ResetMigrationTable(m) ==
  /\ pc[m] = "forget"
  /\ history' = {row \in history : row.name # StepOf(m).table}
  /\ pc' = [pc EXCEPT ![m] = "drop"]
  /\ UNCHANGED <<runVars, db, at, stmt, isSuccess, clean>>

(* resetTable, then the table before it or the first step. *)
ResetTable(m) ==
  /\ pc[m] = "drop"
  /\ db' = db \ OfTable(StepOf(m).table)
  /\ pc' = [pc EXCEPT ![m] = IF at[m] = 1 THEN "check" ELSE "forget"]
  /\ at' = [at EXCEPT ![m] = IF @ = 1 THEN 1 ELSE @ - 1]
  /\ UNCHANGED <<runVars, history, stmt, isSuccess, clean>>

(* Mutant: the run does not stop after its last step. *)
AdvanceOn(m) == /\ pc' = [pc EXCEPT ![m] = IF at[m] = Len(Script) THEN "idle" ELSE "check"]
                /\ at' = [at EXCEPT ![m] = @ + 1]

(* The next step of the script, or the end of the run. *)
Advance(m) == /\ pc' = [pc EXCEPT ![m] = IF at[m] = Len(Script) THEN "idle" ELSE "check"]
              /\ at' = [at EXCEPT ![m] = IF @ = Len(Script) THEN 1 ELSE @ + 1]

(* Mutants of ShouldRun: the history is not looked at; the status is not.    *)
ShouldRunAgain(m, run) == run = TRUE

ShouldRunOnce(m, run) == run = (isReset[m] \/ RowsOf(StepOf(m)) = {})

(* shouldRun: first() picks any row of the checksum, the query has no order. *)
ShouldRun(m, run) ==
  \/ /\ isReset[m] \/ RowsOf(StepOf(m)) = {}
     /\ run = TRUE
  \/ /\ ~isReset[m]
     /\ \E row \in RowsOf(StepOf(m)) : run = ~row.status

Check(m) ==
  /\ pc[m] = "check"
  /\ \/ /\ ShouldRun(m, TRUE)
        /\ pc' = [pc EXCEPT ![m] = "exec"]
        /\ stmt' = [stmt EXCEPT ![m] = 1]
        /\ UNCHANGED at
     \/ /\ ShouldRun(m, FALSE)
        /\ Advance(m)
        /\ UNCHANGED stmt
  /\ UNCHANGED <<runVars, db, history, isSuccess, clean>>

(* execThenSaveHistory: one statement of the step, in autocommit mode. *)
Execute(m) ==
  LET s == StepOf(m)
      st == Statements(s)[stmt[m]]
  IN /\ pc[m] = "exec"
     /\ Succeeds(st)
     /\ db' = Effect(st, s)
     /\ \/ /\ stmt[m] < Len(Statements(s))
           /\ stmt' = [stmt EXCEPT ![m] = @ + 1]
           /\ UNCHANGED <<pc, isSuccess>>
        \/ /\ stmt[m] = Len(Statements(s))
           /\ isSuccess' = [isSuccess EXCEPT ![m] = TRUE]
           /\ pc' = [pc EXCEPT ![m] = "save"]
           /\ UNCHANGED stmt
     /\ UNCHANGED <<runVars, history, at, clean>>

(* The first DbError ends the statements of the step, the run goes on.  It   *)
(* comes from the statement, or from outside: a timeout, a lost connection.  *)
ExecuteFails(m) ==
  /\ pc[m] = "exec"
  /\ \/ /\ ~Succeeds(Statements(StepOf(m))[stmt[m]])
        /\ UNCHANGED clean
     \/ /\ scenario.faults
        /\ clean' = [clean EXCEPT ![m] = FALSE]
  /\ isSuccess' = [isSuccess EXCEPT ![m] = FALSE]
  /\ pc' = [pc EXCEPT ![m] = "save"]
  /\ UNCHANGED <<runVars, db, history, at, stmt>>

(* The row is inserted whatever the outcome. *)
SaveHistory(m) ==
  /\ pc[m] = "save"
  /\ history' = history \cup {Row(StepOf(m), isSuccess[m])}
  /\ Advance(m)
  /\ UNCHANGED <<runVars, db, stmt, isSuccess, clean>>

(* The program dies, or a look-up or insert raises, which nobody catches. *)
Crash(m) ==
  /\ scenario.crashes
  /\ pc[m] # "idle"
  /\ pc' = [pc EXCEPT ![m] = "idle"]
  /\ at' = [at EXCEPT ![m] = 1]
  /\ clean' = [clean EXCEPT ![m] = FALSE]
  /\ UNCHANGED <<runVars, db, history, stmt, isSuccess>>

AllRun == /\ runs = 0
          /\ \A m \in Migrators : pc[m] = "idle"
          /\ UNCHANGED vars

Next == \/ \E m \in Migrators : \/ Start(m)
                                \/ ResetMigrationTable(m)
                                \/ ResetTable(m)
                                \/ Check(m)
                                \/ Execute(m)
                                \/ ExecuteFails(m)
                                \/ SaveHistory(m)
                                \/ Crash(m)
        \/ AllRun

Spec == Init /\ [][Next]_vars
-----------------------------------------------------------------------------
Adds(k) == UNION {Statements(Script[k])[n].adds : n \in DOMAIN Statements(Script[k])}

Removes(k) == UNION {Statements(Script[k])[n].removes : n \in DOMAIN Statements(Script[k])}

(* What step k leaves in the schema, and keeps out of it, at the script's end. *)
Leaves(k)   == Adds(k) \ UNION {Removes(j) : j \in {n \in DOMAIN Script : n > k}}
KeepsOut(k) == Removes(k) \ UNION {Adds(j) : j \in {n \in DOMAIN Script : n > k}}

(* The schema the script describes. *)
Target == UNION {Leaves(k) : k \in DOMAIN Script}

Recorded(k) == \E row \in RowsOf(Script[k]) : row.status

(* Every variable has its type. *)
TypeOK ==
  /\ scenario \in Scenarios
  /\ db \subseteq UNION {ObjectsOf(Script[k]) : k \in DOMAIN Script}
  /\ history \subseteq {Row(Script[k], status) : k \in DOMAIN Script, status \in BOOLEAN}
  /\ runs \in 0 .. MaxRuns
  /\ pc \in [Migrators -> {"idle", "forget", "drop", "check", "exec", "save"}]
  /\ at \in [Migrators -> DOMAIN Script]
  /\ stmt \in [Migrators -> Nat \ {0}]
  /\ isReset \in [Migrators -> BOOLEAN]
  /\ isSuccess \in [Migrators -> BOOLEAN]
  /\ clean \in [Migrators -> BOOLEAN]

(* Scripts the history can be trusted with: the checksums of its steps differ, *)
(* no two steps add or remove the same object, and what a step removes is the *)
(* work of create.  --reset is not given to one of several programs that run   *)
(* at once, and a script that drops tables meets neither other programs nor    *)
(* failures from outside.                                                     *)
Orderly ==
  /\ \A j, k \in DOMAIN Script : Checksum(Script[j]) = Checksum(Script[k]) => j = k
  /\ \A j, k \in DOMAIN Script :
       Adds(j) \cap Adds(k) # {} \/ Removes(j) \cap Removes(k) # {} => j = k
  /\ \A j, k \in DOMAIN Script : Adds(j) \cap Removes(k) # {} => j \in Creates
  /\ scenario.overlap => ~scenario.resets
  /\ scenario.overlap \/ scenario.faults =>
       \A k \in DOMAIN Script : Script[k].op # "dropTable"

(* The history does not claim what is not so: a step the look-up finds done  *)
(* has its effect in the schema, at every moment of every run, also of one   *)
(* that crashed in the middle of a reset (execThenSaveHistory, resetTable).  *)
HistoryMatchesSchema == Orderly =>
  \A k \in DOMAIN Script :
    Recorded(k) => Leaves(k) \subseteq db /\ KeepsOut(k) \cap db = {}

(* A step that is recorded as done is not executed again without --reset.    *)
NothingDoneTwice ==
  \A m \in Migrators : pc[m] = "exec" /\ ~isReset[m] => ~Recorded(at[m])

(* It is so for one program at a time when no statement fails for a reason   *)
(* outside the schema; a crash does no harm.                                 *)
FaultlessNothingDoneTwice ==
  Orderly /\ ~scenario.faults /\ ~scenario.overlap => NothingDoneTwice

CreateOnly == \A k \in DOMAIN Script : Script[k].op = "createTable"

(* Every column step finds its table, and what it drops, among those created. *)
Applicable ==
  \A k \in DOMAIN Script :
    /\ Script[k].op = "addColumn" => \E c \in Creates : Script[c].table = Script[k].table
    /\ Script[k].op = "dropColumn" =>
         \E c \in Creates : \A d \in ColumnsOf(Script[k]) : TheColumn(Script[k].table, d) \in Adds(c)

(* What a script of create calls needs, and what one that alters needs more:  *)
(* ALTER statements cannot be repeated.                                       *)
Completable ==
  /\ Orderly /\ Applicable
  /\ CreateOnly \/ ~(scenario.crashes \/ scenario.faults \/ scenario.overlap)

(* A run that ends without a crash and without a failure from outside has     *)
(* brought the schema to what the script describes, whatever runs before it   *)
(* and beside it left undone (execThenSaveHistory, shouldRun).                *)
RunCompletes ==
  [][Completable
     => \A m \in Migrators :
          pc[m] # "idle" /\ pc'[m] = "idle" /\ clean'[m] => db' = Target]_vars
=============================================================================

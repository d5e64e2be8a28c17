---------------------------- MODULE QueryBuilder ----------------------------
(***************************************************************************)
(* One query object, from the calls of the chain to the bound statement.   *)
(* A clause call stores a row under a key of self.query and appends its     *)
(* values to self.placeHolder, in the order of the calls.  A builder then   *)
(* writes the clauses in an order of its own, with a "?" for each value,    *)
(* and the k-th value is bound to the k-th "?".  Writes look the columns of *)
(* their values up in the column types the pool has cached for the table.   *)
(*                                                                          *)
(* A value and a "?" are the same record when the one is meant for the      *)
(* other: owner is the call or the operation, part the position in it.      *)
(***************************************************************************)
EXTENDS Naturals, Sequences, FiniteSets, SequencesExt

CONSTANTS Dialects,   \* drivers considered, a subset of {"postgres", "sqlite"}
          Methods,    \* clause methods the program calls
          Qualifying, \* those it also calls with a column it qualifies
          InWidths,   \* bound: numbers of values a whereIn lists
          RowLists,   \* rows given to insert: sequences of sequences of columns
          SetLists,   \* columns given to update
          MaxCalls,   \* bound: clause calls on the object
          MaxSteps    \* bound: clause calls and operations on the object

AllSections ==
  <<"where", "or_where", "where_between", "where_between_string",
    "where_not_between", "where_not_between_string", "where_in",
    "where_not_in", "where_null", "having">>

Clauses == {"where", "whereNil", "orWhere", "orWhereNil", "whereBetween",
            "whereBetweenString", "whereNotBetween", "whereNotBetweenString",
            "whereIn", "whereNotIn", "whereNull", "having", "havingNil"}

Id       == 1                \* the column the clauses and find(id) name
Qualified == 0               \* "users.id", or a column of a joined table
Old      == {Id, 2}          \* columns of the table when the program starts
NewCol   == 3                \* a column that ALTER TABLE adds
NoTypes  == {}               \* nothing cached for the table

ASSUME QueryBuilderAssumption ==
  /\ Dialects \subseteq {"postgres", "sqlite"}
  /\ Methods \subseteq Clauses /\ Qualifying \subseteq Methods
  /\ InWidths \subseteq Nat \ {0}
  /\ \A rows \in RowLists : rows \in Seq(Seq(Old \cup {NewCol})) /\ rows # <<>>
  /\ \A set \in SetLists : set \in Seq(Old \cup {NewCol})
  /\ MaxCalls \in Nat /\ MaxSteps \in Nat

VARIABLES
  dialect,      \* the driver, never changed
  calls,        \* self.query: the clause calls so far, [method, key, width]
  placeHolder,  \* self.placeHolder
  done,         \* operations the object has executed
  statement,    \* the last statement and what became of it
  columns,      \* server side: columns of the table
  typeCache     \* pools.columnTypeCache of the table

vars == <<dialect, calls, placeHolder, done, statement, columns, typeCache>>

(* A call keeps the column as the caller wrote it. *)
Calls == {c \in [method : Methods, key : {Id, Qualified}, width : InWidths \cup {1}] :
            /\ c.key = Qualified => c.method \in Qualifying
            /\ c.width \in IF c.method \in {"whereIn", "whereNotIn"} THEN InWidths ELSE {1}}

NoStatement == [op |-> "none", clauses |-> {}, holes |-> <<>>,
                values |-> <<>>, sent |-> <<>>, accepted |-> FALSE]

Init == /\ dialect \in Dialects
        /\ calls = <<>>
        /\ placeHolder = <<>>
        /\ done = <<>>
        /\ statement = NoStatement
        /\ columns = Old
        /\ typeCache = NoTypes

Slot(owner, n, r, part, column) ==
  [owner |-> <<owner, n, r>>, part |-> part, column |-> column]

-----------------------------------------------------------------------------
(* The key of self.query a method stores its row under; SQLite keeps          *)
(* where(.., nil) with the other where rows.                                  *)
Key(method) ==
  CASE method = "where" -> "where"
    [] method = "whereNil" -> IF dialect = "sqlite" THEN "where" ELSE "where_null"
    [] method \in {"orWhere", "orWhereNil"} -> "or_where"
    [] method = "whereBetween" -> "where_between"
    [] method = "whereBetweenString" -> "where_between_string"
    [] method = "whereNotBetween" -> "where_not_between"
    [] method = "whereNotBetweenString" -> "where_not_between_string"
    [] method = "whereIn" -> "where_in"
    [] method = "whereNotIn" -> "where_not_in"
    [] method = "whereNull" -> "where_null"
    [] method \in {"having", "havingNil"} -> "having"

KeyOf(i) == Key(calls[i].method)

Betweens == {"whereBetween", "whereBetweenString", "whereNotBetween",
             "whereNotBetweenString"}
Ins      == {"whereIn", "whereNotIn"}
Nils     == {"whereNil", "orWhereNil", "havingNil", "whereNull"}

(* Mutant: PostgreSQL writes the values of lists into the text as SQLite does. *)
InlinesLists(method) == method \in Betweens \cup Ins

(* SQLite writes the values of ranges and lists into the text. *)
Inlines(method) == dialect = "sqlite" /\ method \in Betweens \cup Ins

(* How many values a call appends to placeHolder. *)
ValueCount(c) ==
  CASE c.method \in Nils \/ Inlines(c.method) -> 0
    [] c.method \in Betweens /\ ~Inlines(c.method) -> 2
    [] c.method \in Ins /\ ~Inlines(c.method) -> c.width
    [] OTHER -> 1

(* How many "?" its clause has of its own.  PostgreSQL writes one for an      *)
(* orWhere or having row whatever its value; SQLite writes the text "null".   *)
HoleCount(c) ==
  IF dialect = "postgres" /\ c.method \in {"orWhereNil", "havingNil"}
  THEN 1 ELSE ValueCount(c)

ValuesOf(i, c) == [k \in 1 .. ValueCount(c) |-> Slot("call", i, 0, k, c.key)]

(* widthString is not emptied between the rows of one key: a later IN list    *)
(* starts with the text of the earlier ones, without a comma in between.      *)
EarlierLists(i) ==
  {j \in 1 .. i - 1 : calls[i].method \in Ins /\ KeyOf(j) = KeyOf(i)}

(* The "?" of the row a call itself stored. *)
OwnHoles(i) == [k \in 1 .. HoleCount(calls[i]) |-> Slot("call", i, 0, k, calls[i].key)]

HolesOf(i) ==
  FlattenSeq([j \in 1 .. i - 1 |-> IF j \in EarlierLists(i) THEN OwnHoles(j) ELSE <<>>])
    \o OwnHoles(i)

-----------------------------------------------------------------------------
(* Mutant: the clauses of lists are written before the others.                *)
ListsFirst(op) ==
  CASE op = "get" -> <<"where_in", "where_not_in">> \o SubSeq(AllSections, 1, 6)
                       \o <<"where_null", "having">>
    [] op = "find" -> SubSeq(AllSections, 1, 9)
    [] op = "aggregate" -> <<"where", "or_where", "where_between", "where_not_between",
                             "where_in", "where_not_in", "where_null", "having">>
    [] op \in {"update", "delete"} -> <<"where", "or_where">>
    [] OTHER -> <<>>

(* The clauses each builder writes, in its order: get and first, find, the    *)
(* aggregates, update, delete; delete(id) and insert write none.              *)
Sections(op) ==
  CASE op = "get" -> AllSections
    [] op = "find" -> SubSeq(AllSections, 1, 9)
    [] op = "aggregate" -> <<"where", "or_where", "where_between", "where_not_between",
                             "where_in", "where_not_in", "where_null", "having">>
    [] op \in {"update", "delete"} -> <<"where", "or_where">>
    [] OTHER -> <<>>

(* The calls whose condition the statement has. *)
Written(op) == {i \in 1 .. Len(calls) : KeyOf(i) \in ToSet(Sections(op))}

(* The rows of one key in the order of the calls, and one key after the other. *)
SectionHoles(key) ==
  FlattenSeq([i \in 1 .. Len(calls) |-> IF KeyOf(i) = key THEN HolesOf(i) ELSE <<>>])

ClauseHoles(op) ==
  FlattenSeq([s \in 1 .. Len(Sections(op)) |-> SectionHoles(Sections(op)[s])])

Glued(op) == \E i \in Written(op) : EarlierLists(i) # {}

(* An IN list that begins with the values of another one is not what the call *)
(* asked for; every other clause written is.                                  *)
Exact(op) == {i \in Written(op) : EarlierLists(i) = {}}

-----------------------------------------------------------------------------
(* PostgreSQL rejects a wrong number of parameters and two "?" without a      *)
(* comma.  SQLite: reading, dbFormat raises when values run out and ignores   *)
(* what is left; writing, the results of bind are discarded.                  *)
Accepts(op, holes, values) ==
  \/ dialect = "postgres" /\ Len(holes) = Len(values) /\ ~Glued(op)
  \/ dialect = "sqlite" /\ (op \in {"get", "find", "aggregate"} => Len(holes) <= Len(values))

Blank == Slot("nobody", 0, 0, 0, Id)

(* A write sends a text value as it is only if it finds the column, as it was *)
(* written, among the cached types: otherwise PostgreSQL gets '' and SQLite   *)
(* NULL.                                                                      *)
Send(op, values, types) ==
  [n \in 1 .. Len(values) |->
     IF op \in {"get", "find", "aggregate"} \/ values[n].column \in types
     THEN values[n] ELSE Blank]

(* Mutants: the look-up keeps the columns of this write; nobody asks the server. *)
TypesOfValues(values) ==
  IF typeCache = NoTypes THEN {values[n].column : n \in 1 .. Len(values)} ELSE typeCache

NoLookUp(values) == typeCache

(* getCachedColumnTypes: asks the server once per table. *)
CachedTypes(values) == IF typeCache = NoTypes THEN columns ELSE typeCache

(* Executing a statement; the types are looked up before it is sent. *)
Execute(op, holes, values, ok) ==
  LET types == IF op \in {"get", "find", "aggregate"} THEN typeCache ELSE CachedTypes(values)
  IN /\ typeCache' = types
     /\ statement' = [op |-> op, clauses |-> Exact(op), holes |-> holes,
                      values |-> values, sent |-> Send(op, values, types),
                      accepted |-> ok /\ Accepts(op, holes, values)]
     /\ done' = Append(done, op)
     /\ UNCHANGED <<dialect, calls, columns>>

Usable == Len(calls) + Len(done) < MaxSteps

(* where .. having: the row and its values, both at the end. *)
AddClause(c) ==
  /\ Usable
  /\ Len(calls) < MaxCalls
  /\ calls' = Append(calls, c)
  /\ placeHolder' = placeHolder \o ValuesOf(Len(calls) + 1, c)
  /\ statement' = NoStatement
  /\ UNCHANGED <<dialect, done, columns, typeCache>>

(* get, first, count, max, min, avg, sum and delete: the values as they are. *)
RunClauses(op) ==
  /\ Usable
  /\ op \in {"get", "aggregate", "delete"}
  /\ Execute(op, ClauseHoles(op), placeHolder, TRUE)
  /\ UNCHANGED placeHolder

(* find(id) and delete(id) append the id and write its "?" last. *)
RunWithId(op) ==
  /\ Usable
  /\ op \in {"find", "deleteId"}
  /\ LET id == Slot("op", Len(done) + 1, 0, 1, Id) IN
       /\ placeHolder' = Append(placeHolder, id)
       /\ Execute(op, Append(ClauseHoles(op), id), Append(placeHolder, id), TRUE)

Assignments(set) == [j \in 1 .. Len(set) |-> Slot("op", Len(done) + 1, 0, j, set[j])]

(* Mutant: the assigned values go behind those of the clauses. *)
AssignLast(set) == placeHolder \o Assignments(set)

(* updateValuesSql: the assigned values go before those of the clauses. *)
AssignFirst(set) == Assignments(set) \o placeHolder

Update(set) ==
  /\ Usable
  /\ placeHolder' = AssignFirst(set)
  /\ Execute("update", Assignments(set) \o ClauseHoles("update"), AssignFirst(set),
             ToSet(set) \subseteq columns)

(* insert: the columns of the first row for every row, the values of each row *)
(* in its own order.                                                          *)
RowValues(rows) ==
  FlattenSeq([r \in 1 .. Len(rows) |->
    [j \in 1 .. Len(rows[r]) |-> Slot("op", Len(done) + 1, r, j, rows[r][j])]])

RowHoles(rows) ==
  FlattenSeq([r \in 1 .. Len(rows) |->
    [j \in 1 .. Len(rows[r]) |-> Slot("op", Len(done) + 1, r, j,
       IF j <= Len(rows[1]) THEN rows[1][j] ELSE Id)]])

Insertable(rows) == /\ ToSet(rows[1]) \subseteq columns
                    /\ \A r \in 1 .. Len(rows) : Len(rows[r]) = Len(rows[1])

Insert(rows) ==
  /\ Usable
  /\ placeHolder' = placeHolder \o RowValues(rows)
  /\ Execute("insert", RowHoles(rows), placeHolder \o RowValues(rows), Insertable(rows))

(* One turn of the loop of insertId over rows; success empties placeHolder. *)
InsertIdOfRows(rows) ==
  /\ Usable
  /\ Len(rows) = 1
  /\ Execute("insertIds", RowHoles(rows), placeHolder \o RowValues(rows), Insertable(rows))
  /\ placeHolder' = IF statement'.accepted THEN <<>> ELSE placeHolder \o RowValues(rows)

(* Elsewhere in the program: ALTER TABLE, and a write on the same table. *)
AddColumn ==
  /\ Usable
  /\ columns' = columns \cup {NewCol}
  /\ UNCHANGED <<dialect, calls, placeHolder, done, statement, typeCache>>

OtherWrite ==
  /\ Usable
  /\ typeCache' = CachedTypes(<<>>)
  /\ UNCHANGED <<dialect, calls, placeHolder, done, statement, columns>>

(* The program drops the object. *)
Dropped == ~Usable /\ UNCHANGED vars

Next == \/ \E c \in Calls : AddClause(c)
        \/ \E op \in {"get", "aggregate", "delete"} : RunClauses(op)
        \/ \E op \in {"find", "deleteId"} : RunWithId(op)
        \/ \E set \in SetLists : Update(set)
        \/ \E rows \in RowLists : Insert(rows) \/ InsertIdOfRows(rows)
        \/ AddColumn
        \/ OtherWrite
        \/ Dropped

Spec == Init /\ [][Next]_vars
-----------------------------------------------------------------------------
Slots == [owner : {"nobody", "call", "op"} \X (0 .. MaxSteps) \X Nat,
          part : Nat, column : Old \cup {NewCol, Qualified}]

Ops == {"get", "find", "aggregate", "update", "delete", "deleteId", "insert", "insertIds"}

(* Every variable has its type. *)
TypeOK ==
  /\ dialect \in Dialects
  /\ calls \in Seq(Calls) /\ Len(calls) <= MaxCalls
  /\ placeHolder \in Seq(Slots)
  /\ done \in Seq(Ops) /\ Len(calls) + Len(done) <= MaxSteps
  /\ statement.op \in Ops \cup {"none"}
  /\ statement.clauses \subseteq 1 .. Len(calls)
  /\ statement.holes \in Seq(Slots)
  /\ statement.values \in Seq(Slots) /\ statement.sent \in Seq(Slots)
  /\ statement.accepted \in BOOLEAN
  /\ columns \in {Old, Old \cup {NewCol}}
  /\ typeCache \in {NoTypes, Old, Old \cup {NewCol}}

(* Conditions under which the properties hold. *)
Valued == {i \in 1 .. Len(calls) : ValueCount(calls[i]) > 0}

(* The chain names its clauses in the order the builders write them. *)
InBuilderOrder ==
  \A i, j \in Valued : i < j =>
    \E n \in 1 .. Len(AllSections) : \E m \in 1 .. n :
      KeyOf(i) = AllSections[m] /\ KeyOf(j) = AllSections[n]

(* Every row of an insert has the columns of the first one, in its order. *)
RowsAlike == statement.op \in {"insert", "insertIds"} =>
  \A n \in 1 .. Len(statement.holes) :
    n <= Len(statement.values) /\ statement.values[n].owner = statement.holes[n].owner
      => statement.values[n].column = statement.holes[n].column

Called(methods) == \E i \in 1 .. Len(calls) : calls[i].method \in methods

(* SQLite refuses nothing: the object is used once, for an operation that     *)
(* writes every condition it was given.                                       *)
UsedOnce == /\ Len(done) = 1
            /\ \A i \in Valued : KeyOf(i) \in ToSet(Sections(done[1]))

(* Each "?" of an accepted statement gets the value written for it, and in an *)
(* insert the value of its own column, when the chain names its clauses in    *)
(* the order of the builders, without a nil in orWhere or having, and the     *)
(* rows are alike.  PostgreSQL refuses a reused object whose values are       *)
(* out of step (find twice, update twice, a condition the builder leaves      *)
(* out); SQLite does not, so its objects must be used once.                   *)
BoundWhereMeant ==
  /\ statement.accepted
  /\ InBuilderOrder /\ RowsAlike /\ ~Called({"orWhereNil", "havingNil"})
  /\ dialect = "sqlite" => UsedOnce
  => /\ Len(statement.holes) <= Len(statement.values)
     /\ \A n \in 1 .. Len(statement.holes) : statement.values[n] = statement.holes[n]

(* A statement PostgreSQL accepts has every condition of the chain as it was  *)
(* asked for: a condition that update and delete do not write, or a list      *)
(* glued to another one, makes the number of values wrong.  Only conditions   *)
(* without a value (whereNull, nil) can get lost.                             *)
EveryConditionApplied ==
  /\ statement.accepted /\ dialect = "postgres"
  /\ statement.op \notin {"insert", "insertIds"}
  /\ ~Called(Nils)
  => statement.clauses = 1 .. Len(calls)

(* A write loses a text value of a plain column of the table only if the      *)
(* column was added after the pool cached the types: whichever write asked    *)
(* the server first, and whatever it set, the values of the older columns are *)
(* sent as they are, and those of all columns when nothing was altered since. *)
(* (A column that a condition qualifies is never found; its value is lost.)   *)
ValuesKept ==
  statement.op \in {"insert", "insertIds", "update", "delete", "deleteId"} =>
    \A n \in 1 .. Len(statement.values) :
      LET column == statement.values[n].column IN
        column \in Old \/ (column \in columns /\ typeCache = columns)
          => statement.sent[n] = statement.values[n]

(* Basic operations have no destructive side effect nobody expects: delete    *)
(* removes only rows that meet every condition of the chain.                  *)
DeletesOnlyWhatWasAsked ==
  statement.op = "delete" /\ statement.accepted /\ Len(done) = 1
    => statement.clauses = 1 .. Len(calls)
=============================================================================

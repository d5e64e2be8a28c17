--------------------------- MODULE MigrationProofs ---------------------------
(***************************************************************************)
(* Theorems about Migration, for any programs, scripts and number of runs:  *)
(* the types of its variables; that a row of the history which says that a  *)
(* step is done tells the truth about the schema; that one program at a     *)
(* time, with no failure from outside, executes no step again that is       *)
(* recorded as done; and that a run which ends undisturbed leaves the       *)
(* schema the script describes.                                             *)
(***************************************************************************)
EXTENDS Migration, FiniteSetTheorems, SequenceTheorems, WellFoundedInduction, TLAPS

(* What some step of the script removes. *)
Removed == UNION {Removes(k) : k \in DOMAIN Script}

(* The tables the script creates. *)
Created == {Script[k].table : k \in Creates}

Table(k) == Script[k].table

Running(m) == pc[m] \in {"check", "exec", "save"}

Resetting(m) == pc[m] \in {"forget", "drop"}

(* A program executes a statement of its step. *)
AtStatement ==
  \A m \in Migrators : pc[m] = "exec" => stmt[m] \in DOMAIN Statements(StepOf(m))

TypeInv == TypeOK /\ AtStatement

(* Programs run one at a time unless they overlap; only --reset resets.      *)
OneAtATime ==
  ~scenario.overlap => \A m, n \in Migrators : pc[m] # "idle" /\ pc[n] # "idle" => m = n

ResetsAllowed ==
  \A m \in Migrators :
    /\ pc[m] # "idle" /\ isReset[m] => scenario.resets
    /\ Resetting(m) => isReset[m] /\ at[m] \in Creates

(* No column and no index without its table. *)
TablesFirst == \A o \in db : TheTable(o[1]) \in db

(* A created table has its columns, but for those a step drops. *)
TablesWhole ==
  \A k \in Creates : TheTable(Table(k)) \in db =>
    \A c \in ColumnsOf(Script[k]) :
      \/ TheColumn(Table(k), c) \in db
      \/ TheColumn(Table(k), c) \in Removed /\ TheTable(Table(k)) \notin Removed

(* What the schema has while step k is done. *)
Kept(k) ==
  /\ Adds(k) \ Removed \subseteq db
  /\ Removes(k) \cap db = {}
  /\ Script[k].op = "dropColumn" => TheTable(Table(k)) \in db

(* The history says that step k was executed, that it failed. *)
Ran(k)    == Row(Script[k], TRUE) \in history
Failed(k) == Row(Script[k], FALSE) \in history

Unrecorded(k) == ~Ran(k) /\ ~Failed(k)

(* Step k is done, though m has not yet written it down. *)
DoneBy(m, k) == pc[m] = "save" /\ isSuccess[m] /\ at[m] = k

Done(k) == Ran(k) \/ \E m \in Migrators : DoneBy(m, k)

DoneIsKept == \A k \in DOMAIN Script : Done(k) => Kept(k)

(* The statements of a step that were executed had their effect. *)
ExecutedSoFar ==
  \A m \in Migrators : pc[m] = "exec" =>
    /\ \A n \in 1 .. (stmt[m] - 1) : Statements(StepOf(m))[n].adds \ Removed \subseteq db
    /\ at[m] \in Creates /\ stmt[m] > 1 /\ ~scenario.overlap => TheTable(Table(at[m])) \in db

(* A reset forgets a table before it drops it, and runs every step again. *)
Forgotten ==
  \A m \in Migrators : \A k \in DOMAIN Script :
    /\ pc[m] = "drop" /\ Table(k) = Table(at[m]) => Unrecorded(k)
    /\ Resetting(m) /\ (\E c \in Creates : c > at[m] /\ Table(k) = Table(c)) => Unrecorded(k)
    /\ Running(m) /\ isReset[m] /\ k >= at[m] /\ Table(k) \in Created => Unrecorded(k)

(* A table that a step drops: its create step never fails, and is not run    *)
(* again after the drop.                                                     *)
Dropped(c, k) ==
  /\ ~Failed(c)
  /\ Ran(k) => Ran(c)
  /\ \A m \in Migrators :
       /\ pc[m] = "save" /\ at[m] = c => isSuccess[m]
       /\ Running(m) /\ at[m] > c => Ran(c)
       /\ pc[m] \in {"exec", "save"} /\ at[m] = c => ~Ran(k)

CreatedThenDropped ==
  \A c \in Creates : \A k \in DOMAIN Script :
    Script[k].op = "dropTable" /\ Table(k) = Table(c) => Dropped(c, k)

MigInv ==
  /\ OneAtATime
  /\ ResetsAllowed
  /\ TablesFirst
  /\ TablesWhole
  /\ DoneIsKept
  /\ ExecutedSoFar
  /\ Forgotten
  /\ CreatedThenDropped

OrderlyInv == Orderly => MigInv

-----------------------------------------------------------------------------
(* One program at a time, and no failures from outside. *)

Faultless == ~scenario.faults /\ ~scenario.overlap

(* Step k cannot succeed, whatever is executed, until its table is reset.    *)
Stuck(k) ==
  \/ /\ k \in Creates /\ TheTable(Table(k)) \in db
     /\ \E n \in DOMAIN Statements(Script[k]) : ~(Statements(Script[k])[n].needs \subseteq db)
  \/ /\ Script[k].op = "addColumn"
     /\ \/ TheTable(Table(k)) \notin db /\ Table(k) \notin Created
        \/ \E c \in ColumnsOf(Script[k]) : TheColumn(Table(k), c) \in db
  \/ /\ Script[k].op = "dropColumn"
     /\ TheTable(Table(k)) \in db \/ Table(k) \notin Created
     /\ \E c \in ColumnsOf(Script[k]) : TheColumn(Table(k), c) \notin db

OnlyCreated == \A t : TheTable(t) \in db => t \in Created

FailedIsStuck == \A k \in DOMAIN Script : Failed(k) => Stuck(k) /\ ~Ran(k)

(* A step under way. *)
FirstTime ==
  \A m \in Migrators :
    /\ pc[m] \in {"exec", "save"} /\ ~isReset[m] => ~Ran(at[m])
    /\ pc[m] = "exec" /\ at[m] \in Creates =>
         \A n \in 1 .. (stmt[m] - 1) : Statements(StepOf(m))[n].needs \subseteq db
    /\ pc[m] = "exec" /\ at[m] \notin Creates /\ Failed(at[m]) => stmt[m] = 1
    /\ pc[m] = "save" /\ isSuccess[m] => ~Failed(at[m])
    /\ pc[m] = "save" /\ ~isSuccess[m] => Stuck(at[m]) /\ ~Ran(at[m])

(* The create steps behind a program have their rows. *)
CreatesBehind ==
  \A m \in Migrators : \A c \in Creates : Running(m) /\ at[m] > c => ~Unrecorded(c)

StuckInv == OnlyCreated /\ FailedIsStuck /\ FirstTime /\ CreatesBehind

FaultlessInv == Orderly /\ Faultless => StuckInv
-----------------------------------------------------------------------------
(* Runs that complete. *)

Quiet == ~(scenario.crashes \/ scenario.faults \/ scenario.overlap)

OnlyAdded == \A o \in db : \E k \in DOMAIN Script : o \in Adds(k)

(* A run to which nothing happened has done the steps behind it.             *)
RanBehind ==
  \A m \in Migrators : Running(m) /\ clean[m] =>
    \A j \in DOMAIN Script : j < at[m] => Ran(j)

SavesSuccess == \A m \in Migrators : pc[m] = "save" /\ clean[m] => isSuccess[m]

AllClean == \A m \in Migrators : clean[m]

(* The steps of a table are recorded in their order. *)
InOrder ==
  \A j, k \in DOMAIN Script : j < k /\ Table(j) = Table(k) /\ Ran(k) => Ran(j)

(* A table that a reset has forgotten and not yet dropped. *)
Dropping(t) == \E m \in Migrators : pc[m] = "drop" /\ Table(at[m]) = t

(* A column that is not in its table was dropped by its step. *)
DroppedOnce ==
  \A k \in DOMAIN Script : \A c \in ColumnsOf(Script[k]) :
    Script[k].op = "dropColumn" /\ TheTable(Table(k)) \in db =>
      TheColumn(Table(k), c) \in db \/ Done(k) \/ Dropping(Table(k))

(* An added column was added by its step. *)
AddedOnce ==
  \A k \in DOMAIN Script : \A c \in ColumnsOf(Script[k]) :
    Script[k].op = "addColumn" /\ TheColumn(Table(k), c) \in db =>
      \/ Done(k)
      \/ \E m \in Migrators : pc[m] = "exec" /\ at[m] = k /\ stmt[m] > 1
      \/ Dropping(Table(k))

QuietInv == AllClean /\ InOrder /\ DroppedOnce /\ AddedOnce

CompleteInv ==
  Completable => OnlyAdded /\ RanBehind /\ SavesSuccess /\ (Quiet => QuietInv)
-----------------------------------------------------------------------------
(* The statements of a step. *)

(* The n-th indexed column is a column that has an index. *)
LEMMA IndexedColumn ==
  ASSUME NEW s, s.columns \in Seq(Columns), NEW n \in 1 .. Cardinality(Indexed(s))
  PROVE  NthIndexed(s, n) \in {c \in ColumnsOf(s) : c.index}
<1> DEFINE I == Indexed(s)
           Upto(k) == {j \in I : j <= k}
           f == [k \in I |-> Cardinality(Upto(k))]
<1>1. I \subseteq 1 .. Len(s.columns) /\ Len(s.columns) \in Nat
  BY DEF Indexed
<1>2. IsFiniteSet(1 .. Len(s.columns))
  BY <1>1, FS_Interval
<1>3. IsFiniteSet(I)
  BY <1>1, <1>2, FS_Subset
<1>4. Cardinality(I) \in Nat
  BY <1>3, FS_CardinalityType
<1>5. ASSUME NEW k \in I
      PROVE  /\ IsFiniteSet(Upto(k))
             /\ Cardinality(Upto(k)) \in 1 .. Cardinality(I)
  <2>1. IsFiniteSet(Upto(k)) /\ Cardinality(Upto(k)) <= Cardinality(I)
    BY <1>3, FS_Subset
  <2>2. Cardinality(Upto(k)) \in Nat
    BY <2>1, FS_CardinalityType
  <2>3. k \in Upto(k)
    BY <1>1
  <2>4. Cardinality(Upto(k)) # 0
    BY <2>1, <2>3, FS_EmptySet
  <2> QED BY <1>4, <2>1, <2>2, <2>4
<1>6. ASSUME NEW j \in I, NEW k \in I, j < k
      PROVE  Cardinality(Upto(j)) # Cardinality(Upto(k))
  <2>1. Upto(j) \in SUBSET Upto(k)
    BY <1>1, <1>6
  <2>2. k \in Upto(k) /\ k \notin Upto(j)
    BY <1>1, <1>6
  <2> QED BY <1>5, <2>1, <2>2, FS_Subset
<1>7. f \in Injection(I, 1 .. Cardinality(I))
  <2>1. f \in [I -> 1 .. Cardinality(I)]
    BY <1>5
  <2>2. ASSUME NEW j \in I, NEW k \in I, f[j] = f[k]
        PROVE  j = k
    <3>1. j \in Int /\ k \in Int
      BY <1>1
    <3>2. Cardinality(Upto(j)) = Cardinality(Upto(k))
      BY <2>2
    <3>3. ~(j < k) /\ ~(k < j)
      BY <1>6, <3>2
    <3> QED BY <3>1, <3>3
  <2> QED BY <2>1, <2>2 DEF Injection, IsInjective
<1>8. f \in Surjection(I, 1 .. Cardinality(I))
  <2>1. IsFiniteSet(1 .. Cardinality(I)) /\ Cardinality(1 .. Cardinality(I)) = Cardinality(I)
    BY <1>4, FS_Interval
  <2> HIDE DEF f, I
  <2>2. Cardinality(I) = Cardinality(1 .. Cardinality(I))
    BY <2>1
  <2>3. Cardinality(I) = Cardinality(1 .. Cardinality(I))
          <=> f \in Surjection(I, 1 .. Cardinality(I))
    BY <1>7, <2>1, FS_Injection
  <2> QED BY <2>2, <2>3
<1>9. \E k \in I : Cardinality(Upto(k)) = n
  BY <1>8 DEF Surjection
<1>10. \E k \in I : NthIndexed(s, n) = s.columns[k]
  BY <1>9 DEF NthIndexed
<1> QED BY <1>10 DEF Indexed, ColumnsOf

(* The statements of a step that creates a table or adds a column. *)
ThenIndexes(s, first) ==
  /\ Len(Statements(s)) \in Nat \ {0}
  /\ DOMAIN Statements(s) = 1 .. Len(Statements(s))
  /\ Statements(s)[1] = first
  /\ \A n \in DOMAIN Statements(s) \ {1} :
       \E c \in ColumnsOf(s) : c.index /\ Statements(s)[n] = CreateIndex(s, c)

Joined(s, t) == s \o t

JoinedPlaces(s, t) ==
  /\ Len(Joined(s, t)) = Len(s) + Len(t)
  /\ \A n \in 1 .. Len(s) : Joined(s, t)[n] = s[n]
  /\ \A n \in 1 .. Len(t) : Joined(s, t)[Len(s) + n] = t[n]

LEMMA JoinedSeq ==
  ASSUME NEW S, NEW s \in Seq(S), NEW t \in Seq(S)
  PROVE  Joined(s, t) \in Seq(S) /\ JoinedPlaces(s, t)
<1>1. Len(s) \in Nat /\ Len(t) \in Nat
  BY LenProperties
<1>2. /\ Joined(s, t) \in Seq(S)
      /\ Len(Joined(s, t)) = Len(s) + Len(t)
      /\ \A i \in 1 .. Len(s) + Len(t) :
           Joined(s, t)[i] = IF i <= Len(s) THEN s[i] ELSE t[i - Len(s)]
  BY ConcatProperties DEF Joined
<1>3. ASSUME NEW n \in 1 .. Len(s) PROVE Joined(s, t)[n] = s[n]
  <2>1. n \in 1 .. Len(s) + Len(t) /\ n <= Len(s)
    BY <1>1
  <2> QED BY <1>2, <2>1
<1>4. ASSUME NEW n \in 1 .. Len(t) PROVE Joined(s, t)[Len(s) + n] = t[n]
  <2>1. PICK m \in 1 .. Len(s) + Len(t) : m = Len(s) + n
    BY <1>1
  <2>2. ~(m <= Len(s)) /\ m - Len(s) = n
    BY <1>1, <2>1
  <2>3. Joined(s, t)[m] = t[m - Len(s)]
    BY <1>2, <2>2
  <2> QED BY <2>1, <2>2, <2>3
<1> QED BY <1>2, <1>3, <1>4 DEF JoinedPlaces

LEMMA FirstThenIndexes ==
  ASSUME NEW s, s.columns \in Seq(Columns), NEW first,
         Statements(s) = <<first>> \o CreateIndexes(s)
  PROVE  ThenIndexes(s, first)
<1> DEFINE T == {CreateIndex(s, c) : c \in {d \in ColumnsOf(s) : d.index}}
           S == T \cup {first}
           rest == CreateIndexes(s)
<1>1. Cardinality(Indexed(s)) \in Nat
  <2>1. Indexed(s) \subseteq 1 .. Len(s.columns) /\ Len(s.columns) \in Nat
    BY DEF Indexed
  <2>2. IsFiniteSet(1 .. Len(s.columns))
    BY <2>1, FS_Interval
  <2>3. IsFiniteSet(Indexed(s))
    BY <2>1, <2>2, FS_Subset
  <2> QED BY <2>3, FS_CardinalityType
<1>2. \A n \in 1 .. Cardinality(Indexed(s)) : CreateIndex(s, NthIndexed(s, n)) \in T
  BY IndexedColumn
<1>3. \A n \in 1 .. Cardinality(Indexed(s)) : rest[n] \in T
  BY <1>1, <1>2 DEF CreateIndexes
<1>4. rest \in Seq(S) /\ Len(rest) \in Nat /\ \A n \in 1 .. Len(rest) : rest[n] \in T
  <2>1. rest = [n \in 1 .. Cardinality(Indexed(s)) |-> rest[n]]
    BY DEF CreateIndexes
  <2>2. Len(rest) = Cardinality(Indexed(s))
    BY <1>1 DEF CreateIndexes
  <2> HIDE DEF T, rest
  <2>3. \A n \in 1 .. Cardinality(Indexed(s)) : rest[n] \in S
    BY <1>3
  <2> HIDE DEF S
  <2>4. PICK N \in Nat : N = Cardinality(Indexed(s))
    BY <1>1
  <2>5. rest \in [1 .. N -> S]
    BY <2>1, <2>3, <2>4
  <2>6. rest \in Seq(S)
    BY <2>5
  <2> QED BY <1>1, <1>3, <2>2, <2>6
<1>5. <<first>> \in Seq(S) /\ Len(<<first>>) = 1 /\ <<first>>[1] = first
  OBVIOUS
<1> HIDE DEF T, S, rest
<1>6. /\ Len(Statements(s)) = 1 + Len(rest)
      /\ DOMAIN Statements(s) = 1 .. 1 + Len(rest)
      /\ Statements(s)[1] = first
      /\ \A n \in 2 .. 1 + Len(rest) : Statements(s)[n] = rest[n - 1]
  <2>1. Statements(s) = Joined(<<first>>, rest)
    BY DEF rest, Joined
  <2>2. /\ Joined(<<first>>, rest) \in Seq(S)
        /\ JoinedPlaces(<<first>>, rest)
    BY <1>4, <1>5, JoinedSeq
  <2>3. /\ Len(Joined(<<first>>, rest)) = 1 + Len(rest)
        /\ DOMAIN Joined(<<first>>, rest) = 1 .. 1 + Len(rest)
    BY <1>4, <1>5, <2>2 DEF JoinedPlaces
  <2>4. Joined(<<first>>, rest)[1] = first
    BY <1>4, <1>5, <2>2 DEF JoinedPlaces
  <2>5. ASSUME NEW n \in 2 .. 1 + Len(rest)
        PROVE  Joined(<<first>>, rest)[n] = rest[n - 1]
    <3>1. n - 1 \in 1 .. Len(rest) /\ n = 1 + (n - 1)
      BY <1>4
    <3> QED BY <1>5, <2>2, <3>1 DEF JoinedPlaces
  <2> QED BY <2>1, <2>3, <2>4, <2>5
<1>7. \A n \in 2 .. 1 + Len(rest) : Statements(s)[n] \in T
  BY <1>4, <1>6
<1> QED BY <1>4, <1>6, <1>7 DEF ThenIndexes, T

LEMMA StatementsOfStep ==
  ASSUME NEW s \in Steps
  PROVE  /\ s.op = "createTable" => ThenIndexes(s, CreateTable(s))
         /\ s.op = "addColumn"   => ThenIndexes(s, AddColumns(s))
         /\ s.op = "dropColumn"  => Statements(s) = <<DropColumns(s)>>
         /\ s.op = "dropTable"   => Statements(s) = <<DropTable(s)>>
<1>1. s.columns \in Seq(Columns)
  BY DEF Steps
<1>2. s.op = "createTable" => Statements(s) = <<CreateTable(s)>> \o CreateIndexes(s)
  BY DEF Statements
<1>3. s.op = "addColumn" => Statements(s) = <<AddColumns(s)>> \o CreateIndexes(s)
  BY DEF Statements
<1>4. /\ s.op = "dropColumn"  => Statements(s) = <<DropColumns(s)>>
      /\ s.op = "dropTable"   => Statements(s) = <<DropTable(s)>>
  BY DEF Statements
<1> QED BY <1>1, <1>2, <1>3, <1>4, FirstThenIndexes
-----------------------------------------------------------------------------
(* The script. *)

Objects == UNION {ObjectsOf(Script[k]) : k \in DOMAIN Script}

Rows == {Row(Script[k], status) : k \in DOMAIN Script, status \in BOOLEAN}

LEMMA ScriptFacts ==
  ASSUME scenario \in Scenarios
  PROVE  /\ Len(Script) \in Nat \ {0}
         /\ DOMAIN Script = 1 .. Len(Script)
         /\ \A k \in DOMAIN Script : Script[k] \in Steps
         /\ \A k \in DOMAIN Script :
              Script[k].op \in {"addColumn", "dropColumn"} => Len(Script[k].columns) = 1
         /\ \A j, k \in DOMAIN Script : j < k /\ k \in Creates => j \in Creates
<1>1. Script \in Seq(Steps) /\ Script # <<>>
  BY ScenariosAssumption DEF Script
<1>2. /\ \A k \in DOMAIN Script :
          Script[k].op \in {"addColumn", "dropColumn"} => Len(Script[k].columns) = 1
      /\ \A j, k \in DOMAIN Script :
          j < k /\ Script[k].op = "createTable" => Script[j].op = "createTable"
  BY ScenariosAssumption DEF Script
<1>3. Len(Script) \in Nat \ {0} /\ DOMAIN Script = 1 .. Len(Script)
  BY <1>1, EmptySeq, LenProperties
<1>4. \A k \in DOMAIN Script : Script[k] \in Steps
  BY <1>1, <1>3, ElementOfSeq
<1> QED BY <1>2, <1>3, <1>4 DEF Creates

(* The create steps are the first ones, and --reset begins at the last.      *)
LEMMA LastCreate ==
  ASSUME scenario \in Scenarios, Creates # {}
  PROVE  /\ Cardinality(Creates) \in Creates
         /\ \A k \in Creates : k <= Cardinality(Creates)
<1> DEFINE Ends == {n \in Nat : n + 1 \notin Creates}
<1>1. /\ Len(Script) \in Nat \ {0}
      /\ Creates \subseteq 1 .. Len(Script)
      /\ \A j, k \in 1 .. Len(Script) : j < k /\ k \in Creates => j \in Creates
  BY ScriptFacts DEF Creates
<1>2. Len(Script) \in Ends
  BY <1>1
<1> DEFINE R == OpToRel(<, Nat)
<1>3. PICK n \in Ends : \A j \in Ends : ~(<<j, n>> \in R)
  <2>1. IsWellFoundedOn(R, Nat)
    BY NatLessThanWellFounded
  <2> HIDE DEF R
  <2> QED BY <1>2, <2>1, WFMin
<1>4. \A j \in Nat : j < n => j + 1 \in Creates
  BY <1>3 DEF OpToRel
<1> HIDE DEF Ends, R
<1>5. n \in Nat /\ n + 1 \notin Creates
  BY <1>3 DEF Ends
<1>6. \A k \in 1 .. n : k \in Creates
  <2> TAKE k \in 1 .. n
  <2>1. k - 1 \in Nat /\ k - 1 < n /\ (k - 1) + 1 = k
    BY <1>5
  <2>2. (k - 1) + 1 \in Creates
    BY <1>4, <2>1
  <2> QED BY <2>1, <2>2
<1>7. \A k \in Creates : k \in 1 .. n
  <2> SUFFICES ASSUME NEW k \in Creates, ~(k \in 1 .. n) PROVE FALSE
    OBVIOUS
  <2>0. k \in 1 .. Len(Script) /\ k > n
    BY <1>1, <1>5
  <2>1. k # n + 1
    BY <1>5
  <2>2. n + 1 \in 1 .. Len(Script) /\ n + 1 < k
    BY <1>1, <1>5, <2>0, <2>1
  <2> QED BY <1>1, <1>5, <2>2
<1>8. Creates = 1 .. n /\ n \in Nat
  BY <1>5, <1>6, <1>7
<1>9. Cardinality(Creates) = n
  BY <1>8, FS_Interval
<1> QED BY <1>8, <1>9

(* What belongs to the script stays what it is. *)
LEMMA ScriptStays ==
  ASSUME scenario' = scenario
  PROVE  /\ Script' = Script
         /\ Creates' = Creates
         /\ Objects' = Objects
         /\ Rows' = Rows
         /\ Removed' = Removed
         /\ Created' = Created
         /\ Orderly' = Orderly
         /\ \A k : /\ Adds(k)' = Adds(k)
                  /\ Removes(k)' = Removes(k)
                  /\ Table(k)' = Table(k)
                  /\ Leaves(k)' = Leaves(k)
                  /\ KeepsOut(k)' = KeepsOut(k)
         /\ \A s : Statements(s)' = Statements(s)
<1>1. Script' = Script
  BY DEF Script
<1>2. Creates' = Creates
  BY <1>1 DEF Creates
<1>3. \A t : OfTable(t)' = OfTable(t)
  BY <1>1 DEF OfTable
<1>4. \A s : DropTable(s)' = DropTable(s)
  BY <1>3 DEF DropTable
<1>5. \A s : Statements(s)' = Statements(s)
  BY <1>4 DEF Statements
<1>6. \A k : Adds(k)' = Adds(k) /\ Removes(k)' = Removes(k) /\ Table(k)' = Table(k)
  BY <1>1, <1>5 DEF Adds, Removes, Table
<1>7. Objects' = Objects /\ Rows' = Rows
  BY <1>1 DEF Objects, Rows
<1>8. Removed' = Removed
  BY <1>1, <1>6 DEF Removed
<1>9. Created' = Created
  BY <1>1, <1>2 DEF Created
<1>10. Orderly' = Orderly
  BY <1>1, <1>2, <1>6 DEF Orderly
<1>11. \A k : Leaves(k)' = Leaves(k) /\ KeepsOut(k)' = KeepsOut(k)
  BY <1>1, <1>6 DEF Leaves, KeepsOut
<1> QED BY <1>1, <1>2, <1>5, <1>6, <1>7, <1>8, <1>9, <1>10, <1>11
-----------------------------------------------------------------------------
(* The variables have their types. *)

LEMMA StatementFacts ==
  ASSUME NEW s \in Steps
  PROVE  /\ Len(Statements(s)) \in Nat \ {0}
         /\ DOMAIN Statements(s) = 1 .. Len(Statements(s))
         /\ \A n \in DOMAIN Statements(s) : Statements(s)[n].adds \subseteq ObjectsOf(s)
<1>1. CASE s.op = "createTable"
  <2>1. ThenIndexes(s, CreateTable(s))
    BY <1>1, StatementsOfStep
  <2>2. CreateTable(s).adds \subseteq ObjectsOf(s)
    BY <1>1 DEF CreateTable, Statement, ObjectsOf
  <2>3. \A c \in ColumnsOf(s) : c.index => CreateIndex(s, c).adds \subseteq ObjectsOf(s)
    BY DEF CreateIndex, Statement, ObjectsOf
  <2> QED BY <2>1, <2>2, <2>3 DEF ThenIndexes
<1>2. CASE s.op = "addColumn"
  <2>1. ThenIndexes(s, AddColumns(s))
    BY <1>2, StatementsOfStep
  <2>2. AddColumns(s).adds \subseteq ObjectsOf(s)
    BY DEF AddColumns, Statement, ObjectsOf
  <2>3. \A c \in ColumnsOf(s) : c.index => CreateIndex(s, c).adds \subseteq ObjectsOf(s)
    BY DEF CreateIndex, Statement, ObjectsOf
  <2> QED BY <2>1, <2>2, <2>3 DEF ThenIndexes
<1>3. CASE s.op = "dropColumn"
  <2>1. Statements(s) = <<DropColumns(s)>>
    BY <1>3, StatementsOfStep
  <2>2. DropColumns(s).adds = {}
    BY DEF DropColumns, Statement
  <2> QED BY <2>1, <2>2
<1>4. CASE s.op = "dropTable"
  <2>1. Statements(s) = <<DropTable(s)>>
    BY <1>4, StatementsOfStep
  <2>2. DropTable(s).adds = {}
    BY DEF DropTable, Statement
  <2> QED BY <2>1, <2>2
<1> QED BY <1>1, <1>2, <1>3, <1>4 DEF Steps

(* Where a program can be, and what it executes there. *)
LEMMA StepFacts ==
  ASSUME TypeOK, NEW m \in Migrators
  PROVE  /\ at[m] \in DOMAIN Script
         /\ at[m] \in 1 .. Len(Script)
         /\ Len(Script) \in Nat \ {0}
         /\ DOMAIN Script = 1 .. Len(Script)
         /\ StepOf(m) \in Steps
         /\ StepOf(m) = Script[at[m]]
BY ScriptFacts DEF TypeOK, StepOf

LEMMA TypeInit == Init => TypeInv
<1> SUFFICES ASSUME Init PROVE TypeInv
  OBVIOUS
<1>1. 1 \in DOMAIN Script
  BY ScriptFacts DEF Init
<1>2. at \in [Migrators -> DOMAIN Script]
  BY <1>1 DEF Init
<1>3. runs \in 0 .. MaxRuns
  BY MaxRunsAssumption DEF Init
<1>4. TypeOK
  BY <1>2, <1>3 DEF Init, TypeOK
<1>5. AtStatement
  BY DEF Init, AtStatement
<1> QED BY <1>4, <1>5 DEF TypeInv

LEMMA AdvanceTypes ==
  ASSUME TypeOK, NEW m \in Migrators, Advance(m), UNCHANGED scenario
  PROVE  /\ at' \in [Migrators -> DOMAIN Script]
         /\ pc' \in [Migrators -> {"idle", "forget", "drop", "check", "exec", "save"}]
<1>1. IF at[m] = Len(Script) THEN 1 \in DOMAIN Script ELSE at[m] + 1 \in DOMAIN Script
  BY StepFacts
<1>2. at \in [Migrators -> DOMAIN Script]
  BY DEF TypeOK
<1>3. at' \in [Migrators -> DOMAIN Script]
  BY <1>1, <1>2 DEF Advance
<1> QED BY <1>3 DEF Advance, TypeOK

LEMMA TypeNext == TypeInv /\ [Next]_vars => TypeInv'
<1> SUFFICES ASSUME TypeInv, [Next]_vars PROVE TypeInv'
  OBVIOUS
<1>0. TypeOK /\ AtStatement
  BY DEF TypeInv
<1>1. scenario' = scenario
  BY DEF Next, Start, ResetMigrationTable, ResetTable, Check, Execute, ExecuteFails,
         SaveHistory, Crash, AllRun, vars, runVars
<1>2. /\ Script' = Script
      /\ \A s : Statements(s)' = Statements(s)
      /\ \A m : StepOf(m)' = Script[at'[m]]
  BY <1>1, ScriptStays DEF StepOf
<1>3. /\ scenario \in Scenarios
      /\ db \subseteq Objects
      /\ history \subseteq Rows
      /\ runs \in 0 .. MaxRuns
      /\ pc \in [Migrators -> {"idle", "forget", "drop", "check", "exec", "save"}]
      /\ at \in [Migrators -> DOMAIN Script]
      /\ stmt \in [Migrators -> Nat \ {0}]
      /\ isReset \in [Migrators -> BOOLEAN]
      /\ isSuccess \in [Migrators -> BOOLEAN]
      /\ clean \in [Migrators -> BOOLEAN]
  BY <1>0 DEF TypeOK, Objects, Rows
<1> DEFINE Typed == /\ db' \subseteq Objects
                    /\ history' \subseteq Rows
                    /\ runs' \in 0 .. MaxRuns
                    /\ pc' \in [Migrators -> {"idle", "forget", "drop", "check", "exec", "save"}]
                    /\ at' \in [Migrators -> DOMAIN Script]
                    /\ stmt' \in [Migrators -> Nat \ {0}]
                    /\ isReset' \in [Migrators -> BOOLEAN]
                    /\ isSuccess' \in [Migrators -> BOOLEAN]
                    /\ clean' \in [Migrators -> BOOLEAN]
           Placed == \A m \in Migrators :
                       pc'[m] = "exec" => stmt'[m] \in DOMAIN Statements(Script[at'[m]])
<1>4. \A m \in Migrators : pc[m] = "exec" => stmt[m] \in DOMAIN Statements(Script[at[m]])
  BY <1>0 DEF AtStatement, StepOf
<1>5. ASSUME NEW m \in Migrators, Start(m) PROVE Typed /\ Placed
  <2>1. Creates # {} => Cardinality(Creates) \in DOMAIN Script
    BY <1>3, LastCreate DEF Creates
  <2>2. 1 \in DOMAIN Script
    BY <1>3, ScriptFacts
  <2>3. \A reset \in BOOLEAN :
          (IF reset /\ Creates # {} THEN Cardinality(Creates) ELSE 1) \in DOMAIN Script
    BY <2>1, <2>2
  <2>4. PICK reset \in BOOLEAN :
          /\ isReset' = [isReset EXCEPT ![m] = reset]
          /\ pc' = [pc EXCEPT ![m] = IF reset /\ Creates # {} THEN "forget" ELSE "check"]
          /\ at' = [at EXCEPT ![m] = IF reset /\ Creates # {} THEN Cardinality(Creates) ELSE 1]
    BY <1>5 DEF Start
  <2>5. at' \in [Migrators -> DOMAIN Script]
    BY <1>3, <2>3, <2>4
  <2>6. runs' \in 0 .. MaxRuns
    BY <1>3, <1>5, MaxRunsAssumption DEF Start
  <2>7. Typed
    BY <1>3, <1>5, <2>4, <2>5, <2>6 DEF Start
  <2>8. Placed
    BY <1>3, <1>4, <1>5, <2>4 DEF Start
  <2> QED BY <2>7, <2>8
<1>6. ASSUME NEW m \in Migrators, ResetMigrationTable(m) PROVE Typed /\ Placed
  BY <1>3, <1>4, <1>6 DEF ResetMigrationTable, runVars
<1>7. ASSUME NEW m \in Migrators, ResetTable(m) PROVE Typed /\ Placed
  <2>1. (IF at[m] = 1 THEN 1 ELSE at[m] - 1) \in DOMAIN Script
    BY <1>0, StepFacts
  <2>2. at' \in [Migrators -> DOMAIN Script]
    BY <1>3, <1>7, <2>1 DEF ResetTable
  <2> QED BY <1>3, <1>4, <1>7, <2>2 DEF ResetTable, runVars
<1>8. ASSUME NEW m \in Migrators, Check(m) PROVE Typed /\ Placed
  <2>1. CASE /\ pc' = [pc EXCEPT ![m] = "exec"]
             /\ stmt' = [stmt EXCEPT ![m] = 1]
             /\ UNCHANGED at
    <3>1. 1 \in DOMAIN Statements(Script[at[m]])
      BY <1>0, StepFacts, StatementFacts
    <3>2. stmt' \in [Migrators -> Nat \ {0}]
      BY <1>3, <2>1
    <3>3. Typed
      BY <1>3, <1>8, <2>1, <3>2 DEF Check, runVars
    <3>4. ASSUME NEW n \in Migrators, pc'[n] = "exec"
          PROVE  stmt'[n] \in DOMAIN Statements(Script[at'[n]])
      <4>1. CASE n = m
        BY <1>3, <2>1, <3>1, <4>1
      <4>2. CASE n # m
        <5>1. pc[n] = "exec" /\ stmt'[n] = stmt[n] /\ at'[n] = at[n]
          BY <2>1, <3>4, <4>2
        <5> QED BY <1>4, <5>1
      <4> QED BY <4>1, <4>2
    <3>5. Placed
      BY <3>4
    <3> QED BY <3>3, <3>5
  <2>2. CASE Advance(m) /\ UNCHANGED stmt
    <3>1. Typed
      BY <1>0, <1>1, <1>3, <1>8, <2>2, AdvanceTypes DEF Check, runVars
    <3>2. Placed
      BY <1>3, <1>4, <2>2 DEF Advance
    <3> QED BY <3>1, <3>2
  <2> QED BY <1>8, <2>1, <2>2 DEF Check
<1>9. ASSUME NEW m \in Migrators, Execute(m) PROVE Typed /\ Placed
  <2> DEFINE s == StepOf(m)
             st == Statements(s)[stmt[m]]
  <2>1. /\ Len(Statements(s)) \in Nat \ {0}
        /\ DOMAIN Statements(s) = 1 .. Len(Statements(s))
        /\ s = Script[at[m]] /\ at[m] \in DOMAIN Script
    BY <1>0, StepFacts, StatementFacts
  <2>2. pc[m] = "exec" /\ stmt[m] \in DOMAIN Statements(s)
    BY <1>0, <1>9 DEF Execute, AtStatement
  <2>3. st.adds \subseteq ObjectsOf(s)
    BY <1>0, <2>2, StepFacts, StatementFacts
  <2>4. ObjectsOf(s) \subseteq Objects
    BY <2>1 DEF Objects
  <2>5. db' \subseteq db \cup st.adds
    BY <1>9 DEF Execute, Effect
  <2>6. db' \subseteq Objects
    BY <1>3, <2>3, <2>4, <2>5
  <2> HIDE DEF s, st
  <2>7. UNCHANGED <<runs, isReset, history, at, clean>>
    BY <1>9 DEF Execute, runVars
  <2>8. CASE /\ stmt[m] < Len(Statements(s))
             /\ stmt' = [stmt EXCEPT ![m] = @ + 1]
             /\ UNCHANGED <<pc, isSuccess>>
    <3>1. stmt[m] + 1 \in Nat \ {0} /\ stmt[m] + 1 \in DOMAIN Statements(s)
      BY <1>3, <2>1, <2>8
    <3>2. \A n \in Migrators : stmt'[n] = stmt[n] \/ (n = m /\ stmt'[n] = stmt[m] + 1)
      BY <2>8
    <3>3. stmt' \in [Migrators -> Nat \ {0}]
      BY <1>3, <2>8, <3>1
    <3>4. Typed
      BY <1>3, <2>6, <2>7, <2>8, <3>3
    <3>5. Placed
      BY <1>4, <2>1, <2>7, <2>8, <3>1, <3>2
    <3> QED BY <3>4, <3>5
  <2>9. CASE /\ isSuccess' = [isSuccess EXCEPT ![m] = TRUE]
             /\ pc' = [pc EXCEPT ![m] = "save"]
             /\ UNCHANGED stmt
    <3>1. Typed
      BY <1>3, <2>6, <2>7, <2>9
    <3>2. Placed
      BY <1>3, <1>4, <2>7, <2>9
    <3> QED BY <3>1, <3>2
  <2> QED BY <1>9, <2>8, <2>9 DEF Execute, s
<1>10. ASSUME NEW m \in Migrators, ExecuteFails(m) PROVE Typed /\ Placed
  <2>1. Typed
    BY <1>3, <1>10 DEF ExecuteFails, runVars
  <2>2. Placed
    BY <1>3, <1>4, <1>10 DEF ExecuteFails, runVars
  <2> QED BY <2>1, <2>2
<1>11. ASSUME NEW m \in Migrators, SaveHistory(m) PROVE Typed /\ Placed
  <2>1. Row(StepOf(m), isSuccess[m]) \in Rows
    BY <1>0, <1>3, StepFacts DEF Rows
  <2>2. history' \subseteq Rows
    BY <1>3, <1>11, <2>1 DEF SaveHistory
  <2>3. Typed
    BY <1>0, <1>1, <1>3, <1>11, <2>2, AdvanceTypes DEF SaveHistory, runVars
  <2>4. Placed
    BY <1>3, <1>4, <1>11 DEF SaveHistory, Advance
  <2> QED BY <2>3, <2>4
<1>12. ASSUME NEW m \in Migrators, Crash(m) PROVE Typed /\ Placed
  <2>1. 1 \in DOMAIN Script
    BY <1>3, ScriptFacts
  <2>2. Typed
    BY <1>3, <1>12, <2>1 DEF Crash, runVars
  <2>3. Placed
    BY <1>3, <1>4, <1>12 DEF Crash, runVars
  <2> QED BY <2>2, <2>3
<1>13. ASSUME UNCHANGED vars PROVE Typed /\ Placed
  BY <1>3, <1>4, <1>13 DEF vars, runVars
<1>14. Typed /\ Placed
  BY <1>5, <1>6, <1>7, <1>8, <1>9, <1>10, <1>11, <1>12, <1>13 DEF Next, AllRun
<1> HIDE DEF Placed
<1>15. Objects' = Objects /\ Rows' = Rows
  BY <1>1, ScriptStays
<1>16. TypeOK'
  BY <1>1, <1>2, <1>3, <1>14, <1>15 DEF TypeOK, Objects, Rows
<1>17. AtStatement'
  BY <1>2, <1>14 DEF AtStatement, Placed
<1> QED BY <1>16, <1>17 DEF TypeInv

(* Every variable keeps its type: the schema has no object but those of the  *)
(* script, the history no row but those of its steps (execThenSaveHistory),  *)
(* and no program runs past the end of the script.                           *)
THEOREM TypeCorrect == Spec => []TypeOK
<1>1. Init => TypeInv
  BY TypeInit
<1>2. TypeInv /\ [Next]_vars => TypeInv'
  BY TypeNext
<1>3. TypeInv => TypeOK
  BY DEF TypeInv
<1> QED BY <1>1, <1>2, <1>3, PTL DEF Spec
-----------------------------------------------------------------------------
(* What the steps add and remove. *)

LEMMA Shapes ==
  ASSUME scenario \in Scenarios, NEW k \in DOMAIN Script
  PROVE  /\ Script[k] \in Steps
         /\ Script[k].op = "createTable" =>
              /\ ThenIndexes(Script[k], CreateTable(Script[k]))
              /\ Removes(k) = {}
              /\ TheTable(Table(k)) \in Adds(k)
              /\ \A c \in ColumnsOf(Script[k]) : TheColumn(Table(k), c) \in Adds(k)
         /\ Script[k].op = "addColumn" =>
              /\ ThenIndexes(Script[k], AddColumns(Script[k]))
              /\ Removes(k) = {}
              /\ \E c \in ColumnsOf(Script[k]) :
                   ColumnsOf(Script[k]) = {c} /\ TheColumn(Table(k), c) \in Adds(k)
         /\ Script[k].op = "dropColumn" =>
              /\ Statements(Script[k]) = <<DropColumns(Script[k])>>
              /\ Adds(k) = {}
              /\ \E c \in ColumnsOf(Script[k]) :
                   /\ ColumnsOf(Script[k]) = {c}
                   /\ Removes(k) = {TheColumn(Table(k), c), TheIndex(Table(k), c)}
         /\ Script[k].op = "dropTable" =>
              /\ Statements(Script[k]) = <<DropTable(Script[k])>>
              /\ Adds(k) = {}
              /\ Removes(k) = OfTable(Table(k))
              /\ TheTable(Table(k)) \in Removes(k)
<1> DEFINE s == Script[k]
<1>1. s \in Steps /\ s.columns \in Seq(Columns)
  BY ScriptFacts DEF Steps
<1>2. Table(k) = s.table
  BY DEF Table
<1>3. s.op \in {"addColumn", "dropColumn"} => \E c \in ColumnsOf(s) : ColumnsOf(s) = {c}
  <2> SUFFICES ASSUME s.op \in {"addColumn", "dropColumn"}
               PROVE  \E c \in ColumnsOf(s) : ColumnsOf(s) = {c}
    OBVIOUS
  <2>1. Len(s.columns) = 1
    BY ScriptFacts
  <2>2. DOMAIN s.columns = {1}
    BY <1>1, <2>1, LenProperties
  <2> QED BY <2>2 DEF ColumnsOf
<1>4. /\ Adds(k) = UNION {Statements(s)[n].adds : n \in DOMAIN Statements(s)}
      /\ Removes(k) = UNION {Statements(s)[n].removes : n \in DOMAIN Statements(s)}
  BY DEF Adds, Removes
<1>5. \A c : CreateIndex(s, c).removes = {}
  BY DEF CreateIndex, Statement
<1>6. ASSUME s.op = "createTable"
      PROVE  /\ ThenIndexes(s, CreateTable(s))
             /\ Removes(k) = {}
             /\ TheTable(Table(k)) \in Adds(k)
             /\ \A c \in ColumnsOf(s) : TheColumn(Table(k), c) \in Adds(k)
  <2>1. ThenIndexes(s, CreateTable(s))
    BY <1>1, <1>6, StatementsOfStep
  <2>2. CreateTable(s).removes = {}
    BY DEF CreateTable, Statement
  <2>3. /\ TheTable(Table(k)) \in CreateTable(s).adds
        /\ \A c \in ColumnsOf(s) : TheColumn(Table(k), c) \in CreateTable(s).adds
    BY <1>2 DEF CreateTable, Statement
  <2>4. \A n \in DOMAIN Statements(s) : Statements(s)[n].removes = {}
    BY <1>5, <2>1, <2>2 DEF ThenIndexes
  <2>5. CreateTable(s).adds \subseteq Adds(k)
    BY <1>4, <2>1 DEF ThenIndexes
  <2> QED BY <1>4, <2>1, <2>3, <2>4, <2>5
<1>7. ASSUME s.op = "addColumn"
      PROVE  /\ ThenIndexes(s, AddColumns(s))
             /\ Removes(k) = {}
             /\ \E c \in ColumnsOf(s) : ColumnsOf(s) = {c} /\ TheColumn(Table(k), c) \in Adds(k)
  <2>1. ThenIndexes(s, AddColumns(s))
    BY <1>1, <1>7, StatementsOfStep
  <2>2. AddColumns(s).removes = {}
    BY DEF AddColumns, Statement
  <2>3. \A c \in ColumnsOf(s) : TheColumn(Table(k), c) \in AddColumns(s).adds
    BY <1>2 DEF AddColumns, Statement
  <2>4. \A n \in DOMAIN Statements(s) : Statements(s)[n].removes = {}
    BY <1>5, <2>1, <2>2 DEF ThenIndexes
  <2>5. AddColumns(s).adds \subseteq Adds(k)
    BY <1>4, <2>1 DEF ThenIndexes
  <2> QED BY <1>3, <1>4, <1>7, <2>1, <2>3, <2>4, <2>5
<1>8. ASSUME s.op = "dropColumn"
      PROVE  /\ Statements(s) = <<DropColumns(s)>>
             /\ Adds(k) = {}
             /\ \E c \in ColumnsOf(s) :
                  /\ ColumnsOf(s) = {c}
                  /\ Removes(k) = {TheColumn(Table(k), c), TheIndex(Table(k), c)}
  <2>1. Statements(s) = <<DropColumns(s)>>
    BY <1>1, <1>8, StatementsOfStep
  <2>2. Adds(k) = DropColumns(s).adds /\ Removes(k) = DropColumns(s).removes
    BY <1>4, <2>1
  <2>3. PICK c \in ColumnsOf(s) : ColumnsOf(s) = {c}
    BY <1>3, <1>8
  <2>4. DropColumns(s).adds = {}
    BY DEF DropColumns, Statement
  <2>5. DropColumns(s).removes = {TheColumn(Table(k), c), TheIndex(Table(k), c)}
    BY <1>2, <2>3 DEF DropColumns, Statement
  <2> QED BY <2>1, <2>2, <2>3, <2>4, <2>5
<1>9. ASSUME s.op = "dropTable"
      PROVE  /\ Statements(s) = <<DropTable(s)>>
             /\ Adds(k) = {}
             /\ Removes(k) = OfTable(Table(k))
             /\ TheTable(Table(k)) \in Removes(k)
  <2>1. Statements(s) = <<DropTable(s)>>
    BY <1>1, <1>9, StatementsOfStep
  <2>2. Adds(k) = DropTable(s).adds /\ Removes(k) = DropTable(s).removes
    BY <1>4, <2>1
  <2>3. DropTable(s).adds = {} /\ DropTable(s).removes = OfTable(Table(k))
    BY <1>2 DEF DropTable, Statement
  <2>4. TheTable(Table(k)) \in ObjectsOf(s) /\ TheTable(Table(k))[1] = Table(k)
    BY <1>2, <1>9 DEF ObjectsOf, TheTable
  <2>5. TheTable(Table(k)) \in OfTable(Table(k))
    BY <2>4 DEF OfTable
  <2> QED BY <2>1, <2>2, <2>3, <2>5
<1> QED BY <1>1, <1>6, <1>7, <1>8, <1>9
(* A step touches objects of its table only. *)
LEMMA OwnTable ==
  ASSUME scenario \in Scenarios, NEW k \in DOMAIN Script
  PROVE  \A o \in Adds(k) \cup Removes(k) : o[1] = Table(k)
<1> DEFINE s == Script[k]
<1>1. s \in Steps
  BY ScriptFacts
<1>2. \A o \in ObjectsOf(s) : o[1] = Table(k)
  BY DEF ObjectsOf, TheTable, TheColumn, TheIndex, Table
<1>3. Adds(k) \subseteq ObjectsOf(s)
  BY <1>1, StatementFacts DEF Adds
<1>4. \A o \in Removes(k) : o[1] = Table(k)
  <2>1. CASE s.op \in {"createTable", "addColumn"}
    BY <2>1, Shapes
  <2>2. CASE s.op = "dropColumn"
    BY <2>2, Shapes DEF TheColumn, TheIndex
  <2>3. CASE s.op = "dropTable"
    BY <2>3, Shapes DEF OfTable
  <2> QED BY <1>1, <2>1, <2>2, <2>3 DEF Steps
<1> QED BY <1>2, <1>3, <1>4

(* Only create adds a table, and only dropTable removes one. *)
LEMMA TableSteps ==
  ASSUME scenario \in Scenarios, NEW k \in DOMAIN Script, NEW t
  PROVE  /\ TheTable(t) \in Adds(k) => Script[k].op = "createTable" /\ Table(k) = t
         /\ TheTable(t) \in Removes(k) => Script[k].op = "dropTable" /\ Table(k) = t
<1> DEFINE s == Script[k]
<1>1. s \in Steps
  BY ScriptFacts
<1>2. TheTable(t)[1] = t
  BY DEF TheTable
<1>3. \A u, c : TheTable(t) # TheColumn(u, c) /\ TheTable(t) # TheIndex(u, c)
  BY DEF TheTable, TheColumn, TheIndex
<1>4. s.op = "addColumn" => TheTable(t) \notin Adds(k)
  <2> SUFFICES ASSUME s.op = "addColumn", NEW n \in DOMAIN Statements(s)
               PROVE  TheTable(t) \notin Statements(s)[n].adds
    BY DEF Adds
  <2>1. ThenIndexes(s, AddColumns(s))
    BY <1>1, StatementsOfStep
  <2>2. TheTable(t) \notin AddColumns(s).adds
    BY <1>3 DEF AddColumns, Statement
  <2>3. \A c : TheTable(t) \notin CreateIndex(s, c).adds
    BY <1>3 DEF CreateIndex, Statement
  <2> QED BY <2>1, <2>2, <2>3 DEF ThenIndexes
<1>5. s.op = "dropColumn" => TheTable(t) \notin Removes(k)
  BY <1>3, Shapes
<1>6. /\ s.op \in {"dropColumn", "dropTable"} => Adds(k) = {}
      /\ s.op \in {"createTable", "addColumn"} => Removes(k) = {}
  BY Shapes
<1>7. /\ TheTable(t) \in Adds(k) => Table(k) = t
      /\ TheTable(t) \in Removes(k) => Table(k) = t
  BY <1>2, OwnTable
<1> QED BY <1>1, <1>4, <1>5, <1>6, <1>7 DEF Steps

(* What makes a script orderly, step by step. *)
LEMMA OrderlyScript ==
  ASSUME scenario \in Scenarios, Orderly
  PROVE  \A j, k \in DOMAIN Script :
           /\ Checksum(Script[j]) = Checksum(Script[k]) => j = k
           /\ Removes(j) \cap Removes(k) # {} => j = k
           /\ Adds(j) \cap Removes(k) # {} => j \in Creates /\ j < k
           /\ j \in Creates /\ k \in Creates /\ Table(j) = Table(k) => j = k
           /\ Script[j].op \in {"addColumn", "dropColumn"} /\ Script[k].op = "dropTable"
                => Table(j) # Table(k)
<1> SUFFICES ASSUME NEW j \in DOMAIN Script, NEW k \in DOMAIN Script
             PROVE  /\ Checksum(Script[j]) = Checksum(Script[k]) => j = k
                    /\ Removes(j) \cap Removes(k) # {} => j = k
                    /\ Adds(j) \cap Removes(k) # {} => j \in Creates /\ j < k
                    /\ j \in Creates /\ k \in Creates /\ Table(j) = Table(k) => j = k
                    /\ Script[j].op \in {"addColumn", "dropColumn"} /\ Script[k].op = "dropTable"
                         => Table(j) # Table(k)
  BY Zenon
<1>1. /\ Checksum(Script[j]) = Checksum(Script[k]) => j = k
      /\ Adds(j) \cap Adds(k) # {} => j = k
      /\ Removes(j) \cap Removes(k) # {} => j = k
      /\ Adds(j) \cap Removes(k) # {} => j \in Creates
  BY DEF Orderly
<1>2. k \in Creates => Removes(k) = {}
  BY Shapes DEF Creates
<1>3. Adds(j) \cap Removes(k) # {} => j \in Creates /\ j < k
  <2> SUFFICES ASSUME Adds(j) \cap Removes(k) # {} PROVE j \in Creates /\ j < k
    OBVIOUS
  <2>1. j \in Creates /\ k \notin Creates
    BY <1>1, <1>2
  <2>2. /\ DOMAIN Script = 1 .. Len(Script) /\ Len(Script) \in Nat
        /\ k < j /\ j \in Creates => k \in Creates
    BY ScriptFacts
  <2> QED BY <2>1, <2>2
<1>4. j \in Creates /\ k \in Creates /\ Table(j) = Table(k) => j = k
  <2>1. j \in Creates => TheTable(Table(j)) \in Adds(j)
    BY Shapes DEF Creates
  <2>2. k \in Creates => TheTable(Table(k)) \in Adds(k)
    BY Shapes DEF Creates
  <2> QED BY <1>1, <2>1, <2>2
<1>5. ASSUME Script[j].op \in {"addColumn", "dropColumn"}, Script[k].op = "dropTable",
             Table(j) = Table(k)
      PROVE  FALSE
  <2>1. \A c \in ColumnsOf(Script[j]) :
          TheColumn(Table(j), c) \in ObjectsOf(Script[j]) /\ TheColumn(Table(j), c)[1] = Table(j)
    BY DEF ObjectsOf, TheColumn, Table
  <2>2. \A c \in ColumnsOf(Script[j]) : TheColumn(Table(j), c) \in OfTable(Table(k))
    BY <1>5, <2>1 DEF OfTable
  <2>3. Removes(k) = OfTable(Table(k))
    BY <1>5, Shapes
  <2>4. CASE Script[j].op = "addColumn"
    <3>1. PICK c \in ColumnsOf(Script[j]) : TheColumn(Table(j), c) \in Adds(j)
      BY <2>4, Shapes
    <3>2. j \in Creates
      BY <1>1, <2>2, <2>3, <3>1
    <3> QED BY <2>4, <3>2 DEF Creates
  <2>5. CASE Script[j].op = "dropColumn"
    <3>1. PICK c \in ColumnsOf(Script[j]) : TheColumn(Table(j), c) \in Removes(j)
      BY <2>5, Shapes
    <3>2. j = k
      BY <1>1, <2>2, <2>3, <3>1
    <3> QED BY <1>5, <2>5, <3>2
  <2> QED BY <1>5, <2>4, <2>5
<1> QED BY <1>1, <1>3, <1>4, <1>5
-----------------------------------------------------------------------------
(* What a statement does to the schema. *)

(* The statement that m executes, and what becomes of the schema.            *)
CreatesNothing(m, k) ==
  /\ Script[k].op = "createTable" /\ stmt[m] = 1
  /\ TheTable(Table(k)) \in db
  /\ db' = db

CreatesTable(m, k) ==
  /\ Script[k].op = "createTable" /\ stmt[m] = 1
  /\ TheTable(Table(k)) \notin db
  /\ db' = db \cup CreateTable(Script[k]).adds

AddsColumns(m, k) ==
  /\ Script[k].op = "addColumn" /\ stmt[m] = 1
  /\ TheTable(Table(k)) \in db
  /\ db' = db \cup AddColumns(Script[k]).adds

CreatesIndex(m, k) ==
  /\ Script[k].op \in {"createTable", "addColumn"} /\ stmt[m] > 1
  /\ \E c \in ColumnsOf(Script[k]) :
       /\ Statements(Script[k])[stmt[m]] = CreateIndex(Script[k], c)
       /\ TheColumn(Table(k), c) \in db
       /\ db' = db \cup {TheIndex(Table(k), c)}

DropsColumn(m, k) ==
  /\ Script[k].op = "dropColumn"
  /\ \E c \in ColumnsOf(Script[k]) : TheColumn(Table(k), c) \in db
  /\ db' = db \ Removes(k)

DropsTable(m, k) ==
  /\ Script[k].op = "dropTable"
  /\ db' = db \ Removes(k)

LEMMA ExecuteEffect ==
  ASSUME TypeInv, NEW m \in Migrators, Execute(m)
  PROVE  \/ CreatesNothing(m, at[m])
         \/ CreatesTable(m, at[m])
         \/ AddsColumns(m, at[m])
         \/ CreatesIndex(m, at[m])
         \/ DropsColumn(m, at[m])
         \/ DropsTable(m, at[m])
<1> DEFINE k == at[m]
           s == Script[k]
           st == Statements(s)[stmt[m]]
<1>1. /\ scenario \in Scenarios /\ k \in DOMAIN Script /\ s \in Steps /\ StepOf(m) = s
      /\ pc[m] = "exec"
  BY StepFacts DEF TypeInv, TypeOK, Execute
<1>2. /\ stmt[m] \in DOMAIN Statements(s)
      /\ DOMAIN Statements(s) = 1 .. Len(Statements(s))
      /\ Len(Statements(s)) \in Nat
  BY <1>1, StatementFacts DEF TypeInv, AtStatement
<1>3. Succeeds(st) /\ db' = Effect(st, s)
  BY <1>1 DEF Execute
<1>4. Table(k) = s.table
  BY DEF Table
<1>5. CASE s.op = "createTable"
  <2>1. ThenIndexes(s, CreateTable(s))
    BY <1>1, <1>5, Shapes
  <2>2. CASE stmt[m] = 1
    <3>1. st = CreateTable(s)
      BY <2>1, <2>2 DEF ThenIndexes
    <3>2. st.needs = {} /\ st.removes = {}
      BY <3>1 DEF CreateTable, Statement
    <3>3. db' = IF TheTable(Table(k)) \in db THEN db ELSE db \cup CreateTable(s).adds
      BY <1>3, <1>4, <1>5, <3>1, <3>2 DEF Effect
    <3> QED BY <1>5, <2>2, <3>3 DEF CreatesNothing, CreatesTable
  <2>3. CASE stmt[m] # 1
    <3>1. PICK c \in ColumnsOf(s) : st = CreateIndex(s, c)
      BY <1>2, <2>1, <2>3 DEF ThenIndexes
    <3>2. /\ st.needs = {TheColumn(Table(k), c)} /\ st.removes = {}
          /\ st.adds = {TheIndex(Table(k), c)}
      BY <1>4, <3>1 DEF CreateIndex, Statement
    <3>3. TheColumn(Table(k), c) \in db
      BY <1>3, <3>2 DEF Succeeds
    <3>4. db' = db \cup {TheIndex(Table(k), c)}
      BY <1>3, <3>2 DEF Effect
    <3> QED BY <1>2, <1>5, <2>3, <3>1, <3>3, <3>4 DEF CreatesIndex
  <2> QED BY <2>2, <2>3
<1>6. CASE s.op = "addColumn"
  <2>1. ThenIndexes(s, AddColumns(s))
    BY <1>1, <1>6, Shapes
  <2>2. CASE stmt[m] = 1
    <3>1. st = AddColumns(s)
      BY <2>1, <2>2 DEF ThenIndexes
    <3>2. st.needs = {TheTable(Table(k))} /\ st.removes = {}
      BY <1>4, <3>1 DEF AddColumns, Statement
    <3>3. TheTable(Table(k)) \in db
      BY <1>3, <3>2 DEF Succeeds
    <3>4. db' = db \cup AddColumns(s).adds
      BY <1>3, <1>6, <3>1, <3>2 DEF Effect
    <3> QED BY <1>6, <2>2, <3>3, <3>4 DEF AddsColumns
  <2>3. CASE stmt[m] # 1
    <3>1. PICK c \in ColumnsOf(s) : st = CreateIndex(s, c)
      BY <1>2, <2>1, <2>3 DEF ThenIndexes
    <3>2. /\ st.needs = {TheColumn(Table(k), c)} /\ st.removes = {}
          /\ st.adds = {TheIndex(Table(k), c)}
      BY <1>4, <3>1 DEF CreateIndex, Statement
    <3>3. TheColumn(Table(k), c) \in db
      BY <1>3, <3>2 DEF Succeeds
    <3>4. db' = db \cup {TheIndex(Table(k), c)}
      BY <1>3, <3>2 DEF Effect
    <3> QED BY <1>2, <1>6, <2>3, <3>1, <3>3, <3>4 DEF CreatesIndex
  <2> QED BY <2>2, <2>3
<1>7. CASE s.op = "dropColumn"
  <2>1. Statements(s) = <<DropColumns(s)>>
    BY <1>1, <1>7, Shapes
  <2>2. st = DropColumns(s)
    BY <1>2, <2>1
  <2>3. PICK c \in ColumnsOf(s) : Removes(k) = {TheColumn(Table(k), c), TheIndex(Table(k), c)}
                                 /\ ColumnsOf(s) = {c}
    BY <1>1, <1>7, Shapes
  <2>4. /\ st.needs = {TheColumn(Table(k), c)} /\ st.adds = {}
        /\ st.removes = {TheColumn(Table(k), c), TheIndex(Table(k), c)}
    BY <1>4, <2>2, <2>3 DEF DropColumns, Statement
  <2>5. TheColumn(Table(k), c) \in db
    BY <1>3, <2>4 DEF Succeeds
  <2>6. db' = db \ Removes(k)
    BY <1>3, <1>7, <2>3, <2>4 DEF Effect
  <2> QED BY <1>7, <2>5, <2>6 DEF DropsColumn
<1>8. CASE s.op = "dropTable"
  <2>1. Statements(s) = <<DropTable(s)>> /\ Removes(k) = OfTable(Table(k))
    BY <1>1, <1>8, Shapes
  <2>2. st = DropTable(s)
    BY <1>2, <2>1
  <2>3. st.adds = {} /\ st.removes = Removes(k)
    BY <1>4, <2>1, <2>2 DEF DropTable, Statement
  <2>4. db' = db \ Removes(k)
    BY <1>3, <1>8, <2>3 DEF Effect
  <2> QED BY <1>8, <2>4 DEF DropsTable
<1> QED BY <1>1, <1>5, <1>6, <1>7, <1>8 DEF Steps

(* It adds what its step adds, and removes what its step removes. *)
LEMMA ExecuteBounds ==
  ASSUME TypeInv, NEW m \in Migrators, Execute(m)
  PROVE  /\ db' \subseteq db \cup Adds(at[m])
         /\ db \ Removes(at[m]) \subseteq db'
         /\ at[m] \in DOMAIN Script
<1> DEFINE k == at[m]
           s == Script[k]
           st == Statements(s)[stmt[m]]
<1>1. /\ k \in DOMAIN Script /\ StepOf(m) = s /\ pc[m] = "exec"
  BY StepFacts DEF TypeInv, Execute
<1>2. stmt[m] \in DOMAIN Statements(s)
  BY <1>1 DEF TypeInv, AtStatement
<1>3. st.adds \subseteq Adds(k) /\ st.removes \subseteq Removes(k)
  BY <1>2 DEF Adds, Removes
<1>4. db' = Effect(st, s)
  BY <1>1 DEF Execute
<1> QED BY <1>1, <1>3, <1>4 DEF Effect

LEMMA ExecuteTablesFirst ==
  ASSUME TypeInv, TablesFirst, NEW m \in Migrators, Execute(m)
  PROVE  TablesFirst'
<1> DEFINE k == at[m]
           s == Script[k]
           t == Table(k)
<1>1. /\ scenario \in Scenarios /\ k \in DOMAIN Script /\ db \subseteq Objects
  BY StepFacts DEF TypeInv, TypeOK, Objects
<1>2. s.table = t
  BY DEF Table
<1>3. \A u, c : /\ TheTable(u)[1] = u /\ TheColumn(u, c)[1] = u /\ TheIndex(u, c)[1] = u
  BY DEF TheTable, TheColumn, TheIndex
<1>4. \A o \in db : TheTable(o[1]) \in db
  BY DEF TablesFirst
<1> SUFFICES ASSUME NEW o \in db' PROVE TheTable(o[1]) \in db'
  BY DEF TablesFirst
<1>5. CASE CreatesNothing(m, k)
  BY <1>4, <1>5 DEF CreatesNothing
<1>6. CASE CreatesTable(m, k)
  <2>1. \A x \in CreateTable(s).adds : x[1] = t
    BY <1>2, <1>3 DEF CreateTable, Statement
  <2>2. TheTable(t) \in CreateTable(s).adds
    BY <1>2 DEF CreateTable, Statement
  <2> QED BY <1>4, <1>6, <2>1, <2>2 DEF CreatesTable
<1>7. CASE AddsColumns(m, k)
  <2>1. \A x \in AddColumns(s).adds : x[1] = t
    BY <1>2, <1>3 DEF AddColumns, Statement
  <2> QED BY <1>4, <1>7, <2>1 DEF AddsColumns
<1>8. CASE CreatesIndex(m, k)
  BY <1>3, <1>4, <1>8 DEF CreatesIndex
<1>9. CASE DropsColumn(m, k)
  BY <1>1, <1>4, <1>9, TableSteps DEF DropsColumn
<1>10. CASE DropsTable(m, k)
  <2>1. Removes(k) = OfTable(t)
    BY <1>1, <1>10, Shapes DEF DropsTable
  <2>2. o \in db /\ o \notin OfTable(t)
    BY <1>10, <2>1 DEF DropsTable
  <2>3. o[1] # t
    BY <1>1, <2>2 DEF OfTable, Objects
  <2>4. TheTable(o[1]) \notin OfTable(t)
    BY <1>3, <2>3 DEF OfTable
  <2> QED BY <1>4, <1>10, <2>1, <2>2, <2>4 DEF DropsTable
<1> QED BY <1>5, <1>6, <1>7, <1>8, <1>9, <1>10, ExecuteEffect
(* A table that some step removes is removed by a dropTable, and no other    *)
(* step removes anything of it.                                              *)
LEMMA DroppedWhole ==
  ASSUME scenario \in Scenarios, Orderly, NEW k \in DOMAIN Script,
         TheTable(Table(k)) \in Removed, Removes(k) # {}
  PROVE  Script[k].op = "dropTable"
<1>1. PICK j \in DOMAIN Script : TheTable(Table(k)) \in Removes(j)
  BY DEF Removed
<1>2. Script[j].op = "dropTable" /\ Table(j) = Table(k)
  BY <1>1, TableSteps
<1>3. Script[k].op \notin {"addColumn", "dropColumn"}
  BY <1>2, OrderlyScript
<1>4. Script[k].op # "createTable" /\ Script[k] \in Steps
  BY Shapes
<1> QED BY <1>3, <1>4 DEF Steps

LEMMA ExecuteTablesWhole ==
  ASSUME TypeInv, Orderly, TablesWhole, NEW m \in Migrators, Execute(m)
  PROVE  TablesWhole'
<1> DEFINE k == at[m]
           s == Script[k]
<1>1. /\ scenario \in Scenarios /\ k \in DOMAIN Script
      /\ db' \subseteq db \cup Adds(k) /\ db \ Removes(k) \subseteq db'
  BY ExecuteBounds DEF TypeInv, TypeOK
<1>2. /\ Script' = Script /\ Creates' = Creates /\ Removed' = Removed
      /\ \A j : Table(j)' = Table(j)
  BY ScriptStays DEF Execute, runVars
<1> SUFFICES ASSUME NEW j \in Creates, TheTable(Table(j)) \in db', NEW c \in ColumnsOf(Script[j])
             PROVE  \/ TheColumn(Table(j), c) \in db'
                    \/ TheColumn(Table(j), c) \in Removed /\ TheTable(Table(j)) \notin Removed
  BY <1>2 DEF TablesWhole
<1> DEFINE o == TheColumn(Table(j), c)
<1>3. j \in DOMAIN Script /\ Script[j].op = "createTable"
  BY DEF Creates
<1>4. CASE TheTable(Table(j)) \in db
  <2>1. \/ o \in db
        \/ o \in Removed /\ TheTable(Table(j)) \notin Removed
    BY <1>4 DEF TablesWhole
  <2>2. CASE o \in Removes(k) /\ TheTable(Table(j)) \in Removed
    <3>1. o[1] = Table(j) /\ o[1] = Table(k)
      BY <1>1, <2>2, OwnTable DEF TheColumn
    <3>2. Script[k].op = "dropTable"
      BY <1>1, <2>2, <3>1, DroppedWhole
    <3>3. TheTable(Table(j)) \in Removes(k)
      BY <1>1, <3>1, <3>2, Shapes
    <3>4. DropsTable(m, k)
      BY <3>2, ExecuteEffect DEF CreatesNothing, CreatesTable, AddsColumns, CreatesIndex, DropsColumn
    <3> QED BY <3>3, <3>4 DEF DropsTable
  <2>3. o \in Removes(k) => o \in Removed
    BY <1>1 DEF Removed
  <2>4. o \in db /\ o \notin Removes(k) => o \in db'
    BY <1>1
  <2>5. CASE o \in db /\ o \notin Removes(k)
    BY <2>4, <2>5
  <2>6. CASE o \in Removes(k) /\ TheTable(Table(j)) \notin Removed
    BY <2>3, <2>6
  <2>7. CASE o \notin db
    BY <2>1, <2>7
  <2> QED BY <2>2, <2>5, <2>6, <2>7
<1>5. CASE TheTable(Table(j)) \notin db
  <2>1. TheTable(Table(j)) \in Adds(k)
    BY <1>1, <1>5
  <2>2. s.op = "createTable" /\ Table(k) = Table(j)
    BY <1>1, <2>1, TableSteps
  <2>3. k = j
    BY <1>1, <1>3, <2>2, OrderlyScript DEF Creates
  <2>4. CreatesTable(m, k)
    <3>1. \A d : TheTable(Table(j)) # TheIndex(Table(k), d)
      BY DEF TheTable, TheIndex
    <3> QED BY <1>5, <2>2, <3>1, ExecuteEffect
            DEF CreatesNothing, AddsColumns, CreatesIndex, DropsColumn, DropsTable
  <2>5. o \in CreateTable(s).adds
    BY <2>3 DEF CreateTable, Statement, Table
  <2> QED BY <2>4, <2>5 DEF CreatesTable
<1> HIDE DEF o, k, s
<1> QED BY <1>4, <1>5 DEF o

(* The executed statement has added its objects, but for those that a step   *)
(* of the script drops.                                                      *)
LEMMA StatementDone ==
  ASSUME TypeInv, TablesWhole, NEW m \in Migrators, Execute(m)
  PROVE  Statements(Script[at[m]])[stmt[m]].adds \ Removed \subseteq db'
<1> DEFINE k == at[m]
           s == Script[k]
           st == Statements(s)[stmt[m]]
<1>1. scenario \in Scenarios /\ k \in DOMAIN Script
  BY StepFacts DEF TypeInv, TypeOK
<1>2. CASE CreatesNothing(m, k)
  <2>1. st = CreateTable(s)
    BY <1>1, <1>2, Shapes DEF CreatesNothing, ThenIndexes
  <2>2. st.adds = {TheTable(Table(k))} \cup {TheColumn(Table(k), c) : c \in ColumnsOf(s)}
    BY <2>1 DEF CreateTable, Statement, Table
  <2>3. k \in Creates /\ TheTable(Table(k)) \in db /\ db' = db
    BY <1>1, <1>2 DEF CreatesNothing, Creates
  <2>4. \A c \in ColumnsOf(s) : TheColumn(Table(k), c) \in db \cup Removed
    BY <2>3 DEF TablesWhole
  <2>5. \A o \in st.adds : o \in db \cup Removed
    BY <2>2, <2>3, <2>4
  <2> QED BY <2>3, <2>5
<1>3. CASE CreatesTable(m, k)
  <2>1. st = CreateTable(s)
    BY <1>1, <1>3, Shapes DEF CreatesTable, ThenIndexes
  <2> QED BY <1>3, <2>1 DEF CreatesTable
<1>4. CASE AddsColumns(m, k)
  <2>1. st = AddColumns(s)
    BY <1>1, <1>4, Shapes DEF AddsColumns, ThenIndexes
  <2> QED BY <1>4, <2>1 DEF AddsColumns
<1>5. CASE CreatesIndex(m, k)
  <2>1. PICK c \in ColumnsOf(s) : st = CreateIndex(s, c) /\ db' = db \cup {TheIndex(Table(k), c)}
    BY <1>5 DEF CreatesIndex
  <2>2. st.adds = {TheIndex(Table(k), c)}
    BY <2>1 DEF CreateIndex, Statement, Table
  <2> QED BY <2>1, <2>2
<1>6. CASE DropsColumn(m, k) \/ DropsTable(m, k)
  <2>1. Adds(k) = {}
    BY <1>1, <1>6, Shapes DEF DropsColumn, DropsTable
  <2>2. pc[m] = "exec"
    BY DEF Execute
  <2>3. stmt[m] \in DOMAIN Statements(s)
    BY <2>2 DEF TypeInv, AtStatement, StepOf
  <2>4. st.adds \subseteq Adds(k)
    BY <2>3 DEF Adds
  <2> QED BY <2>1, <2>4
<1> QED BY <1>2, <1>3, <1>4, <1>5, <1>6, ExecuteEffect

(* What a step that is done left in the schema is left alone: only create    *)
(* could bring back what was removed, and it is held up by its own table.    *)
LEMMA KeptStays ==
  ASSUME TypeInv, Orderly, NEW m \in Migrators, Execute(m),
         NEW j \in DOMAIN Script, Kept(j),
         Script[j].op = "dropTable" /\ Table(j) = Table(at[m]) => at[m] \notin Creates
  PROVE  Kept(j)'
<1> DEFINE k == at[m]
           s == Script[k]
<1>1. /\ scenario \in Scenarios /\ k \in DOMAIN Script
      /\ db' \subseteq db \cup Adds(k) /\ db \ Removes(k) \subseteq db'
  BY ExecuteBounds DEF TypeInv, TypeOK
<1>2. /\ Script' = Script /\ Removed' = Removed
      /\ Adds(j)' = Adds(j) /\ Removes(j)' = Removes(j) /\ Table(j)' = Table(j)
  BY ScriptStays DEF Execute, runVars
<1>3. /\ Adds(j) \ Removed \subseteq db
      /\ Removes(j) \cap db = {}
      /\ Script[j].op = "dropColumn" => TheTable(Table(j)) \in db
  BY DEF Kept
<1>4. Adds(j) \ Removed \subseteq db'
  <2>1. Removes(k) \subseteq Removed
    BY <1>1 DEF Removed
  <2> HIDE DEF k
  <2> QED BY <1>1, <1>3, <2>1
<1>5. Removes(j) \cap db' = {}
  <2> SUFFICES ASSUME NEW o \in Removes(j), o \in db' PROVE FALSE
    OBVIOUS
  <2>1. o \notin db /\ o \in Adds(k)
    BY <1>1, <1>3
  <2>2. k \in Creates
    BY <1>1, <2>1, OrderlyScript
  <2>3. o[1] = Table(j) /\ o[1] = Table(k)
    BY <1>1, <2>1, OwnTable
  <2>4. Script[j].op = "dropColumn"
    <3>1. Script[j].op # "dropTable"
      BY <2>2, <2>3
    <3>2. Script[j] \in Steps /\ Script[j].op \notin {"createTable", "addColumn"}
      BY <1>1, Shapes
    <3> QED BY <3>1, <3>2 DEF Steps
  <2>5. PICK c \in ColumnsOf(Script[j]) :
          Removes(j) = {TheColumn(Table(j), c), TheIndex(Table(j), c)}
    BY <1>1, <2>4, Shapes
  <2>6. CreatesIndex(m, k)
    BY <1>3, <2>1, <2>2, <2>3, <2>4, ExecuteEffect
       DEF CreatesNothing, CreatesTable, AddsColumns, DropsColumn, DropsTable, Creates
  <2>7. PICK d \in ColumnsOf(s) :
          TheColumn(Table(k), d) \in db /\ db' = db \cup {TheIndex(Table(k), d)}
    BY <2>6 DEF CreatesIndex
  <2>8. o = TheIndex(Table(k), d)
    BY <2>1, <2>7
  <2>9. c.name = d.name
    BY <2>5, <2>8 DEF TheIndex, TheColumn
  <2>10. TheColumn(Table(j), c) = TheColumn(Table(k), d)
    BY <2>3, <2>9 DEF TheColumn
  <2> QED BY <1>3, <2>5, <2>7, <2>10
<1>6. Script[j].op = "dropColumn" => TheTable(Table(j)) \in db'
  <2> SUFFICES ASSUME Script[j].op = "dropColumn", TheTable(Table(j)) \in Removes(k) PROVE FALSE
    BY <1>1, <1>3
  <2>1. Script[k].op = "dropTable" /\ Table(k) = Table(j)
    BY <1>1, TableSteps
  <2> QED BY <1>1, <2>1, OrderlyScript
<1> QED BY <1>2, <1>4, <1>5, <1>6 DEF Kept

(* The step whose last statement was executed is done. *)
LEMMA KeptAtLast ==
  ASSUME TypeInv, Orderly, TablesFirst, TablesWhole, ExecutedSoFar,
         NEW m \in Migrators, Execute(m), stmt[m] = Len(Statements(StepOf(m)))
  PROVE  Kept(at[m])'
<1> DEFINE k == at[m]
           s == Script[k]
<1>1. /\ scenario \in Scenarios /\ k \in DOMAIN Script /\ s \in Steps /\ StepOf(m) = s
      /\ db \ Removes(k) \subseteq db' /\ pc[m] = "exec"
  <2>1. db \ Removes(k) \subseteq db'
    BY ExecuteBounds
  <2> QED BY <2>1, StepFacts DEF TypeInv, TypeOK, Execute
<1>2. /\ Script' = Script /\ Removed' = Removed
      /\ \A j : Adds(j)' = Adds(j) /\ Removes(j)' = Removes(j) /\ Table(j)' = Table(j)
  BY ScriptStays DEF Execute, runVars
<1>3. at' = at
  BY DEF Execute
<1>4. Adds(k) \ Removed \subseteq db'
  <2> SUFFICES ASSUME NEW n \in DOMAIN Statements(s)
               PROVE  Statements(s)[n].adds \ Removed \subseteq db'
    BY DEF Adds
  <2>1. /\ Len(Statements(s)) \in Nat
        /\ DOMAIN Statements(s) = 1 .. Len(Statements(s))
    BY <1>1, StatementFacts
  <2>2. CASE n = stmt[m]
    BY <2>2, StatementDone
  <2>3. CASE n # stmt[m]
    <3>1. n \in 1 .. (stmt[m] - 1)
      BY <1>1, <2>1, <2>3
    <3>2. Statements(s)[n].adds \ Removed \subseteq db
      BY <1>1, <3>1 DEF ExecutedSoFar
    <3>3. Removes(k) \subseteq Removed
      BY <1>1 DEF Removed
    <3> HIDE DEF k, s
    <3> QED BY <1>1, <3>2, <3>3
  <2> QED BY <2>2, <2>3
<1>5. Removes(k) \cap db' = {}
  <2>1. s.op \in {"createTable", "addColumn"} => Removes(k) = {}
    BY <1>1, Shapes
  <2>2. s.op \in {"dropColumn", "dropTable"} => db' = db \ Removes(k)
    BY ExecuteEffect DEF CreatesNothing, CreatesTable, AddsColumns, CreatesIndex, DropsColumn, DropsTable
  <2> HIDE DEF k
  <2> QED BY <1>1, <2>1, <2>2 DEF Steps
<1>6. s.op = "dropColumn" => TheTable(Table(k)) \in db'
  <2> SUFFICES ASSUME s.op = "dropColumn" PROVE TheTable(Table(k)) \in db'
    OBVIOUS
  <2>1. DropsColumn(m, k)
    BY ExecuteEffect DEF CreatesNothing, CreatesTable, AddsColumns, CreatesIndex, DropsTable
  <2>2. PICK c \in ColumnsOf(s) : TheColumn(Table(k), c) \in db
    BY <2>1 DEF DropsColumn
  <2>3. TheTable(Table(k)) \in db
    BY <2>2 DEF TablesFirst, TheColumn
  <2>4. TheTable(Table(k)) \notin Removes(k)
    BY <1>1, TableSteps
  <2> HIDE DEF k
  <2> QED BY <1>1, <2>3, <2>4
<1> QED BY <1>2, <1>3, <1>4, <1>5, <1>6 DEF Kept
-----------------------------------------------------------------------------
(* Every action keeps the invariant. *)

LEMMA HistorySame ==
  ASSUME scenario' = scenario, history' = history
  PROVE  \A k : /\ Ran(k)' = Ran(k)
                /\ Failed(k)' = Failed(k)
                /\ Unrecorded(k)' = Unrecorded(k)
<1>1. Script' = Script
  BY ScriptStays
<1>2. \A k : Ran(k)' = Ran(k) /\ Failed(k)' = Failed(k)
  BY <1>1 DEF Ran, Failed
<1> QED BY <1>2 DEF Unrecorded

(* An action that leaves the schema alone keeps what is said of it. *)
LEMMA SchemaSame ==
  ASSUME scenario' = scenario, db' = db, MigInv,
         \A k \in DOMAIN Script : Done(k)' => Done(k),
         \A n \in Migrators : pc'[n] = "exec" =>
           \/ stmt'[n] = 1
           \/ pc[n] = "exec" /\ at'[n] = at[n] /\ stmt'[n] = stmt[n]
  PROVE  TablesFirst' /\ TablesWhole' /\ DoneIsKept' /\ ExecutedSoFar'
<1>1. /\ Script' = Script /\ Creates' = Creates /\ Removed' = Removed
      /\ \A k : Adds(k)' = Adds(k) /\ Removes(k)' = Removes(k) /\ Table(k)' = Table(k)
  BY ScriptStays
<1>2. TablesFirst /\ TablesWhole /\ DoneIsKept /\ ExecutedSoFar
  BY DEF MigInv
<1>3. TablesFirst'
  BY <1>2 DEF TablesFirst
<1>4. TablesWhole'
  BY <1>1, <1>2 DEF TablesWhole
<1>5. \A k : Kept(k)' = Kept(k)
  BY <1>1 DEF Kept
<1>6. DoneIsKept'
  BY <1>1, <1>2, <1>5 DEF DoneIsKept
<1>7. /\ \A s : Statements(s)' = Statements(s)
      /\ \A n : StepOf(n) = Script[at[n]] /\ StepOf(n)' = Script[at'[n]]
  BY <1>1, ScriptStays DEF StepOf
<1>8. ASSUME NEW n \in Migrators, pc'[n] = "exec"
      PROVE  /\ \A i \in 1 .. (stmt'[n] - 1) : Statements(StepOf(n)')[i].adds \ Removed \subseteq db
             /\ at'[n] \in Creates /\ stmt'[n] > 1 /\ ~scenario.overlap
                  => TheTable(Table(at'[n])) \in db
  <2>1. CASE stmt'[n] = 1
    BY <2>1
  <2>2. CASE pc[n] = "exec" /\ at'[n] = at[n] /\ stmt'[n] = stmt[n]
    BY <1>2, <1>7, <2>2 DEF ExecutedSoFar
  <2> QED BY <1>8, <2>1, <2>2
<1>9. ExecutedSoFar'
  BY <1>1, <1>7, <1>8 DEF ExecutedSoFar
<1> QED BY <1>3, <1>4, <1>6, <1>9

(* No one else is at work where one program runs at a time. *)
LEMMA Alone ==
  ASSUME MigInv, Orderly, NEW m \in Migrators, pc[m] # "idle",
         \/ ~scenario.overlap
         \/ \E n \in Migrators : pc[n] # "idle" /\ (isReset[n] \/ Resetting(n))
         \/ \E k \in DOMAIN Script : Script[k].op = "dropTable"
  PROVE  \A n \in Migrators : n # m => pc[n] = "idle"
<1>1. OneAtATime /\ ResetsAllowed
  BY DEF MigInv
<1>2. ~scenario.overlap
  BY <1>1 DEF ResetsAllowed, Orderly
<1> QED BY <1>1, <1>2 DEF OneAtATime

LEMMA ExecuteKeeps ==
  ASSUME TypeInv, Orderly, MigInv, NEW m \in Migrators, Execute(m)
  PROVE  MigInv'
<1> DEFINE k == at[m]
           s == Script[k]
<1>1. /\ scenario \in Scenarios /\ k \in DOMAIN Script /\ s \in Steps /\ StepOf(m) = s
      /\ pc \in [Migrators -> {"idle", "forget", "drop", "check", "exec", "save"}]
      /\ stmt \in [Migrators -> Nat \ {0}]
      /\ isSuccess \in [Migrators -> BOOLEAN]
      /\ pc[m] = "exec"
  BY StepFacts DEF TypeInv, TypeOK, Execute
<1>2. /\ OneAtATime /\ ResetsAllowed /\ TablesFirst /\ TablesWhole /\ DoneIsKept
      /\ ExecutedSoFar /\ Forgotten /\ CreatedThenDropped
  BY DEF MigInv
<1>3. UNCHANGED <<scenario, history, at, isReset>>
  BY DEF Execute, runVars
<1>4. /\ Script' = Script /\ Creates' = Creates /\ Removed' = Removed /\ Created' = Created
      /\ \A j : Adds(j)' = Adds(j) /\ Removes(j)' = Removes(j) /\ Table(j)' = Table(j)
      /\ \A x : Statements(x)' = Statements(x)
      /\ \A n : StepOf(n)' = StepOf(n)
  BY <1>3, ScriptStays DEF StepOf
<1>5. \A j : /\ Ran(j)' = Ran(j)
             /\ Failed(j)' = Failed(j)
             /\ Unrecorded(j)' = Unrecorded(j)
  BY <1>3, HistorySame
<1>6. \/ /\ pc' = pc /\ isSuccess' = isSuccess
         /\ stmt' = [stmt EXCEPT ![m] = stmt[m] + 1]
      \/ /\ pc' = [pc EXCEPT ![m] = "save"] /\ isSuccess' = [isSuccess EXCEPT ![m] = TRUE]
         /\ stmt' = stmt /\ stmt[m] = Len(Statements(s))
  BY <1>1 DEF Execute
<1>7. \A n \in Migrators :
        /\ n # m => pc'[n] = pc[n] /\ isSuccess'[n] = isSuccess[n] /\ stmt'[n] = stmt[n]
        /\ pc'[n] = pc[n] \/ (n = m /\ pc'[n] = "save" /\ isSuccess'[n])
        /\ pc'[m] = "exec" => stmt'[m] = stmt[m] + 1
        /\ pc'[m] = "save" => isSuccess'[m] /\ stmt[m] = Len(Statements(s))
  BY <1>1, <1>6
<1>8. OneAtATime'
  BY <1>1, <1>2, <1>3, <1>7 DEF OneAtATime
<1>9. ResetsAllowed'
  BY <1>1, <1>2, <1>3, <1>4, <1>7 DEF ResetsAllowed, Resetting
<1>10. TablesFirst' /\ TablesWhole'
  BY <1>2, ExecuteTablesFirst, ExecuteTablesWhole
<1>11. DoneIsKept'
  <2>1. ASSUME NEW j \in DOMAIN Script, Ran(j) PROVE Kept(j)'
    <3>1. Kept(j)
      BY <1>2, <2>1 DEF DoneIsKept, Done
    <3>2. Script[j].op = "dropTable" /\ Table(j) = Table(k) => k \notin Creates
      BY <1>1, <1>2, <2>1 DEF CreatedThenDropped, Dropped
    <3> QED BY <3>1, <3>2, KeptStays
  <2>2. ASSUME NEW j \in DOMAIN Script, NEW n \in Migrators, DoneBy(n, j), n # m PROVE Kept(j)'
    <3>1. Kept(j)
      BY <1>2, <2>2 DEF DoneIsKept, Done
    <3>2. scenario.overlap
      BY <1>1, <1>2, <2>2 DEF OneAtATime, DoneBy
    <3>3. Script[j].op # "dropTable"
      BY <3>2 DEF Orderly
    <3> QED BY <3>1, <3>3, KeptStays
  <2>3. ASSUME pc'[m] = "save" PROVE Kept(k)'
    BY <1>1, <1>2, <1>7, <2>3, KeptAtLast
  <2> HIDE DEF k
  <2>4. ASSUME NEW j \in DOMAIN Script, NEW n \in Migrators, DoneBy(n, j)' PROVE Kept(j)'
    <3>1. CASE n = m
      BY <1>3, <2>3, <2>4, <3>1 DEF DoneBy, k
    <3>2. CASE n # m
      <4>1. DoneBy(n, j)
        BY <1>3, <1>7, <2>4, <3>2 DEF DoneBy
      <4> QED BY <2>2, <3>2, <4>1
    <3> QED BY <3>1, <3>2
  <2>5. ASSUME NEW j \in DOMAIN Script, Done(j)' PROVE Kept(j)'
    BY <1>5, <2>1, <2>4, <2>5 DEF Done
  <2> QED BY <1>4, <2>5 DEF DoneIsKept
<1>12. ExecutedSoFar'
  <2>1. \A o \in db : o \in db' \/ o \in Removed
    BY <1>1, ExecuteBounds DEF Removed
  <2>2. ASSUME NEW n \in Migrators, pc[n] = "exec", NEW i \in 1 .. (stmt[n] - 1)
        PROVE  Statements(StepOf(n))[i].adds \ Removed \subseteq db'
    <3>1. Statements(StepOf(n))[i].adds \ Removed \subseteq db
      BY <1>2, <2>2 DEF ExecutedSoFar
    <3> QED BY <2>1, <3>1
  <2>3. Statements(StepOf(m))[stmt[m]].adds \ Removed \subseteq db'
    BY <1>1, <1>2, StatementDone
  <2>4. ASSUME NEW n \in Migrators, pc'[n] = "exec", NEW i \in 1 .. (stmt'[n] - 1)
        PROVE  Statements(StepOf(n))[i].adds \ Removed \subseteq db'
    <3>1. CASE n = m
      <4>1. i \in 1 .. (stmt[m] - 1) \/ i = stmt[m]
        BY <1>1, <1>7, <2>4, <3>1
      <4> QED BY <1>1, <2>2, <2>3, <3>1, <4>1
    <3>2. CASE n # m
      BY <1>7, <2>2, <2>4, <3>2
    <3> QED BY <3>1, <3>2
  <2>5. ASSUME k \in Creates PROVE TheTable(Table(k)) \in db'
    <3>1. CASE CreatesNothing(m, k)
      BY <3>1 DEF CreatesNothing
    <3>2. CASE CreatesTable(m, k)
      BY <3>2 DEF CreatesTable, CreateTable, Statement, Table
    <3>3. CASE CreatesIndex(m, k)
      <4>1. TheTable(Table(k)) \in db
        BY <1>2, <3>3 DEF CreatesIndex, TablesFirst, TheColumn
      <4> QED BY <3>3, <4>1 DEF CreatesIndex
    <3> QED BY <2>5, <3>1, <3>2, <3>3, ExecuteEffect
            DEF Creates, AddsColumns, DropsColumn, DropsTable
  <2>6. ASSUME NEW n \in Migrators, pc'[n] = "exec", at[n] \in Creates, ~scenario.overlap
        PROVE  TheTable(Table(at[n])) \in db'
    <3>1. n = m
      BY <1>1, <1>2, <1>7, <2>6 DEF OneAtATime
    <3> QED BY <2>5, <2>6, <3>1
  <2> QED BY <1>3, <1>4, <2>4, <2>6 DEF ExecutedSoFar
<1>13. Forgotten'
  <2>1. \A n \in Migrators : /\ pc'[n] = "drop" => pc[n] = "drop"
                             /\ Resetting(n)' => Resetting(n)
                             /\ Running(n)' => Running(n)
    BY <1>1, <1>7 DEF Resetting, Running
  <2> QED BY <1>2, <1>3, <1>4, <1>5, <2>1 DEF Forgotten
<1>14. CreatedThenDropped'
  <2>1. ASSUME NEW c \in Creates, NEW j \in DOMAIN Script, Dropped(c, j) PROVE Dropped(c, j)'
    <3>1. \A n \in Migrators : /\ pc'[n] = "save" => isSuccess'[n] \/ (pc[n] = "save" /\ isSuccess'[n] = isSuccess[n])
                               /\ Running(n)' => Running(n)
                               /\ pc'[n] \in {"exec", "save"} => pc[n] \in {"exec", "save"}
      BY <1>1, <1>7 DEF Running
    <3>2. /\ ~Failed(c)
          /\ Ran(j) => Ran(c)
          /\ \A n \in Migrators :
               /\ pc[n] = "save" /\ at[n] = c => isSuccess[n]
               /\ Running(n) /\ at[n] > c => Ran(c)
               /\ pc[n] \in {"exec", "save"} /\ at[n] = c => ~Ran(j)
      BY <2>1 DEF Dropped
    <3> QED BY <1>3, <1>5, <3>1, <3>2 DEF Dropped
  <2> QED BY <1>2, <1>4, <2>1 DEF CreatedThenDropped
<1> QED BY <1>8, <1>9, <1>10, <1>11, <1>12, <1>13, <1>14 DEF MigInv
LEMMA StartKeeps ==
  ASSUME TypeInv, Orderly, MigInv, NEW m \in Migrators, Start(m)
  PROVE  MigInv'
<1>1. /\ scenario \in Scenarios
      /\ pc \in [Migrators -> {"idle", "forget", "drop", "check", "exec", "save"}]
      /\ at \in [Migrators -> DOMAIN Script] /\ isReset \in [Migrators -> BOOLEAN]
      /\ scenario.resets \in BOOLEAN
      /\ DOMAIN Script = 1 .. Len(Script) /\ Len(Script) \in Nat
      /\ Creates \subseteq DOMAIN Script
  BY ScriptFacts, ScenariosAssumption DEF TypeInv, TypeOK, Creates
<1>2. /\ OneAtATime /\ ResetsAllowed /\ Forgotten /\ CreatedThenDropped
  BY DEF MigInv
<1>3. /\ UNCHANGED <<scenario, db, history, stmt, isSuccess>>
      /\ pc[m] = "idle"
      /\ scenario.overlap \/ \A n \in Migrators : pc[n] = "idle"
  BY DEF Start
<1>4. /\ Script' = Script /\ Creates' = Creates /\ Created' = Created
      /\ \A j : Table(j)' = Table(j)
  BY <1>3, ScriptStays
<1>5. \A j : Ran(j)' = Ran(j) /\ Failed(j)' = Failed(j) /\ Unrecorded(j)' = Unrecorded(j)
  BY <1>3, HistorySame
<1>6. /\ \A n \in Migrators : n # m => pc'[n] = pc[n] /\ at'[n] = at[n] /\ isReset'[n] = isReset[n]
      /\ isReset'[m] => scenario.resets
      /\ \/ pc'[m] = "forget" /\ isReset'[m] /\ Creates # {} /\ at'[m] = Cardinality(Creates)
         \/ pc'[m] = "check" /\ at'[m] = 1 /\ (isReset'[m] => Creates = {})
  <2>1. PICK reset \in (IF scenario.resets THEN BOOLEAN ELSE {FALSE}) :
          /\ isReset' = [isReset EXCEPT ![m] = reset]
          /\ pc' = [pc EXCEPT ![m] = IF reset /\ Creates # {} THEN "forget" ELSE "check"]
          /\ at' = [at EXCEPT ![m] = IF reset /\ Creates # {} THEN Cardinality(Creates) ELSE 1]
    BY DEF Start
  <2> QED BY <1>1, <2>1
<1>7. pc'[m] = "forget" => at'[m] \in Creates /\ \A c \in Creates : ~(c > at'[m])
  BY <1>1, <1>6, LastCreate
<1>8. TablesFirst' /\ TablesWhole' /\ DoneIsKept' /\ ExecutedSoFar'
  <2>1. \A j \in DOMAIN Script : Done(j)' => Done(j)
    BY <1>3, <1>5, <1>6 DEF Done, DoneBy
  <2> QED BY <1>3, <1>6, <2>1, SchemaSame
<1>9. OneAtATime'
  BY <1>2, <1>3, <1>6 DEF OneAtATime
<1>10. ResetsAllowed'
  BY <1>2, <1>3, <1>4, <1>6, <1>7 DEF ResetsAllowed, Resetting
<1>11. Forgotten'
  <2> SUFFICES ASSUME NEW n \in Migrators, NEW k \in DOMAIN Script
               PROVE  /\ pc'[n] = "drop" /\ Table(k) = Table(at'[n]) => Unrecorded(k)
                      /\ Resetting(n)' /\ (\E c \in Creates : c > at'[n] /\ Table(k) = Table(c))
                           => Unrecorded(k)
                      /\ Running(n)' /\ isReset'[n] /\ k >= at'[n] /\ Table(k) \in Created
                           => Unrecorded(k)
    BY <1>4, <1>5 DEF Forgotten
  <2>1. CASE n = m
    <3>1. pc'[m] = "check" /\ isReset'[m] => Created = {}
      BY <1>6 DEF Created
    <3> QED BY <1>6, <1>7, <2>1, <3>1 DEF Resetting, Running
  <2>2. CASE n # m
    BY <1>2, <1>6, <2>2 DEF Forgotten, Resetting, Running
  <2> QED BY <2>1, <2>2
<1>12. CreatedThenDropped'
  <2>1. ASSUME NEW c \in Creates, NEW k \in DOMAIN Script, Dropped(c, k) PROVE Dropped(c, k)'
    <3>1. ~(at'[m] > c) \/ ~Running(m)'
      BY <1>1, <1>6 DEF Running
    <3>2. pc'[m] \notin {"exec", "save"}
      BY <1>6
    <3> QED BY <1>3, <1>5, <1>6, <2>1, <3>1, <3>2 DEF Dropped, Running
  <2> QED BY <1>2, <1>4, <2>1 DEF CreatedThenDropped
<1> QED BY <1>8, <1>9, <1>10, <1>11, <1>12 DEF MigInv

LEMMA CrashKeeps ==
  ASSUME TypeInv, Orderly, MigInv, NEW m \in Migrators, Crash(m)
  PROVE  MigInv'
<1>1. /\ pc \in [Migrators -> {"idle", "forget", "drop", "check", "exec", "save"}]
      /\ at \in [Migrators -> DOMAIN Script]
  BY DEF TypeInv, TypeOK
<1>2. /\ OneAtATime /\ ResetsAllowed /\ Forgotten /\ CreatedThenDropped
  BY DEF MigInv
<1>3. UNCHANGED <<scenario, db, history, stmt, isSuccess, isReset>>
  BY DEF Crash, runVars
<1>4. /\ Script' = Script /\ Creates' = Creates /\ Created' = Created
      /\ \A j : Table(j)' = Table(j)
  BY <1>3, ScriptStays
<1>5. \A j : Ran(j)' = Ran(j) /\ Failed(j)' = Failed(j) /\ Unrecorded(j)' = Unrecorded(j)
  BY <1>3, HistorySame
<1>6. \A n \in Migrators : pc'[n] = "idle" \/ (pc'[n] = pc[n] /\ at'[n] = at[n])
  BY <1>1 DEF Crash
<1>7. TablesFirst' /\ TablesWhole' /\ DoneIsKept' /\ ExecutedSoFar'
  <2>1. \A j \in DOMAIN Script : Done(j)' => Done(j)
    BY <1>3, <1>5, <1>6 DEF Done, DoneBy
  <2> QED BY <1>3, <1>6, <2>1, SchemaSame
<1>8. OneAtATime'
  BY <1>2, <1>3, <1>6 DEF OneAtATime
<1>9. ResetsAllowed'
  BY <1>2, <1>3, <1>4, <1>6 DEF ResetsAllowed, Resetting
<1>10. Forgotten'
  BY <1>2, <1>3, <1>4, <1>5, <1>6 DEF Forgotten, Resetting, Running
<1>11. CreatedThenDropped'
  <2>1. ASSUME NEW c \in Creates, NEW k \in DOMAIN Script, Dropped(c, k) PROVE Dropped(c, k)'
    BY <1>3, <1>5, <1>6, <2>1 DEF Dropped, Running
  <2> QED BY <1>2, <1>4, <2>1 DEF CreatedThenDropped
<1> QED BY <1>7, <1>8, <1>9, <1>10, <1>11 DEF MigInv
LEMMA ResetMigrationTableKeeps ==
  ASSUME TypeInv, Orderly, MigInv, NEW m \in Migrators, ResetMigrationTable(m)
  PROVE  MigInv'
<1>1. /\ scenario \in Scenarios
      /\ pc \in [Migrators -> {"idle", "forget", "drop", "check", "exec", "save"}]
      /\ at \in [Migrators -> DOMAIN Script]
      /\ stmt \in [Migrators -> Nat \ {0}]
      /\ isSuccess \in [Migrators -> BOOLEAN]
      /\ DOMAIN Script = 1 .. Len(Script) /\ Len(Script) \in Nat
      /\ Creates \subseteq DOMAIN Script
      /\ db \subseteq Objects
      /\ StepOf(m) = Script[at[m]]
  BY ScriptFacts DEF TypeInv, TypeOK, Creates, Objects, StepOf
<1>2. /\ OneAtATime /\ ResetsAllowed /\ TablesFirst /\ TablesWhole /\ DoneIsKept
      /\ ExecutedSoFar /\ Forgotten /\ CreatedThenDropped
  BY DEF MigInv
<1>3. UNCHANGED <<scenario, db, at, stmt, isSuccess, isReset>> /\ pc[m] = "forget"
  BY DEF ResetMigrationTable, runVars
<1>4. /\ Script' = Script /\ Creates' = Creates /\ Created' = Created /\ Removed' = Removed
      /\ \A j : Adds(j)' = Adds(j) /\ Removes(j)' = Removes(j) /\ Table(j)' = Table(j)
  BY <1>3, ScriptStays
<1>5. /\ \A n \in Migrators : n # m => pc'[n] = pc[n]
      /\ pc'[m] = "drop"
  BY <1>1 DEF ResetMigrationTable
<1>6. ASSUME NEW j \in DOMAIN Script
      PROVE  /\ Ran(j)' <=> (Ran(j) /\ Table(j) # Table(at[m]))
             /\ Failed(j)' <=> (Failed(j) /\ Table(j) # Table(at[m]))
  <2>1. history' = {row \in history : row.name # Table(at[m])}
    BY <1>1 DEF ResetMigrationTable, Table
  <2>2. Row(Script[j], TRUE).name = Table(j) /\ Row(Script[j], FALSE).name = Table(j)
    BY DEF Row, Table
  <2>3. /\ Ran(j)' <=> Row(Script[j], TRUE) \in history'
        /\ Failed(j)' <=> Row(Script[j], FALSE) \in history'
    BY <1>4 DEF Ran, Failed
  <2> QED BY <2>1, <2>2, <2>3 DEF Ran, Failed
<1>7. ASSUME NEW j \in DOMAIN Script
      PROVE  Unrecorded(j)' <=> Unrecorded(j) \/ Table(j) = Table(at[m])
  BY <1>6 DEF Unrecorded
<1>8. TablesFirst' /\ TablesWhole' /\ DoneIsKept' /\ ExecutedSoFar'
  <2>1. \A j \in DOMAIN Script : Done(j)' => Done(j)
    BY <1>3, <1>5, <1>6 DEF Done, DoneBy
  <2> QED BY <1>3, <1>5, <2>1, SchemaSame
<1>9. OneAtATime'
  BY <1>2, <1>3, <1>5 DEF OneAtATime
<1>10. ResetsAllowed'
  BY <1>2, <1>3, <1>4, <1>5 DEF ResetsAllowed, Resetting
<1>11. Forgotten'
  <2> SUFFICES ASSUME NEW n \in Migrators, NEW k \in DOMAIN Script
               PROVE  /\ pc'[n] = "drop" /\ Table(k) = Table(at[n]) => Unrecorded(k)'
                      /\ Resetting(n)' /\ (\E c \in Creates : c > at[n] /\ Table(k) = Table(c))
                           => Unrecorded(k)'
                      /\ Running(n)' /\ isReset[n] /\ k >= at[n] /\ Table(k) \in Created
                           => Unrecorded(k)'
    BY <1>3, <1>4 DEF Forgotten
  <2>1. CASE n = m
    BY <1>2, <1>3, <1>5, <1>7, <2>1 DEF Forgotten, Resetting, Running
  <2>2. CASE n # m
    BY <1>2, <1>5, <1>7, <2>2 DEF Forgotten, Resetting, Running
  <2> QED BY <2>1, <2>2
<1>12. CreatedThenDropped'
  <2>1. ASSUME NEW c \in Creates, NEW k \in DOMAIN Script, Script[k].op = "dropTable",
               Table(k) = Table(c), Dropped(c, k)
        PROVE  Dropped(c, k)'
    <3>1. \A n \in Migrators : n # m => pc[n] = "idle"
      BY <1>3, <2>1, Alone
    <3>2. c \in DOMAIN Script
      BY <1>1
    <3> QED BY <1>3, <1>5, <1>6, <2>1, <3>1, <3>2 DEF Dropped, Running
  <2> QED BY <1>2, <1>4, <2>1 DEF CreatedThenDropped
<1> QED BY <1>8, <1>9, <1>10, <1>11, <1>12 DEF MigInv

LEMMA ResetTableKeeps ==
  ASSUME TypeInv, Orderly, MigInv, NEW m \in Migrators, ResetTable(m)
  PROVE  MigInv'
<1> DEFINE t == Table(at[m])
<1>1. /\ scenario \in Scenarios
      /\ pc \in [Migrators -> {"idle", "forget", "drop", "check", "exec", "save"}]
      /\ at \in [Migrators -> DOMAIN Script]
      /\ stmt \in [Migrators -> Nat \ {0}]
      /\ isSuccess \in [Migrators -> BOOLEAN]
      /\ DOMAIN Script = 1 .. Len(Script) /\ Len(Script) \in Nat
      /\ Creates \subseteq DOMAIN Script
      /\ db \subseteq Objects
      /\ StepOf(m) = Script[at[m]]
  BY ScriptFacts DEF TypeInv, TypeOK, Creates, Objects, StepOf
<1>2. /\ OneAtATime /\ ResetsAllowed /\ TablesFirst /\ TablesWhole /\ DoneIsKept
      /\ ExecutedSoFar /\ Forgotten /\ CreatedThenDropped
  BY DEF MigInv
<1>3. UNCHANGED <<scenario, history, stmt, isSuccess, isReset>> /\ pc[m] = "drop"
  BY DEF ResetTable, runVars
<1>4. /\ Script' = Script /\ Creates' = Creates /\ Created' = Created /\ Removed' = Removed
      /\ \A j : Adds(j)' = Adds(j) /\ Removes(j)' = Removes(j) /\ Table(j)' = Table(j)
  BY <1>3, ScriptStays
<1>5. /\ \A n \in Migrators : n # m => pc'[n] = pc[n] /\ at'[n] = at[n]
      /\ \/ at[m] = 1 /\ pc'[m] = "check" /\ at'[m] = 1
         \/ at[m] # 1 /\ pc'[m] = "forget" /\ at'[m] = at[m] - 1
  BY <1>1 DEF ResetTable
<1>6. \A j : Ran(j)' = Ran(j) /\ Failed(j)' = Failed(j) /\ Unrecorded(j)' = Unrecorded(j)
  BY <1>3, HistorySame
<1>7. \A n \in Migrators : n # m => pc[n] = "idle"
  BY <1>3, Alone DEF Resetting
<1>8. at[m] \in Creates /\ isReset[m] /\ scenario.resets
  BY <1>2, <1>3 DEF ResetsAllowed, Resetting
<1>9. \A o \in Objects : o \in db' <=> o \in db /\ o[1] # t
  BY <1>1 DEF ResetTable, OfTable, Objects, Table
<1>10. db' \subseteq db
  BY DEF ResetTable
<1>11. \A u, c : TheTable(u)[1] = u /\ TheColumn(u, c)[1] = u
  BY DEF TheTable, TheColumn
<1>12. TablesFirst'
  <2> SUFFICES ASSUME NEW o \in db' PROVE TheTable(o[1]) \in db'
    BY DEF TablesFirst
  <2>1. o \in db /\ o[1] # t
    BY <1>1, <1>9, <1>10
  <2>2. TheTable(o[1]) \in db
    BY <1>2, <2>1 DEF TablesFirst
  <2> QED BY <1>1, <1>9, <1>11, <2>1, <2>2
<1>13. TablesWhole'
  <2> SUFFICES ASSUME NEW k \in Creates, TheTable(Table(k)) \in db', NEW c \in ColumnsOf(Script[k])
               PROVE  \/ TheColumn(Table(k), c) \in db'
                      \/ TheColumn(Table(k), c) \in Removed /\ TheTable(Table(k)) \notin Removed
    BY <1>4 DEF TablesWhole
  <2>1. TheTable(Table(k)) \in db /\ Table(k) # t
    BY <1>1, <1>9, <1>10, <1>11
  <2>2. \/ TheColumn(Table(k), c) \in db
        \/ TheColumn(Table(k), c) \in Removed /\ TheTable(Table(k)) \notin Removed
    BY <1>2, <2>1 DEF TablesWhole
  <2> QED BY <1>1, <1>9, <1>11, <2>1, <2>2
<1>14. DoneIsKept'
  <2> SUFFICES ASSUME NEW j \in DOMAIN Script, Done(j)' PROVE Kept(j)'
    BY <1>4 DEF DoneIsKept
  <2>1. Ran(j)
    BY <1>5, <1>6, <1>7 DEF Done, DoneBy
  <2>2. Table(j) # t
    BY <1>2, <1>3, <2>1 DEF Forgotten, Unrecorded
  <2>3. Kept(j)
    BY <1>2, <2>1 DEF DoneIsKept, Done
  <2>4. Adds(j) \ Removed \subseteq db'
    <3> SUFFICES ASSUME NEW o \in Adds(j), o \notin Removed PROVE o \in db'
      OBVIOUS
    <3>1. o[1] = Table(j)
      BY <1>1, OwnTable
    <3>2. o \in db
      BY <2>3 DEF Kept
    <3> QED BY <1>1, <1>9, <2>2, <3>1, <3>2
  <2>5. Removes(j) \cap db' = {}
    BY <1>10, <2>3 DEF Kept
  <2>6. Script[j].op = "dropColumn" => TheTable(Table(j)) \in db'
    BY <1>1, <1>9, <1>11, <2>2, <2>3 DEF Kept
  <2> QED BY <1>4, <2>4, <2>5, <2>6 DEF Kept
<1>15. ExecutedSoFar'
  BY <1>5, <1>7 DEF ExecutedSoFar
<1>16. OneAtATime'
  BY <1>5, <1>7 DEF OneAtATime
<1>17. ResetsAllowed'
  <2>1. pc'[m] = "forget" => at'[m] \in Creates
    <3>1. pc'[m] = "forget" => at[m] - 1 \in DOMAIN Script /\ at[m] - 1 < at[m]
      BY <1>1, <1>5
    <3> QED BY <1>1, <1>5, <1>8, <3>1, ScriptFacts
  <2> QED BY <1>3, <1>4, <1>5, <1>7, <1>8, <2>1 DEF ResetsAllowed, Resetting
<1>18. Forgotten'
  <2>1. ASSUME NEW k \in DOMAIN Script, NEW c \in Creates, c >= at[m], Table(k) = Table(c)
        PROVE  Unrecorded(k)
    <3>1. CASE c = at[m]
      BY <1>2, <1>3, <2>1, <3>1 DEF Forgotten
    <3>2. CASE c > at[m]
      BY <1>2, <1>3, <2>1, <3>2 DEF Forgotten, Resetting
    <3> QED BY <1>1, <2>1, <3>1, <3>2
  <2> SUFFICES ASSUME NEW n \in Migrators, NEW k \in DOMAIN Script
               PROVE  /\ pc'[n] = "drop" /\ Table(k) = Table(at'[n]) => Unrecorded(k)
                      /\ Resetting(n)' /\ (\E c \in Creates : c > at'[n] /\ Table(k) = Table(c))
                           => Unrecorded(k)
                      /\ Running(n)' /\ isReset[n] /\ k >= at'[n] /\ Table(k) \in Created
                           => Unrecorded(k)
    BY <1>3, <1>4, <1>6 DEF Forgotten
  <2>2. pc'[n] # "idle" => n = m
    BY <1>5, <1>7
  <2>3. pc'[n] # "drop"
    BY <1>5, <1>7
  <2>4. \A c \in Creates : n = m /\ pc'[m] = "forget" /\ c > at'[n] => c >= at[m]
    BY <1>1, <1>5
  <2>5. \A c \in Creates : n = m /\ pc'[m] = "check" => c >= at[m]
    BY <1>1, <1>5
  <2>6. Table(k) \in Created => \E c \in Creates : Table(k) = Table(c)
    BY DEF Created, Table
  <2> QED BY <1>5, <2>1, <2>2, <2>3, <2>4, <2>5, <2>6 DEF Resetting, Running
<1>19. CreatedThenDropped'
  <2>1. ASSUME NEW c \in Creates, NEW k \in DOMAIN Script, Dropped(c, k) PROVE Dropped(c, k)'
    <3>1. Running(m)' => ~(at'[m] > c)
      BY <1>1, <1>5 DEF Running
    <3> QED BY <1>5, <1>6, <1>7, <2>1, <3>1 DEF Dropped, Running
  <2> QED BY <1>2, <1>4, <2>1 DEF CreatedThenDropped
<1> QED BY <1>12, <1>13, <1>14, <1>15, <1>16, <1>17, <1>18, <1>19 DEF MigInv
(* The rows of a step in an orderly script. *)
LEMMA RowsOfStep ==
  ASSUME TypeInv, Orderly, NEW k \in DOMAIN Script
  PROVE  /\ Ran(k) <=> \E row \in RowsOf(Script[k]) : row.status
         /\ Failed(k) <=> \E row \in RowsOf(Script[k]) : ~row.status
<1>1. scenario \in Scenarios /\ history \subseteq Rows
  BY DEF TypeInv, TypeOK, Rows
<1>2. ASSUME NEW row \in RowsOf(Script[k])
      PROVE  \E status \in BOOLEAN : row = Row(Script[k], status)
  <2>1. row \in history /\ row.checksum = Checksum(Script[k])
    BY DEF RowsOf
  <2>2. PICK j \in DOMAIN Script : \E status \in BOOLEAN : row = Row(Script[j], status)
    BY <1>1, <2>1 DEF Rows
  <2>3. Checksum(Script[j]) = Checksum(Script[k])
    BY <2>1, <2>2 DEF Row
  <2>4. j = k
    BY <1>1, <2>3, OrderlyScript
  <2> QED BY <2>2, <2>4
<1>3. \A status : /\ Row(Script[k], status).status = status
                  /\ Row(Script[k], status).checksum = Checksum(Script[k])
  BY DEF Row
<1>4. /\ Row(Script[k], TRUE).status
      /\ Row(Script[k], FALSE).status = FALSE
  BY DEF Row
<1>5. \A row \in RowsOf(Script[k]) :
        /\ row \in history
        /\ row = Row(Script[k], TRUE) \/ row = Row(Script[k], FALSE)
  BY <1>2 DEF RowsOf
<1>6. /\ Ran(k) => Row(Script[k], TRUE) \in RowsOf(Script[k])
      /\ Failed(k) => Row(Script[k], FALSE) \in RowsOf(Script[k])
  BY <1>3 DEF Ran, Failed, RowsOf
<1> QED BY <1>4, <1>5, <1>6 DEF Ran, Failed

(* A table that some step drops: its create step comes before, and nobody    *)
(* else is at work.                                                          *)
LEMMA DroppedAfter ==
  ASSUME scenario \in Scenarios, Orderly, NEW c \in Creates, NEW k \in DOMAIN Script,
         Script[k].op = "dropTable", Table(k) = Table(c)
  PROVE  c < k /\ Table(k) \in Created /\ TheTable(Table(c)) \in Removed
<1>1. c \in DOMAIN Script /\ Script[c].op = "createTable"
  BY DEF Creates
<1>2. TheTable(Table(c)) \in Adds(c) /\ TheTable(Table(c)) \in Removes(k)
  BY <1>1, Shapes
<1> QED BY <1>1, <1>2, OrderlyScript DEF Created, Table, Removed

LEMMA CheckKeeps ==
  ASSUME TypeInv, Orderly, MigInv, NEW m \in Migrators, Check(m)
  PROVE  MigInv'
<1>1. /\ scenario \in Scenarios
      /\ pc \in [Migrators -> {"idle", "forget", "drop", "check", "exec", "save"}]
      /\ at \in [Migrators -> DOMAIN Script]
      /\ stmt \in [Migrators -> Nat \ {0}]
      /\ isSuccess \in [Migrators -> BOOLEAN] /\ isReset \in [Migrators -> BOOLEAN]
      /\ DOMAIN Script = 1 .. Len(Script) /\ Len(Script) \in Nat
      /\ Creates \subseteq DOMAIN Script
      /\ StepOf(m) = Script[at[m]]
  BY ScriptFacts DEF TypeInv, TypeOK, Creates, StepOf
<1>2. /\ OneAtATime /\ ResetsAllowed /\ TablesFirst /\ TablesWhole /\ DoneIsKept
      /\ ExecutedSoFar /\ Forgotten /\ CreatedThenDropped
  BY DEF MigInv
<1>3. UNCHANGED <<scenario, db, history, isSuccess, isReset>> /\ pc[m] = "check"
  BY DEF Check, runVars
<1>4. /\ Script' = Script /\ Creates' = Creates /\ Created' = Created
      /\ \A j : Table(j)' = Table(j)
  BY <1>3, ScriptStays
<1>5. \A j : Ran(j)' = Ran(j) /\ Failed(j)' = Failed(j) /\ Unrecorded(j)' = Unrecorded(j)
  BY <1>3, HistorySame
<1>6. \/ /\ pc' = [pc EXCEPT ![m] = "exec"] /\ at' = at /\ stmt' = [stmt EXCEPT ![m] = 1]
         /\ isReset[m] \/ ~Ran(at[m]) \/ Failed(at[m])
      \/ /\ Advance(m) /\ stmt' = stmt
         /\ ~isReset[m] /\ Ran(at[m])
  <2>1. CASE ShouldRun(m, TRUE) /\ pc' = [pc EXCEPT ![m] = "exec"]
             /\ stmt' = [stmt EXCEPT ![m] = 1] /\ at' = at
    <3>1. \/ isReset[m]
          \/ RowsOf(Script[at[m]]) = {}
          \/ \E row \in RowsOf(Script[at[m]]) : ~row.status
      BY <1>1, <2>1 DEF ShouldRun
    <3> QED BY <1>1, <2>1, <3>1, RowsOfStep
  <2>2. CASE ShouldRun(m, FALSE) /\ Advance(m) /\ stmt' = stmt
    <3>1. ~isReset[m] /\ \E row \in RowsOf(Script[at[m]]) : row.status
      BY <1>1, <2>2 DEF ShouldRun
    <3> QED BY <1>1, <2>2, <3>1, RowsOfStep
  <2> QED BY <2>1, <2>2 DEF Check
<1>7. /\ \A n \in Migrators : n # m => pc'[n] = pc[n] /\ at'[n] = at[n] /\ stmt'[n] = stmt[n]
      /\ \/ /\ pc'[m] = "exec" /\ at'[m] = at[m] /\ stmt'[m] = 1
            /\ isReset[m] \/ ~Ran(at[m]) \/ Failed(at[m])
         \/ /\ pc'[m] = "idle" \/ (pc'[m] = "check" /\ at'[m] = at[m] + 1)
            /\ ~isReset[m] /\ Ran(at[m])
  BY <1>1, <1>6 DEF Advance
<1>8. TablesFirst' /\ TablesWhole' /\ DoneIsKept' /\ ExecutedSoFar'
  <2>1. \A j \in DOMAIN Script : Done(j)' => Done(j)
    BY <1>3, <1>5, <1>7 DEF Done, DoneBy
  <2> QED BY <1>3, <1>7, <2>1, SchemaSame
<1>9. OneAtATime'
  BY <1>2, <1>3, <1>7 DEF OneAtATime
<1>10. ResetsAllowed'
  BY <1>2, <1>3, <1>4, <1>7 DEF ResetsAllowed, Resetting
<1>11. Forgotten'
  <2>1. \A n \in Migrators :
          /\ pc'[n] = "drop" \/ Resetting(n)' => pc'[n] = pc[n] /\ at'[n] = at[n]
          /\ Running(n)' /\ isReset[n] => Running(n) /\ at'[n] = at[n]
    BY <1>3, <1>7 DEF Resetting, Running
  <2> QED BY <1>2, <1>3, <1>4, <1>5, <2>1 DEF Forgotten, Resetting
<1>12. CreatedThenDropped'
  <2>1. ASSUME NEW c \in Creates, NEW k \in DOMAIN Script, Script[k].op = "dropTable",
               Table(k) = Table(c), Dropped(c, k)
        PROVE  Dropped(c, k)'
    <3>1. /\ ~Failed(c)
          /\ Ran(k) => Ran(c)
          /\ \A n \in Migrators :
               /\ pc[n] = "save" /\ at[n] = c => isSuccess[n]
               /\ Running(n) /\ at[n] > c => Ran(c)
               /\ pc[n] \in {"exec", "save"} /\ at[n] = c => ~Ran(k)
      BY <2>1 DEF Dropped
    <3>2. Running(m) /\ c \in 1 .. Len(Script) /\ k \in 1 .. Len(Script) /\ at[m] \in 1 .. Len(Script)
      BY <1>1, <1>3 DEF Running
    <3>3. Running(m)' /\ at'[m] > c => Ran(c)
      BY <1>7, <3>1, <3>2 DEF Running
    <3>4. isReset[m] /\ at[m] = c => ~Ran(k)
      <4>1. c < k /\ Table(k) \in Created
        BY <1>1, <2>1, DroppedAfter
      <4> QED BY <1>2, <3>2, <4>1 DEF Forgotten, Unrecorded
    <3>5. pc'[m] \in {"exec", "save"} /\ at'[m] = c => ~Ran(k)
      BY <1>7, <3>1, <3>4
    <3>6. pc'[m] # "save"
      BY <1>7
    <3> QED BY <1>3, <1>5, <1>7, <3>1, <3>3, <3>5, <3>6 DEF Dropped, Running
  <2> QED BY <1>2, <1>4, <2>1 DEF CreatedThenDropped
<1> QED BY <1>8, <1>9, <1>10, <1>11, <1>12 DEF MigInv

(* Creating a table that a step drops later does not fail of itself. *)
LEMMA CreateSucceeds ==
  ASSUME TypeInv, Orderly, MigInv, NEW m \in Migrators, pc[m] = "exec", at[m] \in Creates,
         TheTable(Table(at[m])) \in Removed, ~scenario.overlap
  PROVE  Succeeds(Statements(Script[at[m]])[stmt[m]])
<1> DEFINE s == Script[at[m]]
           st == Statements(s)[stmt[m]]
<1>1. /\ scenario \in Scenarios /\ at[m] \in DOMAIN Script /\ StepOf(m) = s
      /\ s \in Steps /\ s.op = "createTable" /\ stmt[m] \in Nat \ {0}
  BY StepFacts DEF TypeInv, TypeOK, Creates
<1>2. stmt[m] \in DOMAIN Statements(s)
  BY <1>1 DEF TypeInv, AtStatement
<1>3. ThenIndexes(s, CreateTable(s))
  BY <1>1, Shapes
<1>4. CASE stmt[m] = 1
  <2>1. st = CreateTable(s)
    BY <1>3, <1>4 DEF ThenIndexes
  <2> QED BY <2>1 DEF CreateTable, Statement, Succeeds
<1>5. CASE stmt[m] # 1
  <2>1. PICK c \in ColumnsOf(s) : st = CreateIndex(s, c)
    BY <1>2, <1>3, <1>5 DEF ThenIndexes
  <2>2. TheTable(Table(at[m])) \in db
    BY <1>1, <1>5 DEF MigInv, ExecutedSoFar
  <2>3. TheColumn(s.table, c) \in db
    BY <2>2 DEF MigInv, TablesWhole, Table
  <2>4. st.needs = {TheColumn(s.table, c)} /\ st.lenient
    BY <2>1 DEF CreateIndex, Statement
  <2> QED BY <2>3, <2>4 DEF Succeeds
<1> QED BY <1>4, <1>5

LEMMA ExecuteFailsKeeps ==
  ASSUME TypeInv, Orderly, MigInv, NEW m \in Migrators, ExecuteFails(m)
  PROVE  MigInv'
<1>1. /\ scenario \in Scenarios
      /\ pc \in [Migrators -> {"idle", "forget", "drop", "check", "exec", "save"}]
      /\ at \in [Migrators -> DOMAIN Script]
      /\ stmt \in [Migrators -> Nat \ {0}]
      /\ isSuccess \in [Migrators -> BOOLEAN] /\ isReset \in [Migrators -> BOOLEAN]
      /\ DOMAIN Script = 1 .. Len(Script) /\ Len(Script) \in Nat
      /\ Creates \subseteq DOMAIN Script
      /\ StepOf(m) = Script[at[m]]
  BY ScriptFacts DEF TypeInv, TypeOK, Creates, StepOf
<1>2. /\ OneAtATime /\ ResetsAllowed /\ TablesFirst /\ TablesWhole /\ DoneIsKept
      /\ ExecutedSoFar /\ Forgotten /\ CreatedThenDropped
  BY DEF MigInv
<1>3. UNCHANGED <<scenario, db, history, at, stmt, isReset>> /\ pc[m] = "exec"
  BY DEF ExecuteFails, runVars
<1>4. /\ Script' = Script /\ Creates' = Creates /\ Created' = Created
      /\ \A j : Table(j)' = Table(j)
  BY <1>3, ScriptStays
<1>5. \A j : Ran(j)' = Ran(j) /\ Failed(j)' = Failed(j) /\ Unrecorded(j)' = Unrecorded(j)
  BY <1>3, HistorySame
<1>6. /\ \A n \in Migrators : n # m => pc'[n] = pc[n] /\ isSuccess'[n] = isSuccess[n]
      /\ pc'[m] = "save" /\ ~isSuccess'[m]
  BY <1>1 DEF ExecuteFails
<1>7. TablesFirst' /\ TablesWhole' /\ DoneIsKept' /\ ExecutedSoFar'
  <2>1. \A j \in DOMAIN Script : Done(j)' => Done(j)
    BY <1>3, <1>5, <1>6 DEF Done, DoneBy
  <2> QED BY <1>3, <1>6, <2>1, SchemaSame
<1>8. OneAtATime'
  BY <1>2, <1>3, <1>6 DEF OneAtATime
<1>9. ResetsAllowed'
  BY <1>2, <1>3, <1>4, <1>6 DEF ResetsAllowed, Resetting
<1>10. Forgotten'
  BY <1>2, <1>3, <1>4, <1>5, <1>6 DEF Forgotten, Resetting, Running
<1>11. CreatedThenDropped'
  <2>1. ASSUME NEW c \in Creates, NEW k \in DOMAIN Script, Script[k].op = "dropTable",
               Table(k) = Table(c), Dropped(c, k)
        PROVE  Dropped(c, k)'
    <3>1. ~scenario.overlap /\ ~scenario.faults
      BY <2>1 DEF Orderly
    <3>2. TheTable(Table(c)) \in Removed
      BY <1>1, <2>1, DroppedAfter
    <3>3. at[m] # c
      BY <1>1, <1>3, <3>1, <3>2, CreateSucceeds DEF ExecuteFails
    <3> QED BY <1>3, <1>5, <1>6, <2>1, <3>3 DEF Dropped, Running
  <2> QED BY <1>2, <1>4, <2>1 DEF CreatedThenDropped
<1> QED BY <1>7, <1>8, <1>9, <1>10, <1>11 DEF MigInv

(* The row that is inserted is one of the step, and says how it ended. *)
LEMMA RowSaved ==
  ASSUME TypeInv, Orderly, NEW m \in Migrators, SaveHistory(m), NEW j \in DOMAIN Script
  PROVE  /\ Ran(j)' <=> Ran(j) \/ (j = at[m] /\ isSuccess[m])
         /\ Failed(j)' <=> Failed(j) \/ (j = at[m] /\ ~isSuccess[m])
<1>1. /\ scenario \in Scenarios /\ at[m] \in DOMAIN Script
      /\ isSuccess[m] \in BOOLEAN /\ StepOf(m) = Script[at[m]]
  BY DEF TypeInv, TypeOK, StepOf
<1>2. Script' = Script
  BY ScriptStays DEF SaveHistory, runVars
<1>3. history' = history \cup {Row(Script[at[m]], isSuccess[m])}
  BY <1>1 DEF SaveHistory
<1>4. \A status \in BOOLEAN : Row(Script[j], status) = Row(Script[at[m]], isSuccess[m])
        <=> j = at[m] /\ status = isSuccess[m]
  <2>1. Checksum(Script[j]) = Checksum(Script[at[m]]) => j = at[m]
    BY <1>1, OrderlyScript
  <2> QED BY <2>1 DEF Row
<1>5. /\ Ran(j)' <=> Row(Script[j], TRUE) \in history'
      /\ Failed(j)' <=> Row(Script[j], FALSE) \in history'
  BY <1>2 DEF Ran, Failed
<1> QED BY <1>1, <1>3, <1>4, <1>5 DEF Ran, Failed

LEMMA SaveHistoryKeeps ==
  ASSUME TypeInv, Orderly, MigInv, NEW m \in Migrators, SaveHistory(m)
  PROVE  MigInv'
<1>1. /\ scenario \in Scenarios
      /\ pc \in [Migrators -> {"idle", "forget", "drop", "check", "exec", "save"}]
      /\ at \in [Migrators -> DOMAIN Script]
      /\ stmt \in [Migrators -> Nat \ {0}]
      /\ isSuccess \in [Migrators -> BOOLEAN] /\ isReset \in [Migrators -> BOOLEAN]
      /\ DOMAIN Script = 1 .. Len(Script) /\ Len(Script) \in Nat
      /\ Creates \subseteq DOMAIN Script
      /\ StepOf(m) = Script[at[m]]
  BY ScriptFacts DEF TypeInv, TypeOK, Creates, StepOf
<1>2. /\ OneAtATime /\ ResetsAllowed /\ TablesFirst /\ TablesWhole /\ DoneIsKept
      /\ ExecutedSoFar /\ Forgotten /\ CreatedThenDropped
  BY DEF MigInv
<1>3. UNCHANGED <<scenario, db, stmt, isSuccess, isReset>> /\ pc[m] = "save"
  BY DEF SaveHistory, runVars
<1>4. /\ Script' = Script /\ Creates' = Creates /\ Created' = Created
      /\ \A j : Table(j)' = Table(j)
  BY <1>3, ScriptStays
<1>5. ASSUME NEW j \in DOMAIN Script
      PROVE  /\ Ran(j)' <=> Ran(j) \/ (j = at[m] /\ isSuccess[m])
             /\ Failed(j)' <=> Failed(j) \/ (j = at[m] /\ ~isSuccess[m])
  BY RowSaved
<1>6. /\ \A n \in Migrators : n # m => pc'[n] = pc[n] /\ at'[n] = at[n]
      /\ pc'[m] = "idle" \/ (pc'[m] = "check" /\ at'[m] = at[m] + 1)
  BY <1>1 DEF SaveHistory, Advance
<1>7. TablesFirst' /\ TablesWhole' /\ DoneIsKept' /\ ExecutedSoFar'
  <2>1. \A j \in DOMAIN Script : Done(j)' => Done(j)
    BY <1>3, <1>5, <1>6 DEF Done, DoneBy
  <2> QED BY <1>3, <1>6, <2>1, SchemaSame
<1>8. OneAtATime'
  BY <1>2, <1>3, <1>6 DEF OneAtATime
<1>9. ResetsAllowed'
  BY <1>2, <1>3, <1>4, <1>6 DEF ResetsAllowed, Resetting
<1>10. Forgotten'
  <2> SUFFICES ASSUME NEW n \in Migrators, NEW k \in DOMAIN Script
               PROVE  /\ pc'[n] = "drop" /\ Table(k) = Table(at'[n]) => Unrecorded(k)'
                      /\ Resetting(n)' /\ (\E c \in Creates : c > at'[n] /\ Table(k) = Table(c))
                           => Unrecorded(k)'
                      /\ Running(n)' /\ isReset[n] /\ k >= at'[n] /\ Table(k) \in Created
                           => Unrecorded(k)'
    BY <1>3, <1>4 DEF Forgotten
  <2>1. CASE n = m
    <3>1. pc'[m] = "check" /\ k >= at'[m] => k >= at[m] /\ k # at[m]
      BY <1>1, <1>6
    <3>2. Running(m)
      BY <1>3 DEF Running
    <3>3. pc'[m] = "check" /\ isReset[m] /\ k >= at'[m] /\ Table(k) \in Created
            => Unrecorded(k) /\ k # at[m]
      BY <1>2, <3>1, <3>2 DEF Forgotten
    <3>4. Unrecorded(k) /\ k # at[m] => Unrecorded(k)'
      BY <1>5 DEF Unrecorded
    <3> QED BY <1>6, <2>1, <3>3, <3>4 DEF Resetting, Running
  <2>2. CASE n # m
    <3>1. ~(pc[n] # "idle" /\ (isReset[n] \/ Resetting(n)))
      BY <1>3, <2>2, Alone
    <3> QED BY <1>6, <2>2, <3>1 DEF Resetting, Running
  <2> QED BY <2>1, <2>2
<1>11. CreatedThenDropped'
  <2>1. ASSUME NEW c \in Creates, NEW k \in DOMAIN Script, Script[k].op = "dropTable",
               Table(k) = Table(c), Dropped(c, k)
        PROVE  Dropped(c, k)'
    <3>1. /\ ~Failed(c)
          /\ Ran(k) => Ran(c)
          /\ pc[m] = "save" /\ at[m] = c => isSuccess[m]
          /\ Running(m) /\ at[m] > c => Ran(c)
      BY <2>1 DEF Dropped
    <3>2. /\ Running(m) /\ c \in 1 .. Len(Script) /\ k \in 1 .. Len(Script)
          /\ at[m] \in 1 .. Len(Script) /\ c \in DOMAIN Script
      BY <1>1, <1>3 DEF Running
    <3>3. c < k
      BY <1>1, <2>1, DroppedAfter
    <3>4. \A n \in Migrators : n # m => pc'[n] = "idle"
      BY <1>3, <1>6, <2>1, Alone
    <3>5. ~Failed(c)'
      BY <1>3, <1>5, <3>1, <3>2
    <3>6. Ran(k)' => Ran(c)'
      BY <1>5, <3>1, <3>2, <3>3
    <3>7. Running(m)' /\ at'[m] > c => Ran(c)'
      BY <1>3, <1>5, <1>6, <3>1, <3>2 DEF Running
    <3> QED BY <1>6, <3>4, <3>5, <3>6, <3>7 DEF Dropped, Running
  <2> QED BY <1>2, <1>4, <2>1 DEF CreatedThenDropped
<1> QED BY <1>7, <1>8, <1>9, <1>10, <1>11 DEF MigInv
-----------------------------------------------------------------------------
(* The history tells the truth. *)

LEMMA OrderlyInit == Init => OrderlyInv
<1> SUFFICES ASSUME Init PROVE MigInv
  BY DEF OrderlyInv
<1>1. OneAtATime /\ ResetsAllowed
  BY DEF Init, OneAtATime, ResetsAllowed, Resetting
<1>2. TablesFirst /\ TablesWhole
  BY DEF Init, TablesFirst, TablesWhole
<1>3. \A k : ~Ran(k) /\ ~Failed(k) /\ Unrecorded(k)
  BY DEF Init, Ran, Failed, Unrecorded
<1>4. DoneIsKept
  BY <1>3 DEF Init, DoneIsKept, Done, DoneBy
<1>5. ExecutedSoFar
  BY DEF Init, ExecutedSoFar
<1>6. Forgotten
  BY <1>3 DEF Forgotten
<1>7. CreatedThenDropped
  BY <1>3 DEF Init, CreatedThenDropped, Dropped, Running
<1> QED BY <1>1, <1>2, <1>4, <1>5, <1>6, <1>7 DEF MigInv

LEMMA OrderlyNext == TypeInv /\ OrderlyInv /\ [Next]_vars => OrderlyInv'
<1> SUFFICES ASSUME TypeInv, OrderlyInv, [Next]_vars, Orderly' PROVE MigInv'
  BY DEF OrderlyInv
<1>1. scenario' = scenario
  BY DEF Next, Start, ResetMigrationTable, ResetTable, Check, Execute, ExecuteFails,
         SaveHistory, Crash, AllRun, vars, runVars
<1>2. Orderly /\ MigInv
  BY <1>1, ScriptStays DEF OrderlyInv
<1>3. ASSUME UNCHANGED vars PROVE MigInv'
  <2>1. UNCHANGED <<scenario, db, history, pc, at, stmt, isReset, isSuccess>>
    BY <1>3 DEF vars, runVars
  <2>2. /\ Script' = Script /\ Creates' = Creates /\ Created' = Created
        /\ \A j : Table(j)' = Table(j)
        /\ \A j : Ran(j)' = Ran(j) /\ Failed(j)' = Failed(j) /\ Unrecorded(j)' = Unrecorded(j)
    BY <2>1, ScriptStays, HistorySame
  <2>3. TablesFirst' /\ TablesWhole' /\ DoneIsKept' /\ ExecutedSoFar'
    BY <1>2, <2>1, <2>2, SchemaSame DEF Done, DoneBy
  <2>4. OneAtATime' /\ ResetsAllowed'
    BY <1>2, <2>1, <2>2 DEF MigInv, OneAtATime, ResetsAllowed, Resetting
  <2>5. Forgotten'
    BY <1>2, <2>1, <2>2 DEF MigInv, Forgotten, Resetting, Running
  <2>6. CreatedThenDropped'
    BY <1>2, <2>1, <2>2 DEF MigInv, CreatedThenDropped, Dropped, Running
  <2> QED BY <2>3, <2>4, <2>5, <2>6 DEF MigInv
<1>4. ASSUME NEW m \in Migrators, Start(m) PROVE MigInv'
  BY <1>2, <1>4, StartKeeps
<1>5. ASSUME NEW m \in Migrators, ResetMigrationTable(m) PROVE MigInv'
  BY <1>2, <1>5, ResetMigrationTableKeeps
<1>6. ASSUME NEW m \in Migrators, ResetTable(m) PROVE MigInv'
  BY <1>2, <1>6, ResetTableKeeps
<1>7. ASSUME NEW m \in Migrators, Check(m) PROVE MigInv'
  BY <1>2, <1>7, CheckKeeps
<1>8. ASSUME NEW m \in Migrators, Execute(m) PROVE MigInv'
  BY <1>2, <1>8, ExecuteKeeps
<1>9. ASSUME NEW m \in Migrators, ExecuteFails(m) PROVE MigInv'
  BY <1>2, <1>9, ExecuteFailsKeeps
<1>10. ASSUME NEW m \in Migrators, SaveHistory(m) PROVE MigInv'
  BY <1>2, <1>10, SaveHistoryKeeps
<1>11. ASSUME NEW m \in Migrators, Crash(m) PROVE MigInv'
  BY <1>2, <1>11, CrashKeeps
<1> QED BY <1>3, <1>4, <1>5, <1>6, <1>7, <1>8, <1>9, <1>10, <1>11 DEF Next, AllRun

(* What a done step keeps in the schema is what it leaves at the script's    *)
(* end: the steps that remove something come after those that added it.      *)
LEMMA KeptMatches ==
  ASSUME TypeInv, Orderly, NEW k \in DOMAIN Script, Kept(k)
  PROVE  Leaves(k) \subseteq db /\ KeepsOut(k) \cap db = {}
<1>1. scenario \in Scenarios
  BY DEF TypeInv, TypeOK
<1>2. ASSUME NEW o \in Leaves(k) PROVE o \in db
  <2>1. o \in Adds(k) /\ \A j \in DOMAIN Script : j > k => o \notin Removes(j)
    BY DEF Leaves
  <2>2. ASSUME NEW j \in DOMAIN Script, o \in Removes(j) PROVE FALSE
    <3>1. k < j
      BY <1>1, <2>1, <2>2, OrderlyScript
    <3>2. j > k
      BY <1>1, <3>1, ScriptFacts
    <3> QED BY <2>1, <2>2, <3>2
  <2>3. o \notin Removed
    BY <2>2 DEF Removed
  <2> QED BY <2>1, <2>3 DEF Kept
<1>3. KeepsOut(k) \subseteq Removes(k)
  BY DEF KeepsOut
<1> QED BY <1>2, <1>3 DEF Kept

(* For every orderly script, any number of programs and any number of runs:  *)
(* a row of _allographer_migrations that says a step is done is true of the   *)
(* schema, also while programs overlap, statements fail, programs die in the  *)
(* middle of a step or a reset, and runs follow each other                    *)
(* (execThenSaveHistory, resetTable, shouldRun).                              *)
THEOREM HistoryTrue == Spec => []HistoryMatchesSchema
<1>1. Init => TypeInv /\ OrderlyInv
  BY TypeInit, OrderlyInit
<1>2. TypeInv /\ OrderlyInv /\ [Next]_vars => (TypeInv /\ OrderlyInv)'
  BY TypeNext, OrderlyNext
<1>3. TypeInv /\ OrderlyInv => HistoryMatchesSchema
  <2> SUFFICES ASSUME TypeInv, Orderly, MigInv, NEW k \in DOMAIN Script, Recorded(k)
               PROVE  Leaves(k) \subseteq db /\ KeepsOut(k) \cap db = {}
    BY DEF OrderlyInv, HistoryMatchesSchema
  <2>1. Ran(k)
    BY RowsOfStep DEF Recorded
  <2>2. Kept(k)
    BY <2>1 DEF MigInv, DoneIsKept, Done
  <2> QED BY <2>2, KeptMatches
<1> QED BY <1>1, <1>2, <1>3, PTL DEF Spec
-----------------------------------------------------------------------------
(* What cannot succeed does not, and stays so. *)

LEMMA StuckSame ==
  ASSUME scenario' = scenario, db' = db
  PROVE  /\ \A k : Stuck(k)' = Stuck(k)
         /\ OnlyCreated => OnlyCreated'
<1>1. /\ Script' = Script /\ Creates' = Creates /\ Created' = Created
      /\ \A k : Table(k)' = Table(k)
      /\ \A s : Statements(s)' = Statements(s)
  BY ScriptStays
<1>2. \A k : Stuck(k)' = Stuck(k)
  BY <1>1 DEF Stuck
<1>3. OnlyCreated => OnlyCreated'
  BY <1>1 DEF OnlyCreated
<1> QED BY <1>2, <1>3

(* A column added or dropped was one of a created table. *)
LEMMA RanIsCreated ==
  ASSUME TypeInv, Orderly, MigInv, OnlyCreated, NEW k \in DOMAIN Script, Ran(k),
         Script[k].op \in {"addColumn", "dropColumn"}
  PROVE  Table(k) \in Created
<1>1. scenario \in Scenarios
  BY DEF TypeInv, TypeOK
<1>2. Kept(k)
  BY DEF MigInv, DoneIsKept, Done
<1>3. CASE Script[k].op = "dropColumn"
  BY <1>2, <1>3 DEF Kept, OnlyCreated
<1>4. CASE Script[k].op = "addColumn"
  <2>1. PICK c \in ColumnsOf(Script[k]) : TheColumn(Table(k), c) \in Adds(k)
    BY <1>1, <1>4, Shapes
  <2>2. k \notin Creates
    BY <1>4 DEF Creates
  <2>3. TheColumn(Table(k), c) \notin Removed
    BY <1>1, <2>1, <2>2, OrderlyScript DEF Removed
  <2>4. TheColumn(Table(k), c) \in db
    BY <1>2, <2>1, <2>3 DEF Kept
  <2>5. TheTable(Table(k)) \in db
    BY <2>4 DEF MigInv, TablesFirst, TheColumn
  <2> QED BY <2>5 DEF OnlyCreated
<1> QED BY <1>3, <1>4

(* A statement of a step that is stuck: no success, but of create before the *)
(* last one.                                                                 *)
LEMMA StuckNotDone ==
  ASSUME TypeInv, FirstTime, NEW m \in Migrators, Execute(m), Stuck(at[m]),
         at[m] \in Creates \/ stmt[m] = 1
  PROVE  at[m] \in Creates /\ stmt[m] # Len(Statements(StepOf(m)))
<1> DEFINE k == at[m]
           s == Script[k]
<1>1. /\ scenario \in Scenarios /\ k \in DOMAIN Script /\ s \in Steps /\ StepOf(m) = s
      /\ pc[m] = "exec"
  BY StepFacts DEF TypeInv, TypeOK, Execute
<1>2. CASE s.op = "createTable"
  <2>1. k \in Creates
    BY <1>1, <1>2 DEF Creates
  <2>2. PICK n \in DOMAIN Statements(s) : ~(Statements(s)[n].needs \subseteq db)
    BY <1>2 DEF Stuck
  <2>3. /\ DOMAIN Statements(s) = 1 .. Len(Statements(s))
        /\ Len(Statements(s)) \in Nat
        /\ stmt[m] \in DOMAIN Statements(s)
    BY <1>1, StatementFacts DEF TypeInv, AtStatement
  <2>4. \A i \in 1 .. (stmt[m] - 1) : Statements(s)[i].needs \subseteq db
    BY <1>1, <2>1 DEF FirstTime
  <2>5. Statements(s)[stmt[m]].needs \subseteq db
    BY <1>1 DEF Execute, Succeeds
  <2>6. ~(n \in 1 .. (stmt[m] - 1)) /\ n # stmt[m]
    BY <2>2, <2>4, <2>5
  <2> HIDE DEF s, k
  <2>7. stmt[m] # Len(Statements(s))
    BY <2>3, <2>6
  <2> QED BY <1>1, <2>1, <2>7 DEF k
<1>3. CASE s.op = "addColumn"
  <2>1. stmt[m] = 1
    BY <1>3 DEF Creates
  <2>2. Statements(s)[stmt[m]] = AddColumns(s)
    BY <1>1, <1>3, <2>1, Shapes DEF ThenIndexes
  <2>3. Succeeds(AddColumns(s))
    BY <1>1, <2>2 DEF Execute
  <2>4. TheTable(Table(k)) \in db /\ \A c \in ColumnsOf(s) : TheColumn(Table(k), c) \notin db
    BY <2>3 DEF Succeeds, AddColumns, Statement, Table
  <2> QED BY <1>3, <2>4 DEF Stuck, Creates
<1>4. CASE s.op = "dropColumn"
  <2>1. DropsColumn(m, k)
    BY <1>4, ExecuteEffect DEF CreatesNothing, CreatesTable, AddsColumns, CreatesIndex, DropsTable
  <2>2. PICK c \in ColumnsOf(s) : ColumnsOf(s) = {c}
    BY <1>1, <1>4, Shapes
  <2>3. TheColumn(Table(k), c) \in db
    BY <2>1, <2>2 DEF DropsColumn
  <2> QED BY <1>4, <2>2, <2>3 DEF Stuck, Creates
<1>5. CASE s.op = "dropTable"
  BY <1>5 DEF Stuck, Creates
<1> QED BY <1>1, <1>2, <1>3, <1>4, <1>5 DEF Steps

(* What is stuck is not freed by any other step. *)
LEMMA StuckStays ==
  ASSUME TypeInv, Orderly, MigInv, OnlyCreated, NEW m \in Migrators, Execute(m),
         NEW k \in DOMAIN Script, Failed(k), Stuck(k)
  PROVE  Stuck(k)'
<1> DEFINE j == at[m]
           s == Script[k]
<1>1. /\ scenario \in Scenarios /\ j \in DOMAIN Script
      /\ db' \subseteq db \cup Adds(j) /\ db \ Removes(j) \subseteq db'
  BY ExecuteBounds DEF TypeInv, TypeOK
<1>2. /\ Script' = Script /\ Creates' = Creates /\ Created' = Created
      /\ \A i : Table(i)' = Table(i)
      /\ \A x : Statements(x)' = Statements(x)
  BY ScriptStays DEF Execute, runVars
<1>3. ASSUME NEW t, TheTable(t) \in db,
             \A i \in DOMAIN Script : Script[i].op = "dropTable" => Table(i) # t
      PROVE  TheTable(t) \in db'
  BY <1>1, <1>3, TableSteps
<1>4. CASE k \in Creates
  <2>1. PICK n \in DOMAIN Statements(s) : ~(Statements(s)[n].needs \subseteq db)
    BY <1>4 DEF Stuck, Creates
  <2>2. TheTable(Table(k)) \in db /\ s.op = "createTable"
    BY <1>4 DEF Stuck, Creates
  <2>3. TheTable(Table(k)) \in db'
    BY <1>3, <1>4, <2>2 DEF MigInv, CreatedThenDropped, Dropped
  <2>4. PICK c \in ColumnsOf(s) : Statements(s)[n].needs = {TheColumn(Table(k), c)}
    <3>1. ThenIndexes(s, CreateTable(s))
      BY <1>1, <2>2, Shapes
    <3>2. n # 1
      BY <2>1, <3>1 DEF ThenIndexes, CreateTable, Statement
    <3> QED BY <3>1, <3>2 DEF ThenIndexes, CreateIndex, Statement, Table
  <2>5. TheColumn(Table(k), c) \notin db
    BY <2>1, <2>4
  <2>6. TheColumn(Table(k), c) \notin db'
    <3> SUFFICES ASSUME TheColumn(Table(k), c) \in Adds(j), TheColumn(Table(k), c) \in db'
                 PROVE  FALSE
      BY <1>1, <2>5
    <3>1. TheColumn(Table(k), c) \in Adds(k)
      BY <1>1, <2>2, Shapes
    <3>2. j = k
      BY <3>1, <1>1 DEF Orderly
    <3>3. \A d : TheColumn(Table(k), c) # TheIndex(Table(k), d)
      BY DEF TheColumn, TheIndex
    <3> QED BY <2>2, <2>5, <3>2, <3>3, ExecuteEffect
            DEF CreatesNothing, CreatesTable, AddsColumns, CreatesIndex, DropsColumn, DropsTable
  <2>7. ~(Statements(s)[n].needs \subseteq db')
    BY <2>4, <2>6
  <2> QED BY <1>2, <1>4, <2>3, <2>7 DEF Stuck
<1>5. CASE s.op = "addColumn"
  <2>1. k \notin Creates
    BY <1>5 DEF Creates
  <2>2. CASE TheTable(Table(k)) \notin db /\ Table(k) \notin Created
    <3>1. TheTable(Table(k)) \in Adds(j) => Table(k) \in Created
      BY <1>1, TableSteps DEF Created, Creates, Table
    <3>2. TheTable(Table(k)) \notin db'
      BY <1>1, <2>2, <3>1
    <3> QED BY <1>2, <1>5, <2>2, <3>2 DEF Stuck
  <2>3. CASE \E c \in ColumnsOf(s) : TheColumn(Table(k), c) \in db
    <3>1. PICK c \in ColumnsOf(s) : TheColumn(Table(k), c) \in db
      BY <2>3
    <3>2. PICK d \in ColumnsOf(s) : TheColumn(Table(k), d) \in Adds(k) /\ ColumnsOf(s) = {d}
      BY <1>1, <1>5, Shapes
    <3>3. TheColumn(Table(k), c) \notin Removes(j)
      BY <1>1, <2>1, <3>1, <3>2, OrderlyScript
    <3>4. TheColumn(Table(k), c) \in db'
      BY <1>1, <3>1, <3>3
    <3> QED BY <1>2, <1>5, <3>4 DEF Stuck
  <2> QED BY <1>5, <2>1, <2>2, <2>3 DEF Stuck
<1>6. CASE s.op = "dropColumn"
  <2>1. /\ TheTable(Table(k)) \in db \/ Table(k) \notin Created
        /\ \E c \in ColumnsOf(s) : TheColumn(Table(k), c) \notin db
    BY <1>6 DEF Stuck, Creates
  <2>2. PICK c \in ColumnsOf(s) : TheColumn(Table(k), c) \notin db
    BY <2>1
  <2>3. TheTable(Table(k)) \in db => TheTable(Table(k)) \in db'
    BY <1>1, <1>3, <1>6, OrderlyScript
  <2>4. TheColumn(Table(k), c) \notin db'
    <3> SUFFICES ASSUME TheColumn(Table(k), c) \in Adds(j), TheColumn(Table(k), c) \in db'
                 PROVE  FALSE
      BY <1>1, <2>2
    <3>1. PICK d \in ColumnsOf(s) :
            ColumnsOf(s) = {d} /\ Removes(k) = {TheColumn(Table(k), d), TheIndex(Table(k), d)}
      BY <1>1, <1>6, Shapes
    <3>2. j \in Creates
      BY <1>1, <3>1, OrderlyScript
    <3>3. Table(j) = Table(k)
      BY <1>1, OwnTable DEF TheColumn
    <3>4. TheTable(Table(j)) \in db
      BY <2>1, <3>2, <3>3 DEF Created, Table
    <3>5. \A e : TheColumn(Table(k), c) # TheIndex(Table(j), e)
      BY DEF TheColumn, TheIndex
    <3> QED BY <2>2, <3>2, <3>4, <3>5, ExecuteEffect
            DEF CreatesNothing, CreatesTable, AddsColumns, CreatesIndex, DropsColumn, DropsTable, Creates
  <2> QED BY <1>2, <1>6, <2>1, <2>2, <2>3, <2>4 DEF Stuck
<1> QED BY <1>4, <1>5, <1>6 DEF Stuck
-----------------------------------------------------------------------------
(* Every action of the only program keeps it. *)

LEMMA StartOnce ==
  ASSUME TypeInv, Orderly, MigInv, Faultless, StuckInv, NEW m \in Migrators, Start(m)
  PROVE  StuckInv'
<1>1. /\ scenario \in Scenarios
      /\ pc \in [Migrators -> {"idle", "forget", "drop", "check", "exec", "save"}]
      /\ at \in [Migrators -> DOMAIN Script]
      /\ stmt \in [Migrators -> Nat \ {0}]
      /\ isSuccess \in [Migrators -> BOOLEAN] /\ isReset \in [Migrators -> BOOLEAN]
      /\ DOMAIN Script = 1 .. Len(Script) /\ Len(Script) \in Nat
      /\ Creates \subseteq DOMAIN Script
      /\ StepOf(m) = Script[at[m]]
  BY ScriptFacts DEF TypeInv, TypeOK, Creates, StepOf
<1>2. /\ OnlyCreated /\ FailedIsStuck /\ FirstTime /\ CreatesBehind
      /\ ~scenario.overlap /\ ~scenario.faults
  BY DEF StuckInv, Faultless
<1>3. UNCHANGED <<scenario, db, history, stmt, isSuccess>>
  BY DEF Start
<1>4. /\ Script' = Script /\ Creates' = Creates /\ Created' = Created
      /\ \A j : Table(j)' = Table(j)
      /\ \A x : Statements(x)' = Statements(x)
  BY <1>3, ScriptStays
<1>5. \A j : Ran(j)' = Ran(j) /\ Failed(j)' = Failed(j) /\ Unrecorded(j)' = Unrecorded(j)
  BY <1>3, HistorySame
<1>6. \A n \in Migrators : n # m => pc[n] = "idle"
  BY <1>2 DEF Start
<1>7. /\ \A n \in Migrators : n # m => pc'[n] = "idle"
      /\ pc'[m] = "forget" \/ (pc'[m] = "check" /\ at'[m] = 1)
  BY <1>1, <1>6 DEF Start
<1>8. OnlyCreated' /\ FailedIsStuck' /\ \A j : Stuck(j)' = Stuck(j)
  BY <1>2, <1>3, <1>4, <1>5, StuckSame DEF FailedIsStuck
<1>9. FirstTime'
  BY <1>7 DEF FirstTime
<1>10. CreatesBehind'
  <2>1. \A c \in Creates : ~(Running(m)' /\ at'[m] > c)
    BY <1>1, <1>7 DEF Running
  <2> QED BY <1>4, <1>7, <2>1 DEF CreatesBehind, Running
<1> QED BY <1>8, <1>9, <1>10 DEF StuckInv

LEMMA ResetMigrationTableOnce ==
  ASSUME TypeInv, Orderly, MigInv, Faultless, StuckInv, NEW m \in Migrators, ResetMigrationTable(m)
  PROVE  StuckInv'
<1>1. /\ scenario \in Scenarios
      /\ pc \in [Migrators -> {"idle", "forget", "drop", "check", "exec", "save"}]
      /\ at \in [Migrators -> DOMAIN Script]
      /\ stmt \in [Migrators -> Nat \ {0}]
      /\ isSuccess \in [Migrators -> BOOLEAN] /\ isReset \in [Migrators -> BOOLEAN]
      /\ DOMAIN Script = 1 .. Len(Script) /\ Len(Script) \in Nat
      /\ Creates \subseteq DOMAIN Script
      /\ StepOf(m) = Script[at[m]]
  BY ScriptFacts DEF TypeInv, TypeOK, Creates, StepOf
<1>2. /\ OnlyCreated /\ FailedIsStuck /\ FirstTime /\ CreatesBehind
      /\ ~scenario.overlap /\ ~scenario.faults
  BY DEF StuckInv, Faultless
<1>3. UNCHANGED <<scenario, db>> /\ pc[m] = "forget" /\ history' \subseteq history
  BY DEF ResetMigrationTable, runVars
<1>4. /\ Script' = Script /\ Creates' = Creates /\ Created' = Created
      /\ \A j : Table(j)' = Table(j)
      /\ \A x : Statements(x)' = Statements(x)
  BY <1>3, ScriptStays
<1>5. \A j : (Ran(j)' => Ran(j)) /\ (Failed(j)' => Failed(j))
  BY <1>3, <1>4 DEF Ran, Failed
<1>6. \A n \in Migrators : n # m => pc[n] = "idle"
  BY <1>2, <1>3, Alone
<1>7. \A n \in Migrators : pc'[n] \in {"idle", "drop"}
  BY <1>1, <1>6 DEF ResetMigrationTable
<1>8. OnlyCreated' /\ FailedIsStuck'
  BY <1>2, <1>3, <1>4, <1>5, StuckSame DEF FailedIsStuck
<1>9. FirstTime' /\ CreatesBehind'
  BY <1>7 DEF FirstTime, CreatesBehind, Running
<1> QED BY <1>8, <1>9 DEF StuckInv

LEMMA ResetTableOnce ==
  ASSUME TypeInv, Orderly, MigInv, Faultless, StuckInv, NEW m \in Migrators, ResetTable(m)
  PROVE  StuckInv'
<1>1. /\ scenario \in Scenarios
      /\ pc \in [Migrators -> {"idle", "forget", "drop", "check", "exec", "save"}]
      /\ at \in [Migrators -> DOMAIN Script]
      /\ stmt \in [Migrators -> Nat \ {0}]
      /\ isSuccess \in [Migrators -> BOOLEAN] /\ isReset \in [Migrators -> BOOLEAN]
      /\ DOMAIN Script = 1 .. Len(Script) /\ Len(Script) \in Nat
      /\ Creates \subseteq DOMAIN Script
      /\ StepOf(m) = Script[at[m]]
  BY ScriptFacts DEF TypeInv, TypeOK, Creates, StepOf
<1>2. /\ OnlyCreated /\ FailedIsStuck /\ FirstTime /\ CreatesBehind
      /\ ~scenario.overlap /\ ~scenario.faults
  BY DEF StuckInv, Faultless
<1>3. UNCHANGED <<scenario, history>> /\ pc[m] = "drop"
  BY DEF ResetTable, runVars
<1>4. /\ Script' = Script /\ Creates' = Creates /\ Created' = Created
      /\ \A j : Table(j)' = Table(j)
      /\ \A x : Statements(x)' = Statements(x)
  BY <1>3, ScriptStays
<1>5. \A j : Ran(j)' = Ran(j) /\ Failed(j)' = Failed(j) /\ Unrecorded(j)' = Unrecorded(j)
  BY <1>3, HistorySame
<1>6. \A n \in Migrators : n # m => pc[n] = "idle"
  BY <1>2, <1>3, Alone
<1>7. /\ \A n \in Migrators : n # m => pc'[n] = "idle"
      /\ pc'[m] = "forget" \/ (pc'[m] = "check" /\ at'[m] = 1)
  BY <1>1, <1>6 DEF ResetTable
<1>8. OnlyCreated'
  BY <1>2, <1>4 DEF OnlyCreated, ResetTable
<1>9. FailedIsStuck'
  <2> SUFFICES ASSUME NEW k \in DOMAIN Script, Failed(k) PROVE Stuck(k)'
    BY <1>2, <1>4, <1>5 DEF FailedIsStuck
  <2>1. Table(k) # Table(at[m])
    BY <1>3 DEF MigInv, Forgotten, Unrecorded
  <2>2. Stuck(k)
    BY <1>2 DEF FailedIsStuck
  <2>3. \A o : o[1] = Table(k) => (o \in db' <=> o \in db)
    BY <1>1, <2>1 DEF ResetTable, OfTable, Table
  <2>4. /\ TheTable(Table(k))[1] = Table(k)
        /\ \A c : TheColumn(Table(k), c)[1] = Table(k)
    BY DEF TheTable, TheColumn
  <2>5. ASSUME k \in Creates, NEW n \in DOMAIN Statements(Script[k])
        PROVE  (Statements(Script[k])[n].needs \subseteq db')
                 <=> (Statements(Script[k])[n].needs \subseteq db)
    <3>1. ThenIndexes(Script[k], CreateTable(Script[k]))
      BY <1>1, <2>5, Shapes DEF Creates
    <3>2. CreateTable(Script[k]).needs = {}
      BY DEF CreateTable, Statement
    <3>3. \A c : CreateIndex(Script[k], c).needs = {TheColumn(Table(k), c)}
      BY DEF CreateIndex, Statement, Table
    <3>4. \A o \in Statements(Script[k])[n].needs : o[1] = Table(k)
      BY <2>4, <2>5, <3>1, <3>2, <3>3 DEF ThenIndexes
    <3> QED BY <2>3, <3>4
  <2>6. /\ TheTable(Table(k)) \in db' <=> TheTable(Table(k)) \in db
        /\ \A c : TheColumn(Table(k), c) \in db' <=> TheColumn(Table(k), c) \in db
    BY <2>3, <2>4
  <2> QED BY <1>4, <2>2, <2>5, <2>6 DEF Stuck
<1>10. FirstTime'
  BY <1>7 DEF FirstTime
<1>11. CreatesBehind'
  <2>1. \A c \in Creates : ~(Running(m)' /\ at'[m] > c)
    BY <1>1, <1>7 DEF Running
  <2> QED BY <1>4, <1>7, <2>1 DEF CreatesBehind, Running
<1> QED BY <1>8, <1>9, <1>10, <1>11 DEF StuckInv

LEMMA CheckOnce ==
  ASSUME TypeInv, Orderly, MigInv, Faultless, StuckInv, NEW m \in Migrators, Check(m)
  PROVE  StuckInv'
<1>1. /\ scenario \in Scenarios
      /\ pc \in [Migrators -> {"idle", "forget", "drop", "check", "exec", "save"}]
      /\ at \in [Migrators -> DOMAIN Script]
      /\ stmt \in [Migrators -> Nat \ {0}]
      /\ isSuccess \in [Migrators -> BOOLEAN] /\ isReset \in [Migrators -> BOOLEAN]
      /\ DOMAIN Script = 1 .. Len(Script) /\ Len(Script) \in Nat
      /\ Creates \subseteq DOMAIN Script
      /\ StepOf(m) = Script[at[m]]
  BY ScriptFacts DEF TypeInv, TypeOK, Creates, StepOf
<1>2. /\ OnlyCreated /\ FailedIsStuck /\ FirstTime /\ CreatesBehind
      /\ ~scenario.overlap /\ ~scenario.faults
  BY DEF StuckInv, Faultless
<1>3. UNCHANGED <<scenario, db, history, isSuccess, isReset>> /\ pc[m] = "check"
  BY DEF Check, runVars
<1>4. /\ Script' = Script /\ Creates' = Creates /\ Created' = Created
      /\ \A j : Table(j)' = Table(j)
      /\ \A x : Statements(x)' = Statements(x)
  BY <1>3, ScriptStays
<1>5. \A j : Ran(j)' = Ran(j) /\ Failed(j)' = Failed(j) /\ Unrecorded(j)' = Unrecorded(j)
  BY <1>3, HistorySame
<1>6. \A n \in Migrators : n # m => pc[n] = "idle"
  BY <1>2, <1>3, Alone
<1>7. /\ \A n \in Migrators : n # m => pc'[n] = "idle"
      /\ \/ /\ pc'[m] = "exec" /\ at'[m] = at[m] /\ stmt'[m] = 1
            /\ isReset[m] \/ ~Ran(at[m])
         \/ pc'[m] = "idle"
         \/ pc'[m] = "check" /\ at'[m] = at[m] + 1 /\ Ran(at[m])
  <2>1. CASE ShouldRun(m, TRUE) /\ pc' = [pc EXCEPT ![m] = "exec"]
             /\ stmt' = [stmt EXCEPT ![m] = 1] /\ at' = at
    <3>1. \/ isReset[m]
          \/ RowsOf(Script[at[m]]) = {}
          \/ \E row \in RowsOf(Script[at[m]]) : ~row.status
      BY <1>1, <2>1 DEF ShouldRun
    <3>2. isReset[m] \/ ~Ran(at[m]) \/ Failed(at[m])
      BY <1>1, <3>1, RowsOfStep
    <3>3. isReset[m] \/ ~Ran(at[m])
      BY <1>1, <1>2, <3>2 DEF FailedIsStuck
    <3> QED BY <1>1, <1>6, <2>1, <3>3
  <2>2. CASE ShouldRun(m, FALSE) /\ Advance(m)
    <3>1. \E row \in RowsOf(Script[at[m]]) : row.status
      BY <1>1, <2>2 DEF ShouldRun
    <3>2. Ran(at[m])
      BY <1>1, <3>1, RowsOfStep
    <3> QED BY <1>1, <1>6, <2>2, <3>2 DEF Advance
  <2> QED BY <2>1, <2>2 DEF Check
<1>8. OnlyCreated' /\ FailedIsStuck' /\ \A j : Stuck(j)' = Stuck(j)
  BY <1>2, <1>3, <1>4, <1>5, StuckSame DEF FailedIsStuck
<1>9. FirstTime'
  <2>1. \A n : StepOf(n)' = Script[at'[n]]
    BY <1>4 DEF StepOf
  <2> QED BY <1>3, <1>4, <1>5, <1>7, <2>1 DEF FirstTime
<1>10. CreatesBehind'
  <2>1. ASSUME NEW c \in Creates, Running(m)', at'[m] > c PROVE ~Unrecorded(c)
    <3>1. c = at[m] => Ran(at[m])
      BY <1>1, <1>7, <2>1 DEF Running
    <3>2. c # at[m] => Running(m) /\ at[m] > c
      BY <1>1, <1>3, <1>7, <2>1 DEF Running
    <3> QED BY <1>2, <3>1, <3>2 DEF CreatesBehind, Unrecorded
  <2> QED BY <1>4, <1>5, <1>7, <2>1 DEF CreatesBehind, Running
<1> QED BY <1>8, <1>9, <1>10 DEF StuckInv

LEMMA ExecuteOnce ==
  ASSUME TypeInv, Orderly, MigInv, Faultless, StuckInv, NEW m \in Migrators, Execute(m)
  PROVE  StuckInv'
<1>1. /\ scenario \in Scenarios
      /\ pc \in [Migrators -> {"idle", "forget", "drop", "check", "exec", "save"}]
      /\ at \in [Migrators -> DOMAIN Script]
      /\ stmt \in [Migrators -> Nat \ {0}]
      /\ isSuccess \in [Migrators -> BOOLEAN] /\ isReset \in [Migrators -> BOOLEAN]
      /\ DOMAIN Script = 1 .. Len(Script) /\ Len(Script) \in Nat
      /\ Creates \subseteq DOMAIN Script
      /\ StepOf(m) = Script[at[m]]
  BY ScriptFacts DEF TypeInv, TypeOK, Creates, StepOf
<1>2. /\ OnlyCreated /\ FailedIsStuck /\ FirstTime /\ CreatesBehind
      /\ ~scenario.overlap /\ ~scenario.faults
  BY DEF StuckInv, Faultless
<1>3. UNCHANGED <<scenario, history, at, isReset>> /\ pc[m] = "exec"
  BY DEF Execute, runVars
<1>4. /\ Script' = Script /\ Creates' = Creates /\ Created' = Created
      /\ \A j : Table(j)' = Table(j)
      /\ \A x : Statements(x)' = Statements(x)
  BY <1>3, ScriptStays
<1>5. \A j : Ran(j)' = Ran(j) /\ Failed(j)' = Failed(j) /\ Unrecorded(j)' = Unrecorded(j)
  BY <1>3, HistorySame
<1>6. \A n \in Migrators : n # m => pc[n] = "idle"
  BY <1>2, <1>3, Alone
<1>7. /\ \A n \in Migrators : n # m => pc'[n] = "idle"
      /\ \/ pc'[m] = "exec" /\ stmt'[m] = stmt[m] + 1
         \/ pc'[m] = "save" /\ isSuccess'[m] /\ stmt[m] = Len(Statements(StepOf(m)))
  BY <1>1, <1>3, <1>6 DEF Execute
<1>8. at[m] \in Creates => Removes(at[m]) = {}
  BY <1>1, Shapes DEF Creates
<1>9. /\ db \ Removes(at[m]) \subseteq db' /\ db' \subseteq db \cup Adds(at[m])
  BY ExecuteBounds
<1>10. OnlyCreated'
  <2> SUFFICES ASSUME NEW t, TheTable(t) \in Adds(at[m]) PROVE t \in Created
    BY <1>2, <1>4, <1>9 DEF OnlyCreated
  <2> QED BY <1>1, TableSteps DEF Created, Creates, Table
<1>11. FailedIsStuck'
  BY <1>2, <1>4, <1>5, StuckStays DEF FailedIsStuck
<1>12. Failed(at[m]) => at[m] \in Creates /\ stmt[m] # Len(Statements(StepOf(m)))
  BY <1>1, <1>2, <1>3, StuckNotDone DEF FailedIsStuck, FirstTime
<1>13. FirstTime'
  <2>1. at[m] \in Creates => \A n \in 1 .. stmt[m] : Statements(StepOf(m))[n].needs \subseteq db'
    <3> SUFFICES ASSUME at[m] \in Creates, NEW n \in 1 .. stmt[m]
                 PROVE  Statements(StepOf(m))[n].needs \subseteq db
      BY <1>8, <1>9
    <3>1. CASE n = stmt[m]
      BY <3>1 DEF Execute, Succeeds
    <3>2. CASE n # stmt[m]
      <4>1. n \in 1 .. (stmt[m] - 1)
        BY <1>1, <3>2
      <4> QED BY <1>2, <1>3, <4>1 DEF FirstTime
    <3> QED BY <3>1, <3>2
  <2>2. StepOf(m)' = StepOf(m)
    BY <1>3, <1>4 DEF StepOf
  <2>3. (stmt[m] + 1) - 1 = stmt[m]
    BY <1>1
  <2>4. ~isReset[m] => ~Ran(at[m])
    BY <1>2, <1>3 DEF FirstTime
  <2>5. \A n : StepOf(n)' = StepOf(n)
    BY <1>3, <1>4 DEF StepOf
  <2> SUFFICES ASSUME NEW n \in Migrators
               PROVE  /\ pc'[n] \in {"exec", "save"} /\ ~isReset[n] => ~Ran(at[n])
                      /\ pc'[n] = "exec" /\ at[n] \in Creates =>
                           \A i \in 1 .. (stmt'[n] - 1) : Statements(StepOf(n))[i].needs \subseteq db'
                      /\ pc'[n] = "exec" /\ at[n] \notin Creates /\ Failed(at[n]) => stmt'[n] = 1
                      /\ pc'[n] = "save" /\ isSuccess'[n] => ~Failed(at[n])
                      /\ pc'[n] # "save" \/ isSuccess'[n]
    BY <1>3, <1>4, <1>5, <2>5 DEF FirstTime
  <2>6. CASE n = m
    BY <1>7, <1>12, <2>1, <2>3, <2>4, <2>6
  <2>7. CASE n # m
    BY <1>7, <2>7
  <2> QED BY <2>6, <2>7
<1>14. CreatesBehind'
  <2>1. Running(m)
    BY <1>3 DEF Running
  <2> QED BY <1>2, <1>3, <1>4, <1>5, <1>7, <2>1 DEF CreatesBehind, Running
<1> QED BY <1>10, <1>11, <1>13, <1>14 DEF StuckInv
(* A created table exists when a step that alters it is reached. *)
LEMMA TableExists ==
  ASSUME TypeInv, Orderly, MigInv, StuckInv, NEW m \in Migrators, Running(m),
         StepOf(m).op \in {"addColumn", "dropColumn"}, Table(at[m]) \in Created
  PROVE  TheTable(Table(at[m])) \in db
<1> DEFINE k == at[m]
<1>1. /\ scenario \in Scenarios /\ k \in DOMAIN Script /\ StepOf(m) = Script[k]
  BY StepFacts DEF TypeInv, TypeOK
<1>2. PICK c \in Creates : Table(c) = Table(k)
  BY DEF Created, Table
<1>3. c \in DOMAIN Script /\ Script[c].op = "createTable" /\ k \notin Creates
  BY <1>1 DEF Creates
<1>4. at[m] > c
  <2>1. DOMAIN Script = 1 .. Len(Script) /\ Len(Script) \in Nat /\ ~(k < c)
    BY <1>1, <1>2, <1>3, ScriptFacts
  <2> QED BY <1>1, <1>2, <1>3, <2>1
<1>5. CASE Ran(c)
  <2>1. Kept(c)
    BY <1>3, <1>5 DEF MigInv, DoneIsKept, Done
  <2>2. TheTable(Table(c)) \in Adds(c)
    BY <1>1, <1>3, Shapes
  <2>3. TheTable(Table(c)) \notin Removed
    <3> SUFFICES ASSUME NEW j \in DOMAIN Script, TheTable(Table(c)) \in Removes(j) PROVE FALSE
      BY DEF Removed
    <3>1. Script[j].op = "dropTable" /\ Table(j) = Table(k)
      BY <1>1, <1>2, TableSteps
    <3> QED BY <1>1, <3>1, OrderlyScript
  <2> QED BY <1>2, <2>1, <2>2, <2>3 DEF Kept
<1>6. CASE Failed(c)
  <2>1. Stuck(c)
    BY <1>3, <1>6 DEF StuckInv, FailedIsStuck
  <2> QED BY <1>2, <1>3, <2>1 DEF Stuck
<1> QED BY <1>2, <1>4, <1>5, <1>6 DEF StuckInv, CreatesBehind, Unrecorded

(* A statement that fails is one of a step that cannot succeed. *)
LEMMA FailsIsStuck ==
  ASSUME TypeInv, Orderly, MigInv, Faultless, StuckInv, NEW m \in Migrators, ExecuteFails(m)
  PROVE  Stuck(at[m]) /\ ~Ran(at[m]) /\ (at[m] \notin Creates => stmt[m] = 1)
<1> DEFINE k == at[m]
           s == Script[k]
           st == Statements(s)[stmt[m]]
<1>1. /\ scenario \in Scenarios /\ k \in DOMAIN Script /\ s \in Steps /\ StepOf(m) = s
      /\ pc[m] = "exec" /\ stmt[m] \in DOMAIN Statements(s)
  BY StepFacts DEF TypeInv, TypeOK, ExecuteFails, AtStatement
<1>2. ~Succeeds(st)
  BY <1>1 DEF ExecuteFails, Faultless
<1>3. /\ Running(m) /\ isReset \in [Migrators -> BOOLEAN] /\ k \in 1 .. Len(Script)
  BY <1>1, ScriptFacts DEF Running, TypeInv, TypeOK
<1>4. Table(k) = s.table
  BY DEF Table
<1>5. CASE s.op = "createTable"
  <2>1. ThenIndexes(s, CreateTable(s)) /\ k \in Creates
    BY <1>1, <1>5, Shapes DEF Creates
  <2>2. Succeeds(CreateTable(s))
    BY DEF Succeeds, CreateTable, Statement
  <2>3. stmt[m] # 1
    BY <1>2, <2>1, <2>2 DEF ThenIndexes
  <2>4. TheTable(Table(k)) \in db
    <3>1. stmt[m] > 1
      BY <1>1, <2>3 DEF TypeInv, TypeOK
    <3> QED BY <1>1, <2>1, <3>1 DEF MigInv, ExecutedSoFar, Faultless
  <2>5. PICK c \in ColumnsOf(s) : st = CreateIndex(s, c)
    BY <1>1, <2>1, <2>3 DEF ThenIndexes
  <2>6. ~(st.needs \subseteq db)
    BY <1>2, <2>5 DEF Succeeds, CreateIndex, Statement
  <2>7. Stuck(k)
    BY <1>1, <2>1, <2>4, <2>6 DEF Stuck
  <2>8. Table(k) \in Created
    BY <2>1, <1>4 DEF Created
  <2>9. isReset[m] => ~Ran(k)
    BY <1>1, <1>3, <2>8 DEF MigInv, Forgotten, Unrecorded
  <2> QED BY <1>1, <2>1, <2>7, <2>9 DEF StuckInv, FirstTime
<1>6. ASSUME s.op \in {"addColumn", "dropColumn"} PROVE ~Ran(k)
  <2>1. Table(k) \notin Created => ~Ran(k)
    BY <1>1, <1>6, RanIsCreated DEF StuckInv
  <2>2. isReset[m] /\ Table(k) \in Created => ~Ran(k)
    BY <1>1, <1>3 DEF MigInv, Forgotten, Unrecorded
  <2> QED BY <1>1, <2>1, <2>2 DEF StuckInv, FirstTime
<1>7. ASSUME s.op \in {"addColumn", "dropColumn"}
      PROVE  TheTable(Table(k)) \in db \/ Table(k) \notin Created
  BY <1>1, <1>3, <1>7, TableExists
<1>8. CASE s.op = "addColumn"
  <2>1. ThenIndexes(s, AddColumns(s))
    BY <1>1, <1>8, Shapes
  <2>2. k \notin Creates
    BY <1>8 DEF Creates
  <2>3. CASE stmt[m] = 1
    <3>1. st = AddColumns(s)
      BY <2>1, <2>3 DEF ThenIndexes
    <3>2. \/ TheTable(Table(k)) \notin db
          \/ \E c \in ColumnsOf(s) : TheColumn(Table(k), c) \in db
      BY <1>2, <1>4, <3>1 DEF Succeeds, AddColumns, Statement
    <3>3. Stuck(k)
      BY <1>7, <1>8, <3>2 DEF Stuck
    <3> QED BY <1>6, <1>8, <2>3, <3>3
  <2>4. CASE stmt[m] # 1
    <3>1. PICK c \in ColumnsOf(s) : st = CreateIndex(s, c)
      BY <1>1, <2>1, <2>4 DEF ThenIndexes
    <3>2. 1 \in 1 .. (stmt[m] - 1)
      BY <1>1, <2>4 DEF TypeInv, TypeOK
    <3>3. Statements(s)[1].adds \ Removed \subseteq db
      BY <1>1, <3>2 DEF MigInv, ExecutedSoFar
    <3>4. TheColumn(Table(k), c) \in Statements(s)[1].adds
      BY <1>4, <2>1 DEF ThenIndexes, AddColumns, Statement
    <3>5. TheColumn(Table(k), c) \in Adds(k)
      BY <2>1, <3>4 DEF Adds, ThenIndexes
    <3>6. TheColumn(Table(k), c) \notin Removed
      BY <1>1, <2>2, <3>5, OrderlyScript DEF Removed
    <3>7. TheColumn(s.table, c) \in db
      BY <1>4, <3>3, <3>4, <3>6
    <3>8. Succeeds(st)
      BY <3>1, <3>7 DEF Succeeds, CreateIndex, Statement
    <3> QED BY <1>2, <3>8
  <2> QED BY <2>3, <2>4
<1>9. CASE s.op = "dropColumn"
  <2>1. Statements(s) = <<DropColumns(s)>>
    BY <1>1, <1>9, Shapes
  <2>2. stmt[m] = 1 /\ st = DropColumns(s)
    BY <1>1, <2>1
  <2>3. \E c \in ColumnsOf(s) : TheColumn(Table(k), c) \notin db
    BY <1>2, <1>4, <2>2 DEF Succeeds, DropColumns, Statement
  <2>4. Stuck(k)
    BY <1>7, <1>9, <2>3 DEF Stuck
  <2> QED BY <1>6, <1>9, <2>2, <2>4
<1>10. CASE s.op = "dropTable"
  <2>1. Statements(s) = <<DropTable(s)>>
    BY <1>1, <1>10, Shapes
  <2>2. st = DropTable(s)
    BY <1>1, <2>1
  <2>3. Succeeds(st)
    BY <2>2 DEF Succeeds, DropTable, Statement
  <2> QED BY <1>2, <2>3
<1> QED BY <1>1, <1>5, <1>8, <1>9, <1>10 DEF Steps

LEMMA ExecuteFailsOnce ==
  ASSUME TypeInv, Orderly, MigInv, Faultless, StuckInv, NEW m \in Migrators, ExecuteFails(m)
  PROVE  StuckInv'
<1>1. /\ pc \in [Migrators -> {"idle", "forget", "drop", "check", "exec", "save"}]
      /\ isSuccess \in [Migrators -> BOOLEAN] /\ isReset \in [Migrators -> BOOLEAN]
  BY DEF TypeInv, TypeOK
<1>2. /\ OnlyCreated /\ FailedIsStuck /\ FirstTime /\ CreatesBehind
      /\ ~scenario.overlap
  BY DEF StuckInv, Faultless
<1>3. UNCHANGED <<scenario, db, history, at, stmt, isReset>> /\ pc[m] = "exec"
  BY DEF ExecuteFails, runVars
<1>4. /\ Script' = Script /\ Creates' = Creates /\ Created' = Created
  BY <1>3, ScriptStays
<1>5. \A j : Ran(j)' = Ran(j) /\ Failed(j)' = Failed(j) /\ Unrecorded(j)' = Unrecorded(j)
  BY <1>3, HistorySame
<1>6. \A n \in Migrators : n # m => pc[n] = "idle"
  BY <1>2, <1>3, Alone
<1>7. /\ \A n \in Migrators : n # m => pc'[n] = "idle"
      /\ pc'[m] = "save" /\ ~isSuccess'[m]
  BY <1>1, <1>6 DEF ExecuteFails
<1>8. OnlyCreated' /\ FailedIsStuck' /\ \A j : Stuck(j)' = Stuck(j)
  BY <1>2, <1>3, <1>4, <1>5, StuckSame DEF FailedIsStuck
<1>9. Stuck(at[m]) /\ ~Ran(at[m])
  BY FailsIsStuck
<1>10. FirstTime'
  BY <1>3, <1>5, <1>7, <1>8, <1>9 DEF FirstTime
<1>11. CreatesBehind'
  <2>1. Running(m)
    BY <1>3 DEF Running
  <2> QED BY <1>2, <1>3, <1>4, <1>5, <1>7, <2>1 DEF CreatesBehind, Running
<1> QED BY <1>8, <1>10, <1>11 DEF StuckInv
LEMMA SaveHistoryOnce ==
  ASSUME TypeInv, Orderly, MigInv, Faultless, StuckInv, NEW m \in Migrators, SaveHistory(m)
  PROVE  StuckInv'
<1>1. /\ pc \in [Migrators -> {"idle", "forget", "drop", "check", "exec", "save"}]
      /\ at \in [Migrators -> DOMAIN Script]
      /\ DOMAIN Script = 1 .. Len(Script) /\ Len(Script) \in Nat
      /\ Creates \subseteq DOMAIN Script
  BY ScriptFacts DEF TypeInv, TypeOK, Creates
<1>2. /\ OnlyCreated /\ FailedIsStuck /\ FirstTime /\ CreatesBehind
      /\ ~scenario.overlap
  BY DEF StuckInv, Faultless
<1>3. UNCHANGED <<scenario, db, stmt, isSuccess, isReset>> /\ pc[m] = "save"
  BY DEF SaveHistory, runVars
<1>4. Script' = Script /\ Creates' = Creates
  BY <1>3, ScriptStays
<1>5. ASSUME NEW j \in DOMAIN Script
      PROVE  /\ Ran(j)' <=> Ran(j) \/ (j = at[m] /\ isSuccess[m])
             /\ Failed(j)' <=> Failed(j) \/ (j = at[m] /\ ~isSuccess[m])
  BY RowSaved
<1>6. \A n \in Migrators : n # m => pc[n] = "idle"
  BY <1>2, <1>3, Alone
<1>7. /\ \A n \in Migrators : n # m => pc'[n] = "idle"
      /\ pc'[m] = "idle" \/ (pc'[m] = "check" /\ at'[m] = at[m] + 1)
  BY <1>1, <1>6 DEF SaveHistory, Advance
<1>8. OnlyCreated' /\ \A j : Stuck(j)' = Stuck(j)
  BY <1>2, <1>3, StuckSame
<1>9. FailedIsStuck'
  <2> SUFFICES ASSUME NEW k \in DOMAIN Script, Failed(k)' PROVE Stuck(k) /\ ~Ran(k)'
    BY <1>4, <1>8 DEF FailedIsStuck
  <2>1. CASE Failed(k)
    BY <1>2, <1>3, <1>5, <2>1 DEF FailedIsStuck, FirstTime
  <2>2. CASE k = at[m] /\ ~isSuccess[m]
    BY <1>2, <1>3, <1>5, <2>2 DEF FirstTime
  <2> QED BY <1>5, <2>1, <2>2
<1>10. FirstTime'
  BY <1>7 DEF FirstTime
<1>11. CreatesBehind'
  <2>1. ASSUME NEW c \in Creates, Running(m)', at'[m] > c PROVE ~Unrecorded(c)'
    <3>1. c = at[m] \/ at[m] > c
      BY <1>1, <1>7, <2>1 DEF Running
    <3>2. at[m] > c => ~Unrecorded(c)
      BY <1>2, <1>3 DEF CreatesBehind, Running
    <3> QED BY <1>1, <1>5, <3>1, <3>2 DEF Unrecorded
  <2> QED BY <1>4, <1>7, <2>1 DEF CreatesBehind, Running
<1> QED BY <1>8, <1>9, <1>10, <1>11 DEF StuckInv

LEMMA CrashOnce ==
  ASSUME TypeInv, MigInv, Faultless, StuckInv, NEW m \in Migrators, Crash(m)
  PROVE  StuckInv'
<1>1. pc \in [Migrators -> {"idle", "forget", "drop", "check", "exec", "save"}]
  BY DEF TypeInv, TypeOK
<1>2. OnlyCreated /\ FailedIsStuck
  BY DEF StuckInv
<1>3. UNCHANGED <<scenario, db, history>> /\ pc[m] # "idle"
  BY DEF Crash, runVars
<1>4. \A n \in Migrators : pc'[n] = "idle"
  BY <1>1, <1>3 DEF Crash, MigInv, OneAtATime, Faultless
<1>5. Script' = Script /\ \A j : Ran(j)' = Ran(j) /\ Failed(j)' = Failed(j)
  BY <1>3, HistorySame, ScriptStays
<1>6. OnlyCreated' /\ FailedIsStuck'
  BY <1>2, <1>3, <1>5, StuckSame DEF FailedIsStuck
<1> QED BY <1>4, <1>6 DEF StuckInv, FirstTime, CreatesBehind, Running

LEMMA FaultlessInit == Init => FaultlessInv
<1> SUFFICES ASSUME Init PROVE StuckInv
  BY DEF FaultlessInv
<1>1. \A k : ~Failed(k)
  BY DEF Init, Failed
<1> QED BY <1>1 DEF Init, StuckInv, OnlyCreated, FailedIsStuck, FirstTime, CreatesBehind, Running

LEMMA FaultlessNext == TypeInv /\ OrderlyInv /\ FaultlessInv /\ [Next]_vars => FaultlessInv'
<1> SUFFICES ASSUME TypeInv, OrderlyInv, FaultlessInv, [Next]_vars, Orderly', Faultless'
             PROVE  StuckInv'
  BY DEF FaultlessInv
<1>1. scenario' = scenario
  BY DEF Next, Start, ResetMigrationTable, ResetTable, Check, Execute, ExecuteFails,
         SaveHistory, Crash, AllRun, vars, runVars
<1>2. Orderly /\ Faultless
  BY <1>1, ScriptStays DEF Faultless
<1>3. MigInv /\ StuckInv
  BY <1>2 DEF OrderlyInv, FaultlessInv
<1>4. ASSUME UNCHANGED vars PROVE StuckInv'
  <2>1. UNCHANGED <<scenario, db, history, pc, at, stmt, isReset, isSuccess>>
    BY <1>4 DEF vars, runVars
  <2>2. /\ Script' = Script /\ Creates' = Creates
        /\ \A x : Statements(x)' = Statements(x)
        /\ \A j : Ran(j)' = Ran(j) /\ Failed(j)' = Failed(j) /\ Unrecorded(j)' = Unrecorded(j)
    BY <2>1, ScriptStays, HistorySame
  <2>3. \A n : StepOf(n)' = StepOf(n)
    BY <2>1, <2>2 DEF StepOf
  <2>4. OnlyCreated' /\ \A j : Stuck(j)' = Stuck(j)
    BY <1>3, <2>1, StuckSame DEF StuckInv
  <2>5. FailedIsStuck' /\ FirstTime' /\ CreatesBehind'
    BY <1>3, <2>1, <2>2, <2>3, <2>4 DEF StuckInv, FailedIsStuck, FirstTime, CreatesBehind, Running
  <2> QED BY <2>4, <2>5 DEF StuckInv
<1>5. ASSUME NEW m \in Migrators, Start(m) PROVE StuckInv'
  BY <1>2, <1>3, <1>5, StartOnce
<1>6. ASSUME NEW m \in Migrators, ResetMigrationTable(m) PROVE StuckInv'
  BY <1>2, <1>3, <1>6, ResetMigrationTableOnce
<1>7. ASSUME NEW m \in Migrators, ResetTable(m) PROVE StuckInv'
  BY <1>2, <1>3, <1>7, ResetTableOnce
<1>8. ASSUME NEW m \in Migrators, Check(m) PROVE StuckInv'
  BY <1>2, <1>3, <1>8, CheckOnce
<1>9. ASSUME NEW m \in Migrators, Execute(m) PROVE StuckInv'
  BY <1>2, <1>3, <1>9, ExecuteOnce
<1>10. ASSUME NEW m \in Migrators, ExecuteFails(m) PROVE StuckInv'
  BY <1>2, <1>3, <1>10, ExecuteFailsOnce
<1>11. ASSUME NEW m \in Migrators, SaveHistory(m) PROVE StuckInv'
  BY <1>2, <1>3, <1>11, SaveHistoryOnce
<1>12. ASSUME NEW m \in Migrators, Crash(m) PROVE StuckInv'
  BY <1>2, <1>3, <1>12, CrashOnce
<1> QED BY <1>4, <1>5, <1>6, <1>7, <1>8, <1>9, <1>10, <1>11, <1>12 DEF Next, AllRun

(* For every orderly script that one program at a time runs with no failure  *)
(* from outside: a step that is recorded as done is not executed again       *)
(* without --reset, however many runs and crashes came before.  A step of    *)
(* several statements that failed has a row too, and the row of any later    *)
(* success would be one of two the look-up may pick (shouldRun, first()): it *)
(* is the schema that keeps such a step from ever succeeding.                *)
THEOREM DoneOnce == Spec => []FaultlessNothingDoneTwice
<1>1. Init => TypeInv /\ OrderlyInv /\ FaultlessInv
  BY TypeInit, OrderlyInit, FaultlessInit
<1>2. TypeInv /\ OrderlyInv /\ FaultlessInv /\ [Next]_vars
        => (TypeInv /\ OrderlyInv /\ FaultlessInv)'
  BY TypeNext, OrderlyNext, FaultlessNext
<1>3. TypeInv /\ OrderlyInv /\ FaultlessInv => FaultlessNothingDoneTwice
  <2> SUFFICES ASSUME TypeInv, Orderly, StuckInv, NEW m \in Migrators,
                      pc[m] = "exec", ~isReset[m], Recorded(at[m])
               PROVE  FALSE
    BY DEF FaultlessInv, FaultlessNothingDoneTwice, NothingDoneTwice, Faultless
  <2>1. at[m] \in DOMAIN Script
    BY DEF TypeInv, TypeOK
  <2>2. Ran(at[m])
    BY <2>1, RowsOfStep DEF Recorded
  <2> QED BY <2>2 DEF StuckInv, FirstTime
<1> QED BY <1>1, <1>2, <1>3, PTL DEF Spec
-----------------------------------------------------------------------------
(* Nothing fails where nothing happens. *)

(* The statements of create never fail when nothing is dropped. *)
LEMMA CreateOnlySucceeds ==
  ASSUME TypeInv, Orderly, MigInv, CreateOnly, NEW m \in Migrators, pc[m] = "exec"
  PROVE  Succeeds(Statements(StepOf(m))[stmt[m]])
<1> DEFINE s == Script[at[m]]
           st == Statements(s)[stmt[m]]
<1>1. /\ scenario \in Scenarios /\ at[m] \in DOMAIN Script /\ StepOf(m) = s
      /\ s.op = "createTable" /\ stmt[m] \in Nat \ {0}
      /\ stmt[m] \in DOMAIN Statements(s)
  BY StepFacts DEF TypeInv, TypeOK, AtStatement, CreateOnly
<1>2. ThenIndexes(s, CreateTable(s))
  BY <1>1, Shapes
<1>3. CASE stmt[m] = 1
  <2>1. st = CreateTable(s)
    BY <1>2, <1>3 DEF ThenIndexes
  <2> QED BY <1>1, <2>1 DEF CreateTable, Statement, Succeeds
<1>4. CASE stmt[m] # 1
  <2>1. PICK c \in ColumnsOf(s) : st = CreateIndex(s, c)
    BY <1>1, <1>2, <1>4 DEF ThenIndexes
  <2>2. 1 \in 1 .. (stmt[m] - 1)
    BY <1>1, <1>4
  <2>3. Statements(s)[1].adds \ Removed \subseteq db
    BY <1>1, <2>2 DEF MigInv, ExecutedSoFar
  <2>4. Removed = {}
    BY <1>1, Shapes DEF Removed, CreateOnly
  <2>5. TheColumn(s.table, c) \in Statements(s)[1].adds
    BY <1>2 DEF ThenIndexes, CreateTable, Statement
  <2>6. st.needs = {TheColumn(s.table, c)} /\ st.lenient
    BY <2>1 DEF CreateIndex, Statement
  <2> QED BY <1>1, <2>3, <2>4, <2>5, <2>6 DEF Succeeds
<1> QED BY <1>3, <1>4

(* No step that is reached is stuck when nothing happens to any run.         *)
LEMMA QuietSucceeds ==
  ASSUME TypeInv, Orderly, MigInv, StuckInv, Applicable, Quiet, QuietInv,
         NEW m \in Migrators, ExecuteFails(m)
  PROVE  FALSE
<1> DEFINE k == at[m]
           s == Script[k]
<1>1. /\ scenario \in Scenarios /\ k \in DOMAIN Script /\ s \in Steps /\ StepOf(m) = s
      /\ pc[m] = "exec"
  BY StepFacts DEF TypeInv, TypeOK, ExecuteFails
<1>2. Faultless /\ ~scenario.overlap
  BY DEF Quiet, Faultless
<1>3. \A n \in Migrators : n # m => pc[n] = "idle"
  BY <1>1, <1>2, Alone
<1>4. Stuck(k) /\ ~Ran(k) /\ (k \notin Creates => stmt[m] = 1)
  BY <1>2, FailsIsStuck
<1>5. \A j : Done(j) => Ran(j)
  BY <1>1, <1>3 DEF Done, DoneBy
<1>6. \A t : ~Dropping(t)
  BY <1>1, <1>3 DEF Dropping
<1>7. CASE s.op = "createTable"
  <2>1. ThenIndexes(s, CreateTable(s)) /\ k \in Creates /\ TheTable(Table(k)) \in db
    BY <1>1, <1>4, <1>7, Shapes DEF Stuck, Creates
  <2>2. PICK i \in DOMAIN Statements(s) : ~(Statements(s)[i].needs \subseteq db)
    BY <1>4, <1>7 DEF Stuck
  <2>3. PICK c \in ColumnsOf(s) : Statements(s)[i].needs = {TheColumn(Table(k), c)}
    <3>1. i # 1
      BY <2>1, <2>2 DEF ThenIndexes, CreateTable, Statement
    <3>2. PICK c \in ColumnsOf(s) : Statements(s)[i] = CreateIndex(s, c)
      BY <2>1, <3>1 DEF ThenIndexes
    <3> QED BY <3>2 DEF CreateIndex, Statement, Table
  <2>4. TheColumn(Table(k), c) \notin db
    BY <2>2, <2>3
  <2>5. TheColumn(Table(k), c) \in Removed /\ TheTable(Table(k)) \notin Removed
    BY <2>1, <2>4 DEF MigInv, TablesWhole
  <2>6. PICK j \in DOMAIN Script : TheColumn(Table(k), c) \in Removes(j)
    BY <2>5 DEF Removed
  <2>7. k < j
    <3>1. TheColumn(Table(k), c) \in Adds(k)
      BY <1>1, <1>7, Shapes
    <3> QED BY <1>1, <2>6, <3>1, OrderlyScript
  <2>8. Table(j) = Table(k)
    BY <1>1, <2>6, OwnTable DEF TheColumn
  <2>9. Script[j].op = "dropColumn"
    <3>1. Script[j].op \in {"createTable", "addColumn"} => Removes(j) = {}
      BY <1>1, Shapes
    <3>2. Script[j].op = "dropTable" => TheTable(Table(j)) \in Removes(j)
      BY <1>1, Shapes
    <3>3. Script[j].op # "dropTable"
      BY <2>5, <2>8, <3>2 DEF Removed
    <3> QED BY <1>1, <2>6, <3>1, <3>3, Shapes DEF Steps
  <2>10. \E d \in ColumnsOf(Script[j]) : TheColumn(Table(j), d) = TheColumn(Table(k), c)
    <3>1. PICK d \in ColumnsOf(Script[j]) : Removes(j) = {TheColumn(Table(j), d), TheIndex(Table(j), d)}
      BY <1>1, <2>9, Shapes
    <3>2. TheColumn(Table(k), c) # TheIndex(Table(j), d)
      BY DEF TheColumn, TheIndex
    <3> QED BY <2>6, <3>1, <3>2
  <2>11. Ran(j)
    BY <1>5, <1>6, <2>1, <2>4, <2>8, <2>9, <2>10 DEF QuietInv, DroppedOnce
  <2> QED BY <1>1, <1>4, <2>7, <2>8, <2>11 DEF QuietInv, InOrder
<1>8. CASE s.op = "addColumn"
  <2>1. Table(k) \in Created
    BY <1>1, <1>8 DEF Applicable, Created, Table
  <2>2. k \notin Creates
    BY <1>8 DEF Creates
  <2>3. PICK c \in ColumnsOf(s) : TheColumn(Table(k), c) \in db
    BY <1>4, <1>8, <2>1, <2>2 DEF Stuck
  <2>4. stmt[m] = 1 /\ ~(stmt[m] > 1)
    BY <1>4, <2>2
  <2>5. Ran(k)
    BY <1>1, <1>3, <1>5, <1>6, <1>8, <2>3, <2>4 DEF QuietInv, AddedOnce
  <2> QED BY <1>4, <2>5
<1>9. CASE s.op = "dropColumn"
  <2>1. PICK c \in Creates : \A d \in ColumnsOf(s) : TheColumn(Table(k), d) \in Adds(c)
    BY <1>1, <1>9 DEF Applicable, Table
  <2>2. PICK d \in ColumnsOf(s) : TheColumn(Table(k), d) \notin db
    BY <1>4, <1>9 DEF Stuck, Creates
  <2>3. Table(k) \in Created
    <3>1. c \in DOMAIN Script
      BY DEF Creates
    <3>2. Table(c) = Table(k)
      BY <1>1, <2>1, <2>2, <3>1, OwnTable DEF TheColumn
    <3> QED BY <3>2 DEF Created, Table
  <2>4. TheTable(Table(k)) \in db
    BY <1>4, <1>9, <2>3 DEF Stuck, Creates
  <2>5. Ran(k)
    BY <1>1, <1>5, <1>6, <1>9, <2>2, <2>4 DEF QuietInv, DroppedOnce
  <2> QED BY <1>4, <2>5
<1>10. CASE s.op = "dropTable"
  BY <1>4, <1>10 DEF Stuck, Creates
<1> QED BY <1>1, <1>7, <1>8, <1>9, <1>10 DEF Steps

(* So a statement that fails in a script that completes was failed from      *)
(* outside.                                                                  *)
LEMMA FailsUnclean ==
  ASSUME TypeInv, MigInv, Faultless => StuckInv, Completable, Quiet => QuietInv,
         NEW m \in Migrators, ExecuteFails(m)
  PROVE  ~Quiet /\ ~clean'[m]
<1>1. Orderly /\ Applicable /\ (CreateOnly \/ Quiet)
  BY DEF Completable, Quiet
<1>2. ~Quiet
  <2>1. Quiet => Faultless
    BY DEF Quiet, Faultless
  <2> QED BY <1>1, <2>1, QuietSucceeds
<1>3. Succeeds(Statements(StepOf(m))[stmt[m]])
  BY <1>1, <1>2, CreateOnlySucceeds DEF ExecuteFails
<1>4. clean' = [clean EXCEPT ![m] = FALSE]
  BY <1>3 DEF ExecuteFails
<1> QED BY <1>2, <1>4 DEF TypeInv, TypeOK
LEMMA OnlyAddedNext ==
  ASSUME TypeInv, OnlyAdded, [Next]_vars
  PROVE  OnlyAdded'
<1>1. scenario' = scenario
  BY DEF Next, Start, ResetMigrationTable, ResetTable, Check, Execute, ExecuteFails,
         SaveHistory, Crash, AllRun, vars, runVars
<1>2. Script' = Script /\ \A k : Adds(k)' = Adds(k)
  BY <1>1, ScriptStays
<1>3. ASSUME NEW m \in Migrators, Execute(m)
      PROVE  db' \subseteq db \cup Adds(at[m]) /\ at[m] \in DOMAIN Script
  BY <1>3, ExecuteBounds
<1>4. \/ db' \subseteq db
      \/ \E m \in Migrators : Execute(m)
  BY DEF Next, Start, ResetMigrationTable, ResetTable, Check, ExecuteFails,
         SaveHistory, Crash, AllRun, vars, runVars
<1> QED BY <1>2, <1>3, <1>4 DEF OnlyAdded

(* What the look-up decides. *)
LEMMA CheckDecides ==
  ASSUME TypeInv, Orderly, NEW m \in Migrators, Check(m)
  PROVE  /\ \A n \in Migrators : n # m => pc'[n] = pc[n] /\ at'[n] = at[n] /\ stmt'[n] = stmt[n]
         /\ \/ pc'[m] = "exec" /\ at'[m] = at[m] /\ stmt'[m] = 1
            \/ pc'[m] = "idle" /\ at[m] = Len(Script) /\ Ran(at[m])
            \/ pc'[m] = "check" /\ at'[m] = at[m] + 1 /\ Ran(at[m])
<1>1. /\ pc \in [Migrators -> {"idle", "forget", "drop", "check", "exec", "save"}]
      /\ at \in [Migrators -> DOMAIN Script] /\ stmt \in [Migrators -> Nat \ {0}]
      /\ StepOf(m) = Script[at[m]]
  BY DEF TypeInv, TypeOK, StepOf
<1>2. CASE ShouldRun(m, TRUE) /\ pc' = [pc EXCEPT ![m] = "exec"]
           /\ stmt' = [stmt EXCEPT ![m] = 1] /\ at' = at
  BY <1>1, <1>2
<1>3. CASE ShouldRun(m, FALSE) /\ Advance(m) /\ stmt' = stmt
  <2>1. \E row \in RowsOf(Script[at[m]]) : row.status
    BY <1>1, <1>3 DEF ShouldRun
  <2>2. Ran(at[m])
    BY <1>1, <2>1, RowsOfStep
  <2> QED BY <1>1, <1>3, <2>2 DEF Advance
<1> QED BY <1>2, <1>3 DEF Check

LEMMA BehindNext ==
  ASSUME TypeInv, Orderly, MigInv, RanBehind, SavesSuccess, [Next]_vars,
         \A m \in Migrators : ExecuteFails(m) => ~clean'[m]
  PROVE  RanBehind' /\ SavesSuccess'
<1>1. /\ pc \in [Migrators -> {"idle", "forget", "drop", "check", "exec", "save"}]
      /\ at \in [Migrators -> DOMAIN Script]
      /\ isSuccess \in [Migrators -> BOOLEAN] /\ clean \in [Migrators -> BOOLEAN]
      /\ DOMAIN Script = 1 .. Len(Script) /\ Len(Script) \in Nat
  BY ScriptFacts DEF TypeInv, TypeOK
<1>2. scenario' = scenario
  BY DEF Next, Start, ResetMigrationTable, ResetTable, Check, Execute, ExecuteFails,
         SaveHistory, Crash, AllRun, vars, runVars
<1>3. Script' = Script
  BY <1>2, ScriptStays
<1>4. history' = history => \A j : Ran(j)' = Ran(j)
  BY <1>2, HistorySame
<1>5. ASSUME UNCHANGED vars PROVE RanBehind' /\ SavesSuccess'
  <2>1. UNCHANGED <<history, pc, at, isSuccess, clean>>
    BY <1>5 DEF vars, runVars
  <2> QED BY <1>3, <1>4, <2>1 DEF RanBehind, SavesSuccess, Running
<1>6. ASSUME NEW m \in Migrators, Start(m) PROVE RanBehind' /\ SavesSuccess'
  <2>1. /\ \A n \in Migrators : n # m => pc'[n] = pc[n] /\ at'[n] = at[n] /\ clean'[n] = clean[n]
        /\ pc'[m] = "forget" \/ (pc'[m] = "check" /\ at'[m] = 1)
        /\ UNCHANGED <<history, isSuccess>>
    BY <1>1, <1>6 DEF Start
  <2>2. ASSUME NEW n \in Migrators, Running(n)', clean'[n], NEW j \in DOMAIN Script, j < at'[n]
        PROVE  Ran(j)'
    <3>1. CASE n = m
      <4>1. FALSE
        BY <1>1, <2>1, <2>2, <3>1 DEF Running
      <4> QED BY <4>1
    <3>2. CASE n # m
      BY <1>4, <2>1, <2>2, <3>2 DEF RanBehind, Running
    <3> QED BY <3>1, <3>2
  <2>3. SavesSuccess'
    BY <2>1 DEF SavesSuccess
  <2> QED BY <1>3, <2>2, <2>3 DEF RanBehind
<1>7. ASSUME NEW m \in Migrators, ResetMigrationTable(m) PROVE RanBehind' /\ SavesSuccess'
  <2>1. \A n \in Migrators : n # m => pc[n] = "idle"
    BY <1>7, Alone DEF ResetMigrationTable, Resetting
  <2>2. \A n \in Migrators : pc'[n] \in {"idle", "drop"}
    BY <1>1, <1>7, <2>1 DEF ResetMigrationTable
  <2> QED BY <2>2 DEF RanBehind, SavesSuccess, Running
<1>8. ASSUME NEW m \in Migrators, ResetTable(m) PROVE RanBehind' /\ SavesSuccess'
  <2>1. /\ \A n \in Migrators : n # m => pc'[n] = pc[n] /\ at'[n] = at[n]
        /\ pc'[m] = "forget" \/ (pc'[m] = "check" /\ at'[m] = 1)
    BY <1>1, <1>8 DEF ResetTable
  <2>2. history' = history /\ isSuccess' = isSuccess /\ clean' = clean
    BY <1>8 DEF ResetTable
  <2>3. \A j \in DOMAIN Script : ~(j < 1)
    BY <1>1
  <2>4. RanBehind'
    BY <1>3, <1>4, <2>1, <2>2, <2>3 DEF RanBehind, Running
  <2>5. SavesSuccess'
    BY <2>1, <2>2 DEF SavesSuccess
  <2> QED BY <2>4, <2>5
<1>9. ASSUME NEW m \in Migrators, Check(m) PROVE RanBehind' /\ SavesSuccess'
  <2>1. UNCHANGED <<history, isSuccess, clean>> /\ pc[m] = "check"
    BY <1>9 DEF Check
  <2>2. /\ \A n \in Migrators : n # m => pc'[n] = pc[n] /\ at'[n] = at[n]
        /\ \/ pc'[m] = "exec" /\ at'[m] = at[m]
           \/ pc'[m] = "idle"
           \/ pc'[m] = "check" /\ at'[m] = at[m] + 1 /\ Ran(at[m])
    BY <1>9, CheckDecides
  <2>3. \A j \in DOMAIN Script : j < at[m] + 1 => j < at[m] \/ j = at[m]
    BY <1>1
  <2> QED BY <1>3, <1>4, <2>1, <2>2, <2>3 DEF RanBehind, SavesSuccess, Running
<1>10. ASSUME NEW m \in Migrators, Execute(m) PROVE RanBehind' /\ SavesSuccess'
  <2>1. UNCHANGED <<history, at, clean>> /\ pc[m] = "exec"
    BY <1>10 DEF Execute
  <2>2. /\ \A n \in Migrators : n # m => pc'[n] = pc[n] /\ isSuccess'[n] = isSuccess[n]
        /\ pc'[m] = "exec" \/ (pc'[m] = "save" /\ isSuccess'[m])
    BY <1>1, <1>10 DEF Execute
  <2> QED BY <1>3, <1>4, <2>1, <2>2 DEF RanBehind, SavesSuccess, Running
<1>11. ASSUME NEW m \in Migrators, ExecuteFails(m) PROVE RanBehind' /\ SavesSuccess'
  <2>1. UNCHANGED <<history, at>>
    BY <1>11 DEF ExecuteFails
  <2>2. /\ \A n \in Migrators : n # m =>
             pc'[n] = pc[n] /\ isSuccess'[n] = isSuccess[n] /\ clean'[n] = clean[n]
        /\ ~clean'[m]
    BY <1>1, <1>11 DEF ExecuteFails
  <2> QED BY <1>3, <1>4, <2>1, <2>2 DEF RanBehind, SavesSuccess, Running
<1>12. ASSUME NEW m \in Migrators, SaveHistory(m) PROVE RanBehind' /\ SavesSuccess'
  <2>1. UNCHANGED <<isSuccess, clean>> /\ pc[m] = "save"
    BY <1>12 DEF SaveHistory
  <2>2. \A j \in DOMAIN Script : Ran(j)' <=> Ran(j) \/ (j = at[m] /\ isSuccess[m])
    BY <1>12, RowSaved
  <2>3. /\ \A n \in Migrators : n # m => pc'[n] = pc[n] /\ at'[n] = at[n]
        /\ pc'[m] = "idle" \/ (pc'[m] = "check" /\ at'[m] = at[m] + 1)
    BY <1>1, <1>12 DEF SaveHistory, Advance
  <2>4. \A j \in DOMAIN Script : j < at[m] + 1 => j < at[m] \/ j = at[m]
    BY <1>1
  <2> QED BY <1>3, <2>1, <2>2, <2>3, <2>4 DEF RanBehind, SavesSuccess, Running
<1>13. ASSUME NEW m \in Migrators, Crash(m) PROVE RanBehind' /\ SavesSuccess'
  <2>1. /\ \A n \in Migrators : n # m => pc'[n] = pc[n] /\ at'[n] = at[n] /\ clean'[n] = clean[n]
        /\ pc'[m] = "idle"
        /\ UNCHANGED <<history, isSuccess>>
    BY <1>1, <1>13 DEF Crash
  <2> QED BY <1>3, <1>4, <2>1 DEF RanBehind, SavesSuccess, Running
<1> QED BY <1>5, <1>6, <1>7, <1>8, <1>9, <1>10, <1>11, <1>12, <1>13 DEF Next, AllRun
(* An action that leaves the schema alone keeps what is said of the columns. *)
LEMMA ColumnsSame ==
  ASSUME scenario' = scenario, db' = db, DroppedOnce, AddedOnce,
         \A k \in DOMAIN Script :
           Done(k) \/ Dropping(Table(k)) => Done(k)' \/ Dropping(Table(k))',
         \A m \in Migrators : pc[m] = "exec" =>
           pc'[m] = "exec" /\ at'[m] = at[m] /\ stmt'[m] = stmt[m]
  PROVE  DroppedOnce' /\ AddedOnce'
<1>1. Script' = Script /\ \A k : Table(k)' = Table(k)
  BY ScriptStays
<1>2. DroppedOnce'
  BY <1>1 DEF DroppedOnce
<1>3. AddedOnce'
  BY <1>1 DEF AddedOnce
<1> QED BY <1>2, <1>3

LEMMA ResetMigrationTableQuiet ==
  ASSUME TypeInv, MigInv, Quiet, QuietInv, NEW m \in Migrators, ResetMigrationTable(m)
  PROVE  QuietInv'
<1>1. /\ pc \in [Migrators -> {"idle", "forget", "drop", "check", "exec", "save"}]
      /\ StepOf(m) = Script[at[m]] /\ \A k : Script[k].table = Table(k)
  BY DEF TypeInv, TypeOK, StepOf, Table
<1>2. AllClean /\ InOrder /\ DroppedOnce /\ AddedOnce
  BY DEF QuietInv
<1>3. UNCHANGED <<scenario, db, at, stmt, clean>> /\ pc[m] = "forget"
  BY DEF ResetMigrationTable, runVars
<1>4. Script' = Script /\ \A k : Table(k)' = Table(k)
  BY <1>3, ScriptStays
<1>5. \A n \in Migrators : n # m => pc[n] = "idle"
  BY <1>3 DEF MigInv, OneAtATime, Quiet
<1>6. \A k \in DOMAIN Script : Ran(k)' <=> Ran(k) /\ Table(k) # Table(at[m])
  <2>1. \A k : Row(Script[k], TRUE).name = Table(k)
    BY DEF Row, Table
  <2> QED BY <1>1, <1>4, <2>1 DEF Ran, ResetMigrationTable
<1>7. pc'[m] = "drop" /\ \A n \in Migrators : n # m => pc'[n] = "idle"
  BY <1>1, <1>5 DEF ResetMigrationTable
<1>8. AllClean'
  BY <1>2, <1>3 DEF AllClean
<1>9. InOrder'
  BY <1>2, <1>4, <1>6 DEF InOrder
<1>10. \A k \in DOMAIN Script : Done(k) \/ Dropping(Table(k)) => Done(k)' \/ Dropping(Table(k))'
  <2> SUFFICES ASSUME NEW k \in DOMAIN Script, Done(k) \/ Dropping(Table(k))
               PROVE  Done(k)' \/ Dropping(Table(k))'
    OBVIOUS
  <2>1. Ran(k)
    BY <1>3, <1>5 DEF Done, DoneBy, Dropping
  <2>2. Ran(k)' \/ Table(k) = Table(at[m])
    BY <1>6, <2>1
  <2>3. Table(at[m])' = Table(at[m])
    BY <1>3, <1>4 DEF Table
  <2> QED BY <1>4, <1>7, <2>2, <2>3 DEF Done, Dropping
<1>11. DroppedOnce' /\ AddedOnce'
  BY <1>2, <1>3, <1>5, <1>10, ColumnsSame
<1> QED BY <1>8, <1>9, <1>11 DEF QuietInv

LEMMA ResetTableQuiet ==
  ASSUME TypeInv, MigInv, Quiet, QuietInv, NEW m \in Migrators, ResetTable(m)
  PROVE  QuietInv'
<1>1. /\ pc \in [Migrators -> {"idle", "forget", "drop", "check", "exec", "save"}]
      /\ at \in [Migrators -> DOMAIN Script]
      /\ StepOf(m) = Script[at[m]] /\ \A k : Script[k].table = Table(k)
  BY DEF TypeInv, TypeOK, StepOf, Table
<1>2. AllClean /\ InOrder /\ DroppedOnce /\ AddedOnce
  BY DEF QuietInv
<1>3. UNCHANGED <<scenario, history, stmt, clean>> /\ pc[m] = "drop"
  BY DEF ResetTable, runVars
<1>4. Script' = Script /\ \A k : Table(k)' = Table(k)
  BY <1>3, ScriptStays
<1>5. \A n \in Migrators : n # m => pc[n] = "idle"
  BY <1>3 DEF MigInv, OneAtATime, Quiet
<1>6. \A k : Ran(k)' = Ran(k)
  BY <1>3, HistorySame
<1>7. AllClean' /\ InOrder'
  BY <1>2, <1>3, <1>4, <1>6 DEF AllClean, InOrder
<1>8. \A k : Done(k) \/ Dropping(Table(k)) => Ran(k) \/ Table(k) = Table(at[m])
  BY <1>3, <1>5 DEF Done, DoneBy, Dropping
<1>9. db' = db \ OfTable(Table(at[m]))
  BY <1>1 DEF ResetTable
<1>10. ASSUME NEW k \in DOMAIN Script, NEW c \in ColumnsOf(Script[k])
       PROVE  /\ TheColumn(Table(k), c) \in OfTable(Table(at[m])) <=> Table(k) = Table(at[m])
              /\ TheTable(Table(k)) \in OfTable(Table(at[m])) <=> Table(k) = Table(at[m])
  <2>1. /\ \A t : TheTable(t)[1] = t
        /\ TheColumn(Table(k), c)[1] = Table(k)
    BY DEF TheTable, TheColumn
  <2>2. TheColumn(Table(k), c) \in ObjectsOf(Script[k])
    BY DEF ObjectsOf, Table
  <2>3. Script[at[m]].op = "createTable"
    BY <1>3 DEF MigInv, ResetsAllowed, Resetting, Creates
  <2>4. TheTable(Table(at[m])) \in ObjectsOf(Script[at[m]])
    BY <2>3 DEF ObjectsOf, Table
  <2> QED BY <1>1, <2>1, <2>2, <2>4 DEF OfTable
<1>11. DroppedOnce'
  <2> SUFFICES ASSUME NEW k \in DOMAIN Script, NEW c \in ColumnsOf(Script[k]),
                      Script[k].op = "dropColumn", TheTable(Table(k)) \in db'
               PROVE  TheColumn(Table(k), c) \in db' \/ Ran(k)
    BY <1>4, <1>6 DEF DroppedOnce, Done
  <2>1. Table(k) # Table(at[m]) /\ TheTable(Table(k)) \in db
    BY <1>9, <1>10
  <2>2. TheColumn(Table(k), c) \in db \/ Ran(k)
    BY <1>2, <1>8, <2>1 DEF DroppedOnce
  <2> QED BY <1>9, <1>10, <2>1, <2>2
<1>12. AddedOnce'
  <2> SUFFICES ASSUME NEW k \in DOMAIN Script, NEW c \in ColumnsOf(Script[k]),
                      Script[k].op = "addColumn", TheColumn(Table(k), c) \in db'
               PROVE  Ran(k)
    BY <1>4, <1>6 DEF AddedOnce, Done
  <2>1. Table(k) # Table(at[m]) /\ TheColumn(Table(k), c) \in db
    BY <1>9, <1>10
  <2>2. Done(k) \/ Dropping(Table(k))
    BY <1>2, <1>3, <1>5, <2>1 DEF AddedOnce
  <2> QED BY <1>8, <2>1, <2>2
<1> QED BY <1>7, <1>11, <1>12 DEF QuietInv

(* Starting, looking up and saving. *)
LEMMA StartQuiet ==
  ASSUME TypeInv, MigInv, Quiet, QuietInv, NEW m \in Migrators, Start(m)
  PROVE  QuietInv'
<1>1. AllClean /\ InOrder /\ DroppedOnce /\ AddedOnce
  BY DEF QuietInv
<1>2. UNCHANGED <<scenario, db, history, stmt>>
  BY DEF Start
<1>3. Script' = Script /\ \A k : Table(k)' = Table(k) /\ Ran(k)' = Ran(k)
  BY <1>2, HistorySame, ScriptStays
<1>4. \A n \in Migrators : pc[n] = "idle"
  BY DEF Start, Quiet
<1>5. AllClean' /\ InOrder'
  BY <1>1, <1>3 DEF AllClean, InOrder, Start, TypeInv, TypeOK
<1>6. \A k : Done(k) \/ Dropping(Table(k)) => Done(k)'
  BY <1>3, <1>4 DEF Done, DoneBy, Dropping
<1>7. DroppedOnce' /\ AddedOnce'
  BY <1>1, <1>2, <1>4, <1>6, ColumnsSame
<1> QED BY <1>5, <1>7 DEF QuietInv

LEMMA CheckQuiet ==
  ASSUME TypeInv, MigInv, Quiet, QuietInv, NEW m \in Migrators, Check(m)
  PROVE  QuietInv'
<1>1. AllClean /\ InOrder /\ DroppedOnce /\ AddedOnce
  BY DEF QuietInv
<1>2. UNCHANGED <<scenario, db, history, clean>> /\ pc[m] = "check"
  BY DEF Check, runVars
<1>3. Script' = Script /\ \A k : Table(k)' = Table(k) /\ Ran(k)' = Ran(k)
  BY <1>2, HistorySame, ScriptStays
<1>4. \A n \in Migrators : n # m => pc[n] = "idle"
  BY <1>2 DEF MigInv, OneAtATime, Quiet
<1>5. AllClean' /\ InOrder'
  BY <1>1, <1>2, <1>3 DEF AllClean, InOrder
<1>6. \A k : Done(k) \/ Dropping(Table(k)) => Done(k)'
  BY <1>2, <1>3, <1>4 DEF Done, DoneBy, Dropping
<1>7. DroppedOnce' /\ AddedOnce'
  BY <1>1, <1>2, <1>4, <1>6, ColumnsSame
<1> QED BY <1>5, <1>7 DEF QuietInv

LEMMA SaveHistoryQuiet ==
  ASSUME TypeInv, Orderly, MigInv, Quiet, QuietInv, RanBehind, SavesSuccess,
         NEW m \in Migrators, SaveHistory(m)
  PROVE  QuietInv'
<1>1. AllClean /\ InOrder /\ DroppedOnce /\ AddedOnce
  BY DEF QuietInv
<1>2. UNCHANGED <<scenario, db, stmt, clean>> /\ pc[m] = "save"
  BY DEF SaveHistory, runVars
<1>3. Script' = Script /\ \A k : Table(k)' = Table(k)
  BY <1>2, ScriptStays
<1>4. \A n \in Migrators : n # m => pc[n] = "idle"
  BY <1>2 DEF MigInv, OneAtATime, Quiet
<1>5. /\ isSuccess[m]
      /\ \A j \in DOMAIN Script : j < at[m] => Ran(j)
  BY <1>1, <1>2 DEF AllClean, SavesSuccess, RanBehind, Running
<1>6. \A j \in DOMAIN Script : Ran(j)' <=> Ran(j) \/ j = at[m]
  BY <1>5, RowSaved
<1>7. AllClean' /\ InOrder'
  BY <1>1, <1>2, <1>3, <1>5, <1>6 DEF AllClean, InOrder
<1>8. \A k \in DOMAIN Script : Done(k) \/ Dropping(Table(k)) => Done(k)'
  BY <1>2, <1>4, <1>6 DEF Done, DoneBy, Dropping
<1>9. DroppedOnce' /\ AddedOnce'
  BY <1>1, <1>2, <1>4, <1>8, ColumnsSame
<1> QED BY <1>7, <1>9 DEF QuietInv
(* A table is created with the columns that its create step has. *)
LEMMA CreatedWithColumns ==
  ASSUME TypeInv, Orderly, Applicable, NEW m \in Migrators, Execute(m),
         NEW k \in DOMAIN Script, Script[k].op = "dropColumn", NEW c \in ColumnsOf(Script[k]),
         TheTable(Table(k)) \in db', TheTable(Table(k)) \notin db
  PROVE  TheColumn(Table(k), c) \in db'
<1> DEFINE j == at[m]
           s == Script[j]
<1>1. /\ scenario \in Scenarios /\ j \in DOMAIN Script
      /\ db' \subseteq db \cup Adds(j)
  BY ExecuteBounds DEF TypeInv, TypeOK
<1>2. s.op = "createTable" /\ Table(j) = Table(k) /\ j \in Creates
  BY <1>1, TableSteps DEF Creates
<1>3. CreatesTable(m, j)
  <2>1. \A t, u, d : TheTable(t) # TheIndex(u, d)
    BY DEF TheTable, TheIndex
  <2>2. ~CreatesNothing(m, j) /\ ~CreatesIndex(m, j)
    BY <1>2, <2>1 DEF CreatesNothing, CreatesIndex
  <2> QED BY <1>2, <2>2, ExecuteEffect DEF AddsColumns, DropsColumn, DropsTable
<1>4. PICK a \in Creates : TheColumn(Table(k), c) \in Adds(a)
  BY DEF Applicable, Table
<1>5. a \in DOMAIN Script
  BY DEF Creates
<1>6. a = j
  <2>1. Table(a) = Table(k)
    BY <1>1, <1>4, <1>5, OwnTable DEF TheColumn
  <2> QED BY <1>1, <1>2, <1>5, <2>1, OrderlyScript
<1>7. PICK n \in DOMAIN Statements(s) : TheColumn(Table(k), c) \in Statements(s)[n].adds
  BY <1>4, <1>6 DEF Adds
<1>8. n = 1
  <2>1. \A u, d : TheColumn(Table(k), c) # TheIndex(u, d)
    BY DEF TheColumn, TheIndex
  <2>2. \A d : CreateIndex(s, d).adds = {TheIndex(s.table, d)}
    BY DEF CreateIndex, Statement
  <2>3. ThenIndexes(s, CreateTable(s))
    BY <1>1, <1>2, Shapes
  <2> QED BY <1>7, <2>1, <2>2, <2>3 DEF ThenIndexes
<1>9. Statements(s)[1] = CreateTable(s)
  BY <1>1, <1>2, Shapes DEF ThenIndexes
<1> QED BY <1>3, <1>7, <1>8, <1>9 DEF CreatesTable

LEMMA ExecuteQuiet ==
  ASSUME TypeInv, Orderly, Applicable, MigInv, Quiet, QuietInv, NEW m \in Migrators, Execute(m)
  PROVE  QuietInv'
<1> DEFINE j == at[m]
<1>1. /\ scenario \in Scenarios /\ j \in DOMAIN Script /\ StepOf(m) = Script[j]
      /\ pc \in [Migrators -> {"idle", "forget", "drop", "check", "exec", "save"}]
      /\ stmt \in [Migrators -> Nat \ {0}] /\ isSuccess \in [Migrators -> BOOLEAN]
      /\ db' \subseteq db \cup Adds(j) /\ db \ Removes(j) \subseteq db'
  BY ExecuteBounds DEF TypeInv, TypeOK, StepOf
<1>2. AllClean /\ InOrder /\ DroppedOnce /\ AddedOnce
  BY DEF QuietInv
<1>3. UNCHANGED <<scenario, history, at, clean>> /\ pc[m] = "exec"
  BY DEF Execute, runVars
<1>4. /\ Script' = Script
      /\ \A k : Table(k)' = Table(k) /\ Ran(k)' = Ran(k)
  BY <1>3, HistorySame, ScriptStays
<1>5. \A n \in Migrators : n # m => pc[n] = "idle"
  BY <1>3 DEF MigInv, OneAtATime, Quiet
<1>6. \A k : (Done(k) \/ Dropping(Table(k)) => Ran(k)) /\ (Ran(k) => Done(k)')
  BY <1>3, <1>4, <1>5 DEF Done, DoneBy, Dropping
<1>7. AllClean' /\ InOrder'
  BY <1>2, <1>3, <1>4 DEF AllClean, InOrder
<1>8. \/ pc'[m] = "exec" /\ stmt'[m] > 1 /\ stmt[m] < Len(Statements(Script[j]))
      \/ Done(j)'
  <2>1. \/ pc'[m] = "exec" /\ stmt'[m] = stmt[m] + 1 /\ stmt[m] < Len(Statements(Script[j]))
        \/ pc'[m] = "save" /\ isSuccess'[m]
    BY <1>1, <1>3 DEF Execute
  <2>2. stmt[m] + 1 > 1
    BY <1>1
  <2>3. pc'[m] = "save" /\ isSuccess'[m] => Done(j)'
    BY <1>3 DEF Done, DoneBy
  <2> QED BY <2>1, <2>2, <2>3
<1>9. AddedOnce'
  <2> SUFFICES ASSUME NEW k \in DOMAIN Script, NEW c \in ColumnsOf(Script[k]),
                      Script[k].op = "addColumn", TheColumn(Table(k), c) \in db'
               PROVE  Ran(k) \/ k = j
    BY <1>3, <1>4, <1>6, <1>8 DEF AddedOnce
  <2>1. CASE TheColumn(Table(k), c) \in db
    BY <1>2, <1>5, <1>6, <2>1 DEF AddedOnce
  <2>2. CASE TheColumn(Table(k), c) \notin db
    <3>1. TheColumn(Table(k), c) \in Adds(k)
      BY <1>1, Shapes
    <3> QED BY <1>1, <2>2, <3>1 DEF Orderly
  <2> QED BY <2>1, <2>2
<1>10. DroppedOnce'
  <2> SUFFICES ASSUME NEW k \in DOMAIN Script, NEW c \in ColumnsOf(Script[k]),
                      Script[k].op = "dropColumn", TheTable(Table(k)) \in db'
               PROVE  TheColumn(Table(k), c) \in db' \/ Done(k)'
    BY <1>4 DEF DroppedOnce
  <2>1. CASE TheTable(Table(k)) \notin db
    BY <2>1, CreatedWithColumns
  <2>2. CASE TheTable(Table(k)) \in db
    <3>1. TheColumn(Table(k), c) \in db \/ Done(k)'
      BY <1>2, <1>6, <2>2 DEF DroppedOnce
    <3>2. ASSUME TheColumn(Table(k), c) \in Removes(j) PROVE Done(k)'
      <4>1. TheColumn(Table(k), c) \in Removes(k)
        BY <1>1, Shapes
      <4>2. k = j
        BY <1>1, <3>2, <4>1, OrderlyScript
      <4>3. Len(Statements(Script[k])) = 1
        BY <1>1, Shapes
      <4>4. ~(stmt[m] < 1)
        BY <1>1
      <4> QED BY <1>3, <1>8, <4>2, <4>3, <4>4
    <3> QED BY <1>1, <3>1, <3>2
  <2> QED BY <2>1, <2>2
<1> QED BY <1>7, <1>9, <1>10 DEF QuietInv
-----------------------------------------------------------------------------
(* Every run that nothing happens to brings the schema to its target. *)

LEMMA CompleteInit == Init => CompleteInv
<1> SUFFICES ASSUME Init
             PROVE  OnlyAdded /\ RanBehind /\ SavesSuccess /\ QuietInv
  BY DEF CompleteInv
<1>1. \A k : ~Ran(k)
  BY DEF Init, Ran
<1>2. OnlyAdded /\ RanBehind /\ SavesSuccess
  BY DEF Init, OnlyAdded, RanBehind, SavesSuccess, Running
<1>3. AllClean /\ DroppedOnce /\ AddedOnce
  BY DEF Init, AllClean, DroppedOnce, AddedOnce
<1>4. InOrder
  BY <1>1 DEF InOrder
<1> QED BY <1>2, <1>3, <1>4 DEF QuietInv

LEMMA ScenarioStays ==
  ASSUME scenario' = scenario
  PROVE  Completable' = Completable /\ Quiet' = Quiet /\ Target' = Target
<1>1. /\ Script' = Script /\ Creates' = Creates /\ Orderly' = Orderly
      /\ \A k : Adds(k)' = Adds(k) /\ Leaves(k)' = Leaves(k)
  BY ScriptStays
<1>2. Applicable' = Applicable
  BY <1>1 DEF Applicable
<1>3. CreateOnly' = CreateOnly
  BY <1>1 DEF CreateOnly
<1> QED BY <1>1, <1>2, <1>3 DEF Completable, Quiet, Target

LEMMA QuietNext ==
  ASSUME TypeInv, MigInv, StuckInv, Completable, RanBehind, SavesSuccess,
         Quiet, QuietInv, [Next]_vars
  PROVE  QuietInv'
<1>1. Orderly /\ Applicable
  BY DEF Completable
<1>2. ASSUME UNCHANGED vars PROVE QuietInv'
  <2>1. UNCHANGED <<scenario, db, history, pc, at, stmt, isSuccess, clean>>
    BY <1>2 DEF vars, runVars
  <2>2. Script' = Script /\ \A k : Table(k)' = Table(k) /\ Ran(k)' = Ran(k)
    BY <2>1, HistorySame, ScriptStays
  <2>3. AllClean' /\ InOrder'
    BY <2>1, <2>2 DEF QuietInv, AllClean, InOrder
  <2>4. \A k \in DOMAIN Script : Done(k) => Done(k)'
    BY <2>1, <2>2 DEF Done, DoneBy
  <2>5. \A k \in DOMAIN Script : Dropping(Table(k)) => Dropping(Table(k))'
    BY <2>1, <2>2 DEF Dropping, Table
  <2>6. DroppedOnce' /\ AddedOnce'
    BY <2>1, <2>4, <2>5, ColumnsSame DEF QuietInv
  <2> QED BY <2>3, <2>6 DEF QuietInv
<1>3. ASSUME NEW m \in Migrators, Start(m) PROVE QuietInv'
  BY <1>3, StartQuiet
<1>4. ASSUME NEW m \in Migrators, ResetMigrationTable(m) PROVE QuietInv'
  BY <1>4, ResetMigrationTableQuiet
<1>5. ASSUME NEW m \in Migrators, ResetTable(m) PROVE QuietInv'
  BY <1>5, ResetTableQuiet
<1>6. ASSUME NEW m \in Migrators, Check(m) PROVE QuietInv'
  BY <1>6, CheckQuiet
<1>7. ASSUME NEW m \in Migrators, Execute(m) PROVE QuietInv'
  BY <1>1, <1>7, ExecuteQuiet
<1>8. ASSUME NEW m \in Migrators, ExecuteFails(m) PROVE QuietInv'
  BY <1>1, <1>8, QuietSucceeds
<1>9. ASSUME NEW m \in Migrators, SaveHistory(m) PROVE QuietInv'
  BY <1>1, <1>9, SaveHistoryQuiet
<1>10. ASSUME NEW m \in Migrators, Crash(m) PROVE QuietInv'
  BY <1>10 DEF Crash, Quiet
<1> QED BY <1>2, <1>3, <1>4, <1>5, <1>6, <1>7, <1>8, <1>9, <1>10 DEF Next, AllRun

LEMMA CompleteNext ==
  TypeInv /\ OrderlyInv /\ FaultlessInv /\ CompleteInv /\ [Next]_vars => CompleteInv'
<1> SUFFICES ASSUME TypeInv, OrderlyInv, FaultlessInv, CompleteInv, [Next]_vars, Completable'
             PROVE  OnlyAdded' /\ RanBehind' /\ SavesSuccess' /\ (Quiet' => QuietInv')
  BY DEF CompleteInv
<1>1. scenario' = scenario
  BY DEF Next, Start, ResetMigrationTable, ResetTable, Check, Execute, ExecuteFails,
         SaveHistory, Crash, AllRun, vars, runVars
<1>2. Completable /\ Quiet' = Quiet
  BY <1>1, ScenarioStays
<1>3. /\ Orderly /\ MigInv /\ (Faultless => StuckInv) /\ (Quiet => Faultless)
      /\ OnlyAdded /\ RanBehind /\ SavesSuccess /\ (Quiet => QuietInv)
  BY <1>2 DEF Completable, OrderlyInv, FaultlessInv, CompleteInv, Quiet, Faultless
<1>4. OnlyAdded'
  BY <1>3, OnlyAddedNext
<1>5. RanBehind' /\ SavesSuccess'
  BY <1>2, <1>3, FailsUnclean, BehindNext
<1>6. Quiet => QuietInv'
  BY <1>2, <1>3, QuietNext
<1> QED BY <1>2, <1>4, <1>5, <1>6

(* A script whose steps are all done has brought the schema to its target.   *)
LEMMA AllRanTarget ==
  ASSUME TypeInv, Orderly, MigInv, OnlyAdded, \A k \in DOMAIN Script : Ran(k)
  PROVE  db = Target
<1>1. \A k \in DOMAIN Script : Kept(k)
  BY DEF MigInv, DoneIsKept, Done
<1>2. Target \subseteq db
  <2>1. \A k \in DOMAIN Script : Leaves(k) \subseteq db
    BY <1>1, KeptMatches
  <2> QED BY <2>1 DEF Target
<1>3. ASSUME NEW o \in db PROVE o \in Target
  <2>1. PICK k \in DOMAIN Script : o \in Adds(k)
    BY DEF OnlyAdded
  <2>2. \A j \in DOMAIN Script : o \notin Removes(j)
    BY <1>1 DEF Kept
  <2> QED BY <2>1, <2>2 DEF Leaves, Target
<1> QED BY <1>2, <1>3

AllRan == Completable /\ (\A k \in DOMAIN Script : Ran(k)) => db = Target

(* The last step of a run to which nothing happened: all steps are done.     *)
LEMMA LastStep ==
  ASSUME TypeInv, Orderly, MigInv, RanBehind, SavesSuccess, [Next]_vars,
         NEW m \in Migrators, pc[m] # "idle", pc'[m] = "idle", clean'[m]
  PROVE  \A k \in DOMAIN Script : Ran(k)'
<1>1. /\ pc \in [Migrators -> {"idle", "forget", "drop", "check", "exec", "save"}]
      /\ at \in [Migrators -> DOMAIN Script] /\ clean \in [Migrators -> BOOLEAN]
      /\ DOMAIN Script = 1 .. Len(Script) /\ Len(Script) \in Nat
  BY ScriptFacts DEF TypeInv, TypeOK
<1>2. \A k \in DOMAIN Script : k < Len(Script) \/ k = Len(Script)
  BY <1>1
<1>3. CASE Check(m)
  <2>1. UNCHANGED <<scenario, history, clean>> /\ pc[m] = "check"
    BY <1>3 DEF Check, runVars
  <2>2. at[m] = Len(Script) /\ Ran(at[m])
    BY <1>3, CheckDecides
  <2>3. \A k \in DOMAIN Script : k < at[m] => Ran(k)
    BY <2>1 DEF RanBehind, Running
  <2> QED BY <1>2, <2>1, <2>2, <2>3, HistorySame
<1>4. CASE SaveHistory(m)
  <2>1. UNCHANGED clean /\ pc[m] = "save"
    BY <1>4 DEF SaveHistory
  <2>2. at[m] = Len(Script)
    BY <1>1, <1>4 DEF SaveHistory, Advance
  <2>3. isSuccess[m] /\ \A k \in DOMAIN Script : k < at[m] => Ran(k)
    BY <2>1 DEF RanBehind, SavesSuccess, Running
  <2>4. \A k \in DOMAIN Script : Ran(k)' <=> Ran(k) \/ (k = at[m] /\ isSuccess[m])
    BY <1>4, RowSaved
  <2> QED BY <1>2, <2>2, <2>3, <2>4
<1>5. Check(m) \/ SaveHistory(m)
  <2>1. ~(UNCHANGED vars) /\ ~AllRun
    BY DEF vars, AllRun
  <2>2. ASSUME NEW n \in Migrators, n # m,
               \/ Start(n) \/ ResetMigrationTable(n) \/ ResetTable(n) \/ Check(n)
               \/ Execute(n) \/ ExecuteFails(n) \/ SaveHistory(n) \/ Crash(n)
        PROVE  pc'[m] = pc[m]
    BY <1>1, <2>2 DEF Start, ResetMigrationTable, ResetTable, Check, Advance, Execute,
                      ExecuteFails, SaveHistory, Crash
  <2>3. ~Start(m) /\ ~ResetMigrationTable(m) /\ ~ResetTable(m) /\ ~Execute(m)
          /\ ~ExecuteFails(m) /\ ~Crash(m)
    BY <1>1 DEF Start, ResetMigrationTable, ResetTable, Execute, ExecuteFails, Crash
  <2> QED BY <2>1, <2>2, <2>3 DEF Next
<1> QED BY <1>3, <1>4, <1>5

(* For every script whose steps find what they need, any number of programs  *)
(* and any number of runs: a run that ends without a crash and without a      *)
(* failure from outside has brought the schema to what the script describes.  *)
(* A script of create calls does so after crashes and failures in earlier     *)
(* runs, and beside other programs; one that alters when none of these happen *)
(* (create, alter, drop, shouldRun, execThenSaveHistory).                     *)
THEOREM RunsComplete == Spec => RunCompletes
<1> DEFINE Inv == TypeInv /\ OrderlyInv /\ FaultlessInv /\ CompleteInv
<1>1. Init => Inv
  BY TypeInit, OrderlyInit, FaultlessInit, CompleteInit
<1>2. Inv /\ [Next]_vars => Inv'
  BY TypeNext, OrderlyNext, FaultlessNext, CompleteNext
<1>3. Inv => AllRan
  BY AllRanTarget DEF CompleteInv, OrderlyInv, Completable, AllRan
<1>4. Inv /\ AllRan' /\ [Next]_vars =>
        [Completable => \A m \in Migrators :
           pc[m] # "idle" /\ pc'[m] = "idle" /\ clean'[m] => db' = Target]_vars
  <2> SUFFICES ASSUME Inv, AllRan', [Next]_vars, Completable, NEW m \in Migrators,
                      pc[m] # "idle", pc'[m] = "idle", clean'[m]
               PROVE  db' = Target
    OBVIOUS
  <2>1. scenario' = scenario
    BY DEF Next, Start, ResetMigrationTable, ResetTable, Check, Execute, ExecuteFails,
           SaveHistory, Crash, AllRun, vars, runVars
  <2>2. Completable' /\ Target' = Target /\ Script' = Script
    BY <2>1, ScenarioStays, ScriptStays
  <2>3. \A k \in DOMAIN Script : Ran(k)'
    BY LastStep DEF CompleteInv, OrderlyInv, Completable
  <2> QED BY <2>2, <2>3 DEF AllRan
<1> HIDE DEF Inv
<1> QED BY <1>1, <1>2, <1>3, <1>4, PTL DEF Spec, RunCompletes
=============================================================================

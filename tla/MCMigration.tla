----------------------------- MODULE MCMigration ----------------------------
(* Scripts and scenarios of Migration for TLC. *)
EXTENDS Migration, TLC

Symmetry == Permutations(Migrators)

Col(name, index) == [name |-> name, index |-> index]
Step(op, table, columns) == [op |-> op, table |-> table, columns |-> columns]

TwoTables == <<Step("createTable", "auth", <<Col("id", FALSE), Col("name", TRUE)>>),
               Step("createTable", "users", <<Col("id", FALSE), Col("name", TRUE)>>)>>

Altered == <<Step("createTable", "auth", <<Col("id", FALSE)>>),
             Step("createTable", "users", <<Col("id", FALSE), Col("name", FALSE)>>),
             Step("addColumn", "users", <<Col("email", TRUE)>>),
             Step("dropColumn", "users", <<Col("name", FALSE)>>),
             Step("dropTable", "auth", <<>>)>>

(* The same soft delete column is added to two tables. *)
SameColumn == <<Step("createTable", "auth", <<Col("id", FALSE)>>),
                Step("createTable", "users", <<Col("id", FALSE)>>),
                Step("addColumn", "auth", <<Col("deleted_at", FALSE)>>),
                Step("addColumn", "users", <<Col("deleted_at", FALSE)>>)>>

Scenario(script, resets, overlap, crashes, faults) ==
  [script |-> script, resets |-> resets, overlap |-> overlap,
   crashes |-> crashes, faults |-> faults]

Sound == {Scenario(TwoTables, TRUE, FALSE, TRUE, TRUE),
          Scenario(TwoTables, TRUE, FALSE, TRUE, FALSE),
          Scenario(TwoTables, FALSE, TRUE, TRUE, TRUE),
          Scenario(Altered, TRUE, FALSE, FALSE, FALSE),
          Scenario(Altered, TRUE, FALSE, TRUE, FALSE)}

Faulty == {Scenario(TwoTables, FALSE, FALSE, FALSE, TRUE)}

Twins == {Scenario(SameColumn, FALSE, FALSE, FALSE, FALSE)}
=============================================================================

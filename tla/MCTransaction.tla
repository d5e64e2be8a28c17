---------------------------- MODULE MCTransaction ---------------------------
(* Scenarios of Transaction for TLC. *)
EXTENDS Transaction

CONSTANTS b1, q1, r1, r2

Program(driver, queries, raws, fails, cuts) ==
  [driver |-> driver, blocks |-> {b1}, queries |-> queries, raws |-> raws,
   prepareds |-> {}, rawBody |-> FALSE, fails |-> fails, cuts |-> cuts]

(* One block beside raw writes, with and without a query that joins it, with  *)
(* and without statements that stay unanswered, and beside two prepared      *)
(* handles.                                                                  *)
OneBlockScenarios ==
  {Program("postgres", {}, {r1, r2}, {"body", "COMMIT"}, {}),
   Program("postgres", {}, {r1}, {"BEGIN", "COMMIT", "ROLLBACK"}, {}),
   Program("postgres", {}, {r1}, {"body"}, Statements),
   Program("postgres", {}, {r1}, {"BEGIN", "COMMIT", "ROLLBACK"}, {"body"}),
   Program("postgres", {q1}, {r1}, {"body"}, {}),
   Program("postgres", {q1}, {}, {}, {"BEGIN", "body"}),
   Program("sqlite", {q1}, {r1}, {"body"}, {}),
   [Program("sqlite", {}, {r1}, {"body"}, {}) EXCEPT !.prepareds = {q1, r2}],
   Program("sqlite", {q1}, {r1}, {"body", "COMMIT", "ROLLBACK"}, {})}

(* A block whose body writes with rdb.raw(..). *)
BlockOfRaws == {[Program("postgres", {}, {}, {"body"}, {}) EXCEPT !.rawBody = TRUE]}

(* Two blocks that run concurrently on one rdb object, for BlockAtomic. *)
TwoBlocks == {[Program("postgres", {}, {}, {"body"}, {}) EXCEPT !.blocks = {b1, q1}]}
=============================================================================

--------------------------- MODULE MCQueryBuilder ---------------------------
(* Rows and assignments for TLC: one row, two rows alike, two rows with their  *)
(* columns swapped, one with the new column, two of different length.  The     *)
(* conditions update and delete write may name a qualified column.             *)
EXTENDS QueryBuilder

MCClauses    == Clauses
MCQualifying == {"where", "orWhere"}
MCRowLists   == {<< <<1, 2>> >>, << <<1, 2>>, <<1, 2>> >>, << <<1, 2>>, <<2, 1>> >>,
                 << <<1, 3>> >>, << <<1, 2>>, <<1>> >>}
MCSetLists   == {<<1, 2>>, <<3>>}
=============================================================================

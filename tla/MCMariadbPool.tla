---------------------------- MODULE MCMariadbPool ---------------------------
(* Instances of MariadbPool for TLC. *)
EXTENDS MariadbPool, TLC

Symmetry == Permutations(Clients)
=============================================================================

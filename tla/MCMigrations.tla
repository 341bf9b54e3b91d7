---------------------------- MODULE MCMigrations ----------------------------
(* Migrations with small constants for TLC. *)
EXTENDS Migrations, TLC

Symmetric == Permutations(Procs)
=============================================================================

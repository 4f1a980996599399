------------------------------ MODULE MCMigration ------------------------------
(* Migration for TLC: the processes are alike.                             *)
EXTENDS Migration, TLC

Alike == Permutations(Process)
=============================================================================

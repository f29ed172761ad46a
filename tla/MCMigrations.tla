---------------------------- MODULE MCMigrations ----------------------------
(* Migrations over two tasks.                                                *)
EXTENDS Migrations, TLC

\* Nothing tells names or payloads apart but whether they are the same.
Symmetry == Permutations(Names) \cup Permutations(Payloads)
=============================================================================

---------------------------- MODULE MCTaskRunner ----------------------------
(* TaskRunner on small sets of runs and workers.                             *)
EXTENDS TaskRunner, TLC

\* Runs whose command is alike are interchangeable, and so are the workers.
Symmetry == Permutations(Runs \ Malformed) \cup Permutations(Workers)
=============================================================================

---------------------------- MODULE MCTaskCreate ----------------------------
(* TaskCreate for a few calls, names and labels.                             *)
EXTENDS TaskCreate, TLC

\* Calls, names and labels are told apart by nothing but equality.
Symmetry == Permutations(Creators) \cup Permutations(Names) \cup Permutations(Labels)
=============================================================================

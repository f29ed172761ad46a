----------------------------- MODULE MCTaskRuns -----------------------------
(* TaskRuns for a few calls, tasks and workers.                              *)
EXTENDS TaskRuns, TLC

\* Calls of one kind differ in nothing but their task, which they choose.
Symmetry == Permutations(Requests \ Malformed) \cup Permutations(Tasks)
=============================================================================

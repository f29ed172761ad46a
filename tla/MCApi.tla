------------------------------- MODULE MCApi --------------------------------
(* Api with two keys: one that administrates, one that reads.                *)
EXTENDS Api, TLC

CONSTANTS root, guest

Scopes == root :> "admin" @@ guest :> "read"

\* Requests differ by what they ask for, which is part of the state.
Symmetry == Permutations(Requests)
=============================================================================

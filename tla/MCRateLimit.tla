---------------------------- MODULE MCRateLimit ----------------------------
(* RateLimit for a few requests of one key.                                  *)
EXTENDS RateLimit, TLC

\* The requests carry the same key and nothing else.
Symmetry == Permutations(Requests)

\* A server two ticks west of UTC.
West == -2
=============================================================================

---------------------------- MODULE TokenBucket ----------------------------
(***************************************************************************)
(* What the rate limiter promises for one API key, without transactions,   *)
(* locks and a clock: every request is answered in one step, and what it   *)
(* is told is what the bucket holds at that moment.  A bucket that nobody  *)
(* has used is full; a key that has been revoked stays so.                 *)
(***************************************************************************)
EXTENDS Integers

CONSTANTS
    Requests,
    Full,     \* units of a full bucket
    Cost,     \* units of a request
    Rate,     \* units that come back in a tick
    Slack,    \* twice the units that storing a level may win or lose
    Times,    \* the moments
    None      \* the bucket that nobody has used

VARIABLES
    row,      \* the level of the bucket and the moment it had it
    closed,   \* whether the key has been revoked
    answer    \* what each request was told

vars == <<row, closed, answer>>

TypeOK ==
    /\ row \in [tokens : 0 .. Full, at : Times] \cup {None}
    /\ closed \in BOOLEAN
    /\ answer \in [Requests -> {"none", "admitted", "denied", "rejected", "failed"}]

Init ==
    /\ row = None
    /\ closed = FALSE
    /\ answer = [q \in Requests |-> "none"]

\* The units at moment t, which is not before the last.
Level(t) ==
    LET refilled == row.tokens + Rate * (t - row.at)
    IN  IF row # None /\ refilled < Full THEN refilled ELSE Full

Now(t) == row # None => row.at <= t

Tell(q, a) ==
    /\ answer[q] = "none"
    /\ answer' = [answer EXCEPT ![q] = a]

\* The request is paid for.
Admit(q, t) ==
    /\ ~closed
    /\ Now(t)
    /\ Cost <= Level(t)
    /\ \E v \in 0 .. Full :
         /\ 2 * v <= 2 * (Level(t) - Cost) + Slack
         /\ 2 * (Level(t) - Cost) <= 2 * v + Slack
         /\ row' = [tokens |-> v, at |-> t]
    /\ Tell(q, "admitted")
    /\ UNCHANGED closed

\* The request is turned away, and pays nothing.
Deny(q, t) ==
    /\ ~closed
    /\ Now(t)
    /\ Level(t) < Cost
    /\ Tell(q, "denied")
    /\ UNCHANGED <<row, closed>>

Reject(q) == closed /\ Tell(q, "rejected") /\ UNCHANGED <<row, closed>>

\* A request that fails pays nothing.
Fail(q) == Tell(q, "failed") /\ UNCHANGED <<row, closed>>

Revoke(t) ==
    /\ ~closed
    /\ closed' = TRUE
    /\ row' = [tokens |-> 0, at |-> t]
    /\ UNCHANGED answer

Next ==
    \/ \E q \in Requests :
         \/ \E t \in Times : Admit(q, t) \/ Deny(q, t)
         \/ Reject(q) \/ Fail(q)
    \/ \E t \in Times : Revoke(t)

Spec == Init /\ [][Next]_vars
=============================================================================

---------------------------- MODULE RunLifecycle ----------------------------
(***************************************************************************)
(* What BackgroundRunner promises about one run, without its queue, its    *)
(* workers and its timers: the documented life of a run_id.  A run is      *)
(* executed and settled at most once, it gets its row unless the recorder  *)
(* fails, an execution under way is given up only by the cancellation that *)
(* ends close(), and nothing happens to a run once close() has returned,   *)
(* except that a submit() that was waiting before may return.              *)
(***************************************************************************)
CONSTANTS
    Runs,
    Malformed,       \* runs whose command ends the worker that takes them
    RecorderMayFail  \* whether a result may be lost

VARIABLES
    phase,       \* where each run is
    service      \* where the runner is

vars == <<phase, service>>

Phases == {"new", "refused", "waiting", "accepted", "executing", "recorded", "lost",
           "abandoned"}

TypeOK ==
    /\ phase \in [Runs -> Phases]
    /\ service \in {"open", "draining", "cancelling", "closed"}

Init ==
    /\ phase = [r \in Runs |-> "new"]
    /\ service = "open"

Move(r, from, to) ==
    /\ phase[r] = from
    /\ phase' = [phase EXCEPT ![r] = to]
    /\ UNCHANGED service

\* submit() raises, or the run gets into the queue or waits for room in it; only
\* who waits already is let in later
Refuse(r) == Move(r, "new", "refused")
Wait(r) == service = "open" /\ Move(r, "new", "waiting")
Accept(r) ==
    \/ service = "open" /\ Move(r, "new", "accepted")
    \/ Move(r, "waiting", "accepted")

\* a worker spawns the child, even one that has swallowed its cancellation
Execute(r) ==
    /\ service # "closed"
    /\ Move(r, "accepted", "executing")

\* the recorder was called, for a result or for a child that never started
Settle(r, as) ==
    /\ service # "closed"
    /\ Move(r, "executing", as) \/ Move(r, "accepted", as)

Record(r) == Settle(r, "recorded")
Lose(r) == RecorderMayFail /\ Settle(r, "lost")

\* cancelled under way, or lost with the worker its command ended
Abandon(r) ==
    \/ service = "cancelling" /\ Move(r, "executing", "abandoned")
    \/ service # "closed" /\ r \in Malformed /\ Move(r, "accepted", "abandoned")

Advance(from, to) ==
    /\ service = from
    /\ service' = to
    /\ UNCHANGED phase

Drain == Advance("open", "draining")
Cancel == Advance("draining", "cancelling")

\* close() returns when no execution is under way
Return ==
    /\ \A r \in Runs : phase[r] # "executing"
    /\ Advance("cancelling", "closed")

Next ==
    \/ \E r \in Runs :
         \/ Refuse(r) \/ Wait(r) \/ Accept(r)
         \/ Execute(r) \/ Record(r) \/ Lose(r) \/ Abandon(r)
    \/ Drain \/ Cancel \/ Return

Spec == Init /\ [][Next]_vars
=============================================================================

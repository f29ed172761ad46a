----------------------------- MODULE TaskRunner -----------------------------
(***************************************************************************)
(* BackgroundRunner of service/runner.py: the bounded asyncio queue, the   *)
(* worker coroutines, the child process of each run, the recorder call and *)
(* the graceful drain of close().                                          *)
(*                                                                         *)
(* Everything here runs on one asyncio event loop, so an action is the     *)
(* code between two awaits that really suspend.  A run is one call of      *)
(* submit() that got past its guards: it stands for the run_id it mints    *)
(* and for the (task_id, run_id, command) triple in the queue.  The clock  *)
(* is abstract: a timeout may fire at any moment while its wait is on.     *)
(***************************************************************************)
EXTENDS Integers, Sequences, FiniteSets

CONSTANTS
    Runs,                 \* the calls of submit(), each with its own run_id
    Workers,              \* the worker coroutines: max_concurrent of them
    QueueBoundMultiplier, \* _QUEUE_BOUND_MULTIPLIER
    Malformed,            \* runs whose command makes shlex.split raise ValueError
    RecorderMayFail,      \* whether the recorder's transaction may raise
    Shutdown,             \* _SHUTDOWN_SENTINEL
    NoRun                 \* a worker that holds no run

ASSUME WorkersAssumption == IsFiniteSet(Workers) /\ Cardinality(Workers) > 0
ASSUME BoundAssumption == QueueBoundMultiplier \in Nat \ {0}
ASSUME RunsAssumption == /\ Malformed \subseteq Runs
                         /\ RecorderMayFail \in BOOLEAN
ASSUME ItemAssumption == /\ Shutdown \notin Runs
                         /\ NoRun \notin Runs
                         /\ NoRun # Shutdown

VARIABLES
    started,    \* _started
    closer,     \* how far close() is; _closed is closer # "open"
    toPut,      \* sentinels close() has still to put
    queue,      \* the items of _queue
    unfinished, \* its _unfinished_tasks, which join() waits for
    putters,    \* its _putters: the puts that wait for room, in order
    woken,      \* puts whose future is resolved and that have not resumed yet
    call,       \* where each call of submit() is
    pc,         \* where each worker is
    job,        \* the run each worker holds (_inflight is their set)
    live,       \* child processes that have not been reaped
    detached,   \* children left to a shielded _kill_and_wait nobody awaits
    launches,   \* how often the command of a run was executed
    rows,       \* task_results rows with the run's id
    lost,       \* runs whose recorder call raised and was swallowed
    early,      \* history: the runs accepted before close() was called
    overrun,    \* history: whether the drain timeout fired
    spared      \* workers whose wait_for() swallowed the cancellation

queueVars == <<queue, unfinished, putters, woken>>
closeVars == <<started, closer, toPut, early, overrun, spared>>
childVars == <<live, detached, launches>>
recordVars == <<rows, lost>>
vars == <<queueVars, closeVars, call, pc, job, childVars, recordVars>>

Items == Runs \cup {Shutdown}

MaxSize == Cardinality(Workers) * QueueBoundMultiplier

Room == MaxSize - Len(queue)

TypeOK ==
    /\ started \in BOOLEAN
    /\ closer \in {"open", "putting", "joining", "joined", "gathering", "closed"}
    /\ toPut \in Nat
    /\ queue \in Seq(Items)
    /\ unfinished \in Nat
    /\ putters \in Seq(Items)
    /\ woken \subseteq Items
    /\ call \in [Runs -> {"new", "refused", "blocked", "accepted"}]
    /\ pc \in [Workers -> {"unborn", "idle", "running", "exited", "overdue",
                           "cancelled", "stopped"}]
    /\ job \in [Workers -> Runs \cup {NoRun}]
    /\ live \subseteq Runs
    /\ detached \subseteq Runs
    /\ launches \in [Runs -> Nat]
    /\ rows \in [Runs -> Nat]
    /\ lost \subseteq Runs
    /\ early \subseteq Runs
    /\ overrun \in BOOLEAN
    /\ spared \subseteq Workers

Init ==
    /\ started = FALSE
    /\ closer = "open"
    /\ toPut = 0
    /\ queue = <<>>
    /\ unfinished = 0
    /\ putters = <<>>
    /\ woken = {}
    /\ call = [r \in Runs |-> "new"]
    /\ pc = [w \in Workers |-> "unborn"]
    /\ job = [w \in Workers |-> NoRun]
    /\ live = {}
    /\ detached = {}
    /\ launches = [r \in Runs |-> 0]
    /\ rows = [r \in Runs |-> 0]
    /\ lost = {}
    /\ early = {}
    /\ overrun = FALSE
    /\ spared = {}

-----------------------------------------------------------------------------
(* asyncio.Queue, as submit(), close() and the workers use it.               *)

\* put_nowait
Enqueue(items) ==
    /\ queue' = queue \o items
    /\ unfinished' = unfinished + Len(items)

\* put() on a full queue: the caller waits behind the puts already waiting.
WaitForRoom(item) ==
    /\ putters' = Append(putters, item)
    /\ UNCHANGED <<queue, unfinished>>

\* mutant: a get that resolves no waiting put
DequeueNoWake ==
    /\ queue # <<>>
    /\ queue' = Tail(queue)
    /\ UNCHANGED <<putters, woken>>

\* get() on a queue that is not empty: it resolves the oldest waiting put,
\* which resumes in a later step and looks at the queue again.
Dequeue ==
    /\ queue # <<>>
    /\ queue' = Tail(queue)
    /\ IF putters = <<>>
       THEN UNCHANGED <<putters, woken>>
       ELSE /\ putters' = Tail(putters)
            /\ woken' = woken \cup {Head(putters)}

\* task_done(): the last one releases join(), even if a put comes in between.
TaskDone ==
    /\ unfinished' = unfinished - 1
    /\ closer' = IF closer = "joining" /\ unfinished = 1 THEN "joined" ELSE closer

-----------------------------------------------------------------------------
(* start() and submit()                                                      *)

\* The lifespan starts each runner it builds once, and before it is closed.
Start ==
    /\ ~started
    /\ closer = "open"
    /\ started' = TRUE
    /\ pc' = [w \in Workers |-> "idle"]
    /\ UNCHANGED <<queueVars, closer, toPut, early, overrun, spared, call, job,
                   childVars, recordVars>>

\* submit() raises NotReadyError.
Refuse(r) ==
    /\ call[r] = "new"
    /\ closer # "open" \/ ~started
    /\ call' = [call EXCEPT ![r] = "refused"]
    /\ UNCHANGED <<queueVars, closeVars, pc, job, childVars, recordVars>>

\* The put of submit(): the run_id is returned at once, or the caller waits.
Offer(r) ==
    \/ /\ Room > 0
       /\ Enqueue(<<r>>)
       /\ call' = [call EXCEPT ![r] = "accepted"]
       /\ UNCHANGED putters
    \/ /\ Room <= 0
       /\ WaitForRoom(r)
       /\ call' = [call EXCEPT ![r] = "blocked"]

Submit(r) ==
    /\ call[r] = "new"
    /\ closer = "open" /\ started
    /\ Offer(r)
    /\ UNCHANGED <<woken, closeVars, pc, job, childVars, recordVars>>

\* A waiting put resumes; _closed is not looked at again.
ResumeSubmit(r) ==
    /\ r \in woken
    /\ woken' = woken \ {r}
    /\ Offer(r)
    /\ UNCHANGED <<closeVars, pc, job, childVars, recordVars>>

-----------------------------------------------------------------------------
(* _worker_loop(), _dispatch() and run_subprocess()                          *)

\* A worker that takes steps of its own: its cancellation is not pending.
Undisturbed(w) == closer # "gathering" \/ w \in spared

\* The item get() returns to worker w.
Takes(w, item) ==
    /\ pc[w] = "idle"
    /\ Undisturbed(w)
    /\ Dequeue
    /\ Head(queue) = item

\* The recorder call; _dispatch swallows what it raises.
Record(r) ==
    \/ /\ rows' = [rows EXCEPT ![r] = @ + 1]
       /\ UNCHANGED lost
    \/ /\ RecorderMayFail
       /\ lost' = lost \cup {r}
       /\ UNCHANGED rows

\* The child process is spawned before the worker first suspends.
Launch(w, r) ==
    /\ Takes(w, r)
    /\ r \notin Malformed
    /\ pc' = [pc EXCEPT ![w] = "running"]
    /\ job' = [job EXCEPT ![w] = r]
    /\ live' = live \cup {r}
    /\ launches' = [launches EXCEPT ![r] = @ + 1]
    /\ UNCHANGED <<unfinished, closeVars, call, detached, recordVars>>

\* mutant: an OSError that _dispatch does not catch
FailToStartUncaught(w, r) ==
    /\ Takes(w, r)
    /\ r \notin Malformed
    /\ TaskDone
    /\ pc' = [pc EXCEPT ![w] = "stopped"]
    /\ UNCHANGED <<started, toPut, early, overrun, spared, call, job, childVars, recordVars>>

\* OSError or ValidationFailedError: _record_failure, without any suspension.
FailToStart(w, r) ==
    /\ Takes(w, r)
    /\ r \notin Malformed
    /\ Record(r)
    /\ TaskDone
    /\ UNCHANGED <<started, toPut, early, overrun, spared, call, pc, job, childVars>>

\* mutant: the exception skips the finally clause
CrashNoTaskDone(w, r) ==
    /\ Takes(w, r)
    /\ r \in Malformed
    /\ pc' = [pc EXCEPT ![w] = "stopped"]
    /\ UNCHANGED <<unfinished, closeVars, call, job, childVars, recordVars>>

\* Any other exception leaves _dispatch and ends the worker.
Crash(w, r) ==
    /\ Takes(w, r)
    /\ r \in Malformed
    /\ TaskDone
    /\ pc' = [pc EXCEPT ![w] = "stopped"]
    /\ UNCHANGED <<started, toPut, early, overrun, spared, call, job, childVars, recordVars>>

\* The sentinel ends the worker.
Stop(w) ==
    /\ Takes(w, Shutdown)
    /\ TaskDone
    /\ pc' = [pc EXCEPT ![w] = "stopped"]
    /\ UNCHANGED <<started, toPut, early, overrun, spared, call, job, childVars, recordVars>>

\* A child exits, by itself or killed, and the loop's child watcher reaps it.
ChildExits(r) ==
    /\ r \in live
    /\ live' = live \ {r}
    /\ detached' = detached \ {r}
    /\ UNCHANGED <<queueVars, closeVars, call, pc, job, launches, recordVars>>

\* communicate() returns, and run_subprocess enters its finally clause.
Communicated(w) ==
    /\ pc[w] = "running"
    /\ Undisturbed(w)
    /\ job[w] \notin live
    /\ pc' = [pc EXCEPT ![w] = "exited"]
    /\ UNCHANGED <<queueVars, closeVars, call, job, childVars, recordVars>>

\* wait_for() times out, which may be just after the child has exited.
TimedOut(w) ==
    /\ pc[w] = "running"
    /\ Undisturbed(w)
    /\ pc' = [pc EXCEPT ![w] = "overdue"]
    /\ UNCHANGED <<queueVars, closeVars, call, job, childVars, recordVars>>

\* mutant: a run that timed out is put back for another try
FinishWithRetry(w) ==
    /\ pc[w] \in {"exited", "overdue"}
    /\ Undisturbed(w)
    /\ job[w] \notin live
    /\ IF pc[w] = "overdue"
       THEN /\ queue' = Append(queue, job[w])
            /\ UNCHANGED <<unfinished, closer, recordVars>>
       ELSE /\ Record(job[w])
            /\ TaskDone
            /\ UNCHANGED queue
    /\ pc' = [pc EXCEPT ![w] = "idle"]
    /\ job' = [job EXCEPT ![w] = NoRun]
    /\ UNCHANGED <<putters, woken, started, toPut, early, overrun, spared, call, childVars>>

\* mutant: the worker goes on before the child is reaped
FinishNoReap(w) ==
    /\ pc[w] \in {"exited", "overdue"}
    /\ Undisturbed(w)
    /\ Record(job[w])
    /\ TaskDone
    /\ pc' = [pc EXCEPT ![w] = "idle"]
    /\ job' = [job EXCEPT ![w] = NoRun]
    /\ UNCHANGED <<queue, putters, woken, started, toPut, early, overrun, spared, call, childVars>>

\* The child is reaped, its result is recorded and the run is done.
Finish(w) ==
    /\ pc[w] \in {"exited", "overdue"}
    /\ Undisturbed(w)
    /\ job[w] \notin live
    /\ Record(job[w])
    /\ TaskDone
    /\ pc' = [pc EXCEPT ![w] = "idle"]
    /\ job' = [job EXCEPT ![w] = NoRun]
    /\ UNCHANGED <<queue, putters, woken, started, toPut, early, overrun, spared, call, childVars>>

-----------------------------------------------------------------------------
(* What the CancelledError of close() does to a worker, in its own step.     *)

\* The worker finds it at its next step.
Cancelled(w) == closer = "gathering" /\ w \notin spared

\* It waits in get().
CancelIdle(w) ==
    /\ Cancelled(w)
    /\ pc[w] = "idle"
    /\ pc' = [pc EXCEPT ![w] = "stopped"]
    /\ UNCHANGED <<queueVars, closeVars, call, job, childVars, recordVars>>

\* mutant: run_subprocess without its finally clause
CancelRunningNoReap(w) ==
    /\ Cancelled(w)
    /\ pc[w] = "running"
    /\ TaskDone
    /\ pc' = [pc EXCEPT ![w] = "stopped"]
    /\ job' = [job EXCEPT ![w] = NoRun]
    /\ UNCHANGED <<queue, putters, woken, started, toPut, early, overrun, spared, call,
                   childVars, recordVars>>

\* It waits for the child: the finally clause kills and reaps it first.
CancelRunning(w) ==
    /\ Cancelled(w)
    /\ pc[w] = "running"
    /\ pc' = [pc EXCEPT ![w] = "cancelled"]
    /\ UNCHANGED <<queueVars, closeVars, call, job, childVars, recordVars>>

\* communicate() is done already: wait_for() of Python 3.11 returns its result and
\* forgets the cancellation, and the worker goes on as if there had been none.
CancelSwallowed(w) ==
    /\ Cancelled(w)
    /\ pc[w] = "running"
    /\ job[w] \notin live
    /\ spared' = spared \cup {w}
    /\ pc' = [pc EXCEPT ![w] = "exited"]
    /\ UNCHANGED <<queueVars, started, closer, toPut, early, overrun, call, job,
                   childVars, recordVars>>

\* It waits in the shield already: _kill_and_wait goes on without it.
CancelReaping(w) ==
    /\ Cancelled(w)
    /\ pc[w] \in {"exited", "overdue"}
    /\ detached' = detached \cup ({job[w]} \cap live)
    /\ TaskDone
    /\ pc' = [pc EXCEPT ![w] = "stopped"]
    /\ job' = [job EXCEPT ![w] = NoRun]
    /\ UNCHANGED <<queue, putters, woken, started, toPut, early, overrun, spared, call,
                   live, launches, recordVars>>

\* The reap of a cancelled run ends: no result, the worker ends.
FinishCancelled(w) ==
    /\ pc[w] = "cancelled"
    /\ job[w] \notin live
    /\ TaskDone
    /\ pc' = [pc EXCEPT ![w] = "stopped"]
    /\ job' = [job EXCEPT ![w] = NoRun]
    /\ UNCHANGED <<queue, putters, woken, started, toPut, early, overrun, spared, call,
                   childVars, recordVars>>

-----------------------------------------------------------------------------
(* close()                                                                   *)

Sentinels(n) == [i \in 1 .. n |-> Shutdown]

\* As many of the remaining n sentinels as fit, then the wait for room or the
\* join: the puts that find room do not suspend.
PutSentinels(n) ==
    LET k == IF n <= Room THEN n ELSE Room
    IN  /\ Enqueue(Sentinels(k))
        /\ toPut' = n - k
        /\ IF k < n
           THEN putters' = Append(putters, Shutdown) /\ closer' = "putting"
           ELSE UNCHANGED putters /\ closer' = "joining"

\* mutant: one sentinel for each worker that is still alive
CloseCountsLiving ==
    /\ started
    /\ closer = "open"
    /\ early' = {r \in Runs : call[r] = "accepted"}
    /\ PutSentinels(Cardinality({w \in Workers : pc[w] # "stopped"}))
    /\ UNCHANGED <<woken, started, overrun, spared, call, pc, job, childVars, recordVars>>

Close ==
    /\ started
    /\ closer = "open"
    /\ early' = {r \in Runs : call[r] = "accepted"}
    /\ PutSentinels(Cardinality(Workers))
    /\ UNCHANGED <<woken, started, overrun, spared, call, pc, job, childVars, recordVars>>

ResumeClose ==
    /\ Shutdown \in woken
    /\ woken' = woken \ {Shutdown}
    /\ PutSentinels(toPut)
    /\ UNCHANGED <<started, early, overrun, spared, call, pc, job, childVars, recordVars>>

\* The drain timeout ends the join.
DrainTimeout ==
    /\ closer = "joining"
    /\ closer' = "gathering"
    /\ overrun' = TRUE
    /\ UNCHANGED <<queueVars, started, toPut, early, spared, call, pc, job, childVars, recordVars>>

\* The join has returned: every worker is cancelled here too.
CancelWorkers ==
    /\ closer = "joined"
    /\ closer' = "gathering"
    /\ UNCHANGED <<queueVars, started, toPut, early, overrun, spared, call, pc, job,
                   childVars, recordVars>>

\* mutant: close() does not gather the workers it cancelled
CloseReturnsEarly ==
    /\ closer = "gathering"
    /\ closer' = "closed"
    /\ started' = FALSE
    /\ UNCHANGED <<queueVars, toPut, early, overrun, spared, call, pc, job, childVars, recordVars>>

\* gather() returns when every worker has ended.
CloseReturns ==
    /\ closer = "gathering"
    /\ \A w \in Workers : pc[w] = "stopped"
    /\ closer' = "closed"
    /\ started' = FALSE
    /\ UNCHANGED <<queueVars, toPut, early, overrun, spared, call, pc, job, childVars, recordVars>>

-----------------------------------------------------------------------------
SubmitStep(r) == Refuse(r) \/ Submit(r) \/ ResumeSubmit(r)

WorkerStep(w) ==
    \/ \E r \in Runs : Launch(w, r) \/ FailToStart(w, r) \/ Crash(w, r)
    \/ Stop(w)
    \/ Communicated(w) \/ TimedOut(w) \/ Finish(w)
    \/ CancelIdle(w) \/ CancelRunning(w) \/ CancelSwallowed(w) \/ CancelReaping(w)
    \/ FinishCancelled(w)

CloseStep == Close \/ ResumeClose \/ DrainTimeout \/ CancelWorkers \/ CloseReturns

Next ==
    \/ Start
    \/ \E r \in Runs : SubmitStep(r) \/ ChildExits(r)
    \/ \E w \in Workers : WorkerStep(w)
    \/ CloseStep

\* The children something kills: a reap is on, in a worker or detached from it.
Killed == detached \cup {job[w] : w \in {x \in Workers : pc[x] \in {"overdue", "cancelled"}}}

\* The event loop runs what is ready, timers fire and SIGKILL is obeyed; a
\* child nobody kills may run for ever, and nobody has to call close().
Fairness ==
    /\ \A r \in Runs : /\ WF_vars(ResumeSubmit(r))
                       /\ WF_vars(r \in Killed /\ ChildExits(r))
    /\ \A w \in Workers : WF_vars(WorkerStep(w))
    /\ WF_vars(ResumeClose \/ DrainTimeout \/ CancelWorkers \/ CloseReturns)

Spec == Init /\ [][Next]_vars

FairSpec == Spec /\ Fairness

-----------------------------------------------------------------------------
(* Safety                                                                    *)

\* The row of a run is written, or its recorder call failed.
Settled(r) == rows[r] = 1 \/ r \in lost

Busy == {w \in Workers : job[w] # NoRun}

\* A run_id is executed at most once and gets at most one task_results row,
\* whatever the order of puts, wake-ups, timeouts and cancellations: "exactly
\* one task_results row" of _dispatch, its upper half.
AtMostOnce == \A r \in Runs : launches[r] <= 1 /\ rows[r] <= 1

\* No child process is ever abandoned: one that has not been reaped belongs to
\* the worker that runs it, or to the shielded _kill_and_wait its worker left.
ChildOwned == \A r \in live : r \in detached \/ \E w \in Workers : job[w] = r

\* The concurrency limit holds for processes, not only for coroutines: a
\* timed-out child is gone before its worker starts another one.
ConcurrencyBound == Cardinality(live) <= Cardinality(Workers)

\* What join() waits for is what is queued or held by a worker, also after a
\* worker died of an exception or was cancelled.
JoinAccounting == unfinished = Len(queue) + Cardinality(Busy)

\* close() that was not cut off by the drain timeout has executed every run
\* that was accepted before it, even if commands that kill a worker are among
\* them: then the drain cannot end gracefully.
GracefulDrain ==
    closer \in {"joined", "gathering", "closed"} /\ ~overrun => \A r \in early : Settled(r)

\* No sentinel overtakes a run that was accepted before close(), so that no
\* worker stops while such a run waits.
SentinelsBehindWork ==
    \A i, j \in DOMAIN queue : i < j /\ queue[i] = Shutdown => queue[j] \notin early

\* A put never waits while there is room nobody has been woken for.
NoLostWakeup == putters # <<>> => Room <= Cardinality(woken)

\* Nothing is executed or recorded once close() has returned.
QuietAfterClose == [][closer = "closed" => UNCHANGED <<rows, lost, launches>>]_vars

-----------------------------------------------------------------------------
(* TaskRunner implements the life of a run of RunLifecycle.                  *)

phaseOf(r) ==
    CASE call[r] = "new" -> "new"
      [] call[r] = "refused" -> "refused"
      [] call[r] = "blocked" -> "waiting"
      [] call[r] = "accepted" /\ rows[r] > 0 -> "recorded"
      [] call[r] = "accepted" /\ rows[r] = 0 /\ r \in lost -> "lost"
      [] call[r] = "accepted" /\ rows[r] = 0 /\ r \notin lost ->
           IF \E w \in Workers : job[w] = r THEN "executing"
           ELSE IF \E i \in DOMAIN queue : queue[i] = r THEN "accepted"
           ELSE "abandoned"

serviceOf ==
    CASE closer = "open" -> "open"
      [] closer \in {"putting", "joining", "joined"} -> "draining"
      [] closer = "gathering" -> "cancelling"
      [] closer = "closed" -> "closed"

Lifecycle == INSTANCE RunLifecycle WITH
    phase <- [r \in Runs |-> phaseOf(r)],
    service <- serviceOf

\* Every behaviour of the runner is a life of its runs as documented: whatever
\* the scheduling, a run moves from accepted to executing to its one row, which
\* only a failing recorder loses, an execution is dropped only by the cancellation
\* in close(), and a worker that escapes it does no more than that.
ImplementsLifecycle == Lifecycle!Spec

-----------------------------------------------------------------------------
(* Liveness, and what the documentation says of the runner                   *)

\* While the runner stays open, a run whose id was returned gets its row (or
\* its recorder fails), if no command kills the workers.
AcceptedIsSettled ==
    \A r \in Runs : call[r] = "accepted" ~> Settled(r) \/ closer # "open"

\* While the runner stays open, back-pressure ends for every blocked caller.
BlockedReturns ==
    \A r \in Runs : call[r] = "blocked" ~> call[r] = "accepted" \/ closer # "open"

\* close() returns, within its drain timeout and the reaps.
CloseTerminates == closer # "open" ~> closer = "closed"

\* "The id is durable: once submit returns, the same id will be written to
\* task_results.run_id" (submit): when close() has returned, every accepted
\* run whose recorder call did not fail has its row.
IdIsDurable ==
    closer = "closed" => \A r \in Runs : call[r] = "accepted" => Settled(r)

\* submit() must not let a caller "receive a run_id that no worker will ever
\* pick up": no accepted run is left when the drain was not cut off, not even
\* one whose put was waiting when close() was called.
NoStrandedRun ==
    closer = "closed" /\ ~overrun => \A r \in Runs : call[r] = "accepted" => Settled(r)

\* "The reaper runs on every exit path including CancelledError" and no child
\* process is left (FR-08): none is alive when close() has returned.
ReapedAtClose == closer = "closed" => live = {}
=============================================================================

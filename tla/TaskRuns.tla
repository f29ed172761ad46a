------------------------------ MODULE TaskRuns ------------------------------
(***************************************************************************)
(* How the endpoints of api/tasks.py, the runner and the database meet:    *)
(* POST /v1/tasks/{id}/run, the recorder of each finished run, and DELETE  *)
(* /v1/tasks/{id}.                                                         *)
(*                                                                         *)
(* The run endpoint and the recorder are coroutines of the one event loop, *)
(* and their database calls are synchronous: while one of them waits for a *)
(* connection or for a row lock, the event loop does nothing else.  DELETE *)
(* runs on a thread of its own.  The queue and the workers are those of    *)
(* TaskRunner, reduced to what is seen from here: a worker takes a run,    *)
(* executes it and calls the recorder.                                     *)
(***************************************************************************)
EXTENDS Integers, Sequences, FiniteSets

CONSTANTS
    Tasks,
    Requests,     \* calls of POST /run; each stands for the run it submits
    Unreadable,   \* the tasks whose command shlex.split cannot read
    Malformed,    \* the requests for one of them
    Deleters,     \* calls of DELETE
    Workers,
    Endings,      \* how a run may end, of the four ways there are
    QueueSize,    \* maxsize of the runner's queue
    PoolSize,     \* connections of the pool, its overflow included
    RowLocks,     \* FOR UPDATE locks, foreign keys cascade; not so on SQLite
    MayRaise,     \* whether a connection, a statement, a commit or submit() may raise
    Nobody, NoTask, NoRun

ASSUME SizeAssumption == QueueSize \in Nat \ {0} /\ PoolSize \in Nat \ {0}
ASSUME LockAssumption == RowLocks \in BOOLEAN /\ MayRaise \in BOOLEAN
ASSUME EndingAssumption == Endings \subseteq {"done", "failed", "timeout", "unstarted"}
ASSUME MalformedAssumption == Malformed \subseteq Requests /\ Unreadable \subseteq Tasks
ASSUME DistinctAssumption ==
    /\ Requests \cap Workers = {} /\ Requests \cap Deleters = {} /\ Workers \cap Deleters = {}
    /\ Nobody \notin Requests \cup Workers \cup Deleters
    /\ NoTask \notin Tasks /\ NoRun \notin Requests

Actors == Requests \cup Workers \cup Deleters

VARIABLES
    present,  \* the committed tasks
    status,   \* their status column
    results,  \* the committed task_results rows: the runs they are of
    rowLock,  \* who holds the row lock of each task
    conns,    \* who holds a connection of the pool
    loop,     \* whose synchronous database call the event loop is in
    pc,       \* where each request, worker and deleter is
    target,   \* the task each of them is at
    run,      \* the run each worker holds, or has ended of
    woke,     \* the put each worker resolved when it took that run
    outcome,  \* how each run ended
    queue,    \* the runner's queue
    putters,  \* submit() calls that wait for room, in order
    fetched,  \* the rows each deleter has loaded with its task
    lost,     \* runs whose recorder call raised
    vanished  \* history: runs that were queued while their task was deleted

storeVars == <<present, status, results>>
lockVars == <<rowLock, conns>>
queueVars == <<queue, putters>>
runVars == <<run, woke>>
vars == <<storeVars, lockVars, loop, pc, target, runVars, outcome, queueVars, fetched,
          lost, vanished>>

Statuses == {"pending", "done", "failed", "timeout"}

\* The types; the pool and the queue keep their bounds.
TypeOK ==
    /\ present \subseteq Tasks
    /\ status \in [Tasks -> Statuses]
    /\ results \subseteq Requests
    /\ rowLock \in [Tasks -> Actors \cup {Nobody}]
    /\ conns \subseteq Actors /\ Cardinality(conns) <= PoolSize
    /\ loop \in Requests \cup Workers \cup {Nobody}
    /\ pc \in [Actors -> {"new", "connecting", "locking", "waiting", "woken", "accepted",
                          "unconfirmed", "notFound", "failed", "idle", "running", "ended",
                          "writing", "loaded", "deleted"}]
    /\ target \in [Actors -> Tasks \cup {NoTask}]
    /\ run \in [Workers -> Requests \cup {NoRun}]
    /\ woke \in [Workers -> Requests \cup {NoRun}]
    /\ outcome \in [Requests -> {"none", "done", "failed", "timeout", "unstarted"}]
    /\ queue \in Seq(Requests) /\ Len(queue) <= QueueSize
    /\ putters \in Seq(Requests)
    /\ fetched \in [Deleters -> SUBSET Requests]
    /\ lost \subseteq Requests
    /\ vanished \subseteq Requests

Init ==
    /\ present = Tasks
    /\ status = [t \in Tasks |-> "pending"]
    /\ results = {}
    /\ rowLock = [t \in Tasks |-> Nobody]
    /\ conns = {}
    /\ loop = Nobody
    /\ pc = [a \in Actors |-> IF a \in Workers THEN "idle" ELSE "new"]
    /\ target = [a \in Actors |-> NoTask]
    /\ run = [w \in Workers |-> NoRun]
    /\ woke = [w \in Workers |-> NoRun]
    /\ outcome = [q \in Requests |-> "none"]
    /\ queue = <<>>
    /\ putters = <<>>
    /\ fetched = [d \in Deleters |-> {}]
    /\ lost = {}
    /\ vanished = {}

-----------------------------------------------------------------------------
(* Sessions: transaction() takes a connection with its first statement and  *)
(* gives it back, with its locks, when it commits or rolls back.            *)

Go(a, to) == pc' = [pc EXCEPT ![a] = to]

LockFree(t) == ~RowLocks \/ rowLock[t] = Nobody

Claim(a, t) == rowLock' = IF RowLocks THEN [rowLock EXCEPT ![t] = a] ELSE rowLock

\* mutant: the session is not closed, its connection leaks
EndTransactionLeak(a) ==
    /\ rowLock' = [t \in Tasks |-> IF rowLock[t] = a THEN Nobody ELSE rowLock[t]]
    /\ UNCHANGED conns

EndTransaction(a) ==
    /\ rowLock' = [t \in Tasks |-> IF rowLock[t] = a THEN Nobody ELSE rowLock[t]]
    /\ conns' = conns \ {a}

Connect(a) ==
    /\ pc[a] = "connecting"
    /\ Cardinality(conns) < PoolSize
    /\ conns' = conns \cup {a}
    /\ Go(a, "locking")
    /\ UNCHANGED <<storeVars, rowLock, loop, target, runVars, outcome, queueVars, fetched,
                   lost, vanished>>

\* The transaction ends in an exception: QueuePool gives up after its timeout, the
\* database cannot be reached, a statement or the commit raises.  It is rolled back.
Raises(a) ==
    \/ /\ pc[a] = "connecting"
       /\ MayRaise \/ Cardinality(conns) = PoolSize
       /\ UNCHANGED lockVars
    \/ /\ pc[a] \in {"locking", "writing", "loaded"}
       /\ MayRaise
       /\ EndTransaction(a)

-----------------------------------------------------------------------------
(* POST /v1/tasks/{id}/run                                                  *)

\* The request has passed its dependency and begins its own transaction.
Arrive(q, t) ==
    /\ loop = Nobody
    /\ pc[q] = "new"
    /\ q \in Malformed <=> t \in Unreadable
    /\ loop' = q
    /\ target' = [target EXCEPT ![q] = t]
    /\ Go(q, "connecting")
    /\ UNCHANGED <<storeVars, lockVars, runVars, outcome, queueVars, fetched, lost, vanished>>

\* 500, with nothing queued; or 503, when submit() finds the runner closed.
ArriveFails(q) ==
    /\ Raises(q)
    /\ loop' = Nobody
    /\ Go(q, "failed")
    /\ UNCHANGED <<storeVars, target, runVars, outcome, queueVars, fetched, lost, vanished>>

\* 202, or 500 if the commit raises after the run has been queued.
Answers == IF MayRaise THEN {"accepted", "unconfirmed"} ELSE {"accepted"}

\* await runner.submit(): either it returns and the transaction commits, or it
\* waits for room and the transaction stays open.
Put(q) ==
    \/ /\ Len(queue) < QueueSize
       /\ queue' = Append(queue, q)
       /\ vanished' = IF target[q] \in present THEN vanished ELSE vanished \cup {q}
       /\ \E answer \in Answers : Go(q, answer)
       /\ UNCHANGED putters
    \/ /\ Len(queue) = QueueSize
       /\ putters' = Append(putters, q)
       /\ Go(q, "waiting")
       /\ UNCHANGED <<queue, vanished>>

\* mutant: the task is committed before submit(), and its lock is gone
LookupUnlocked(q) ==
    /\ pc[q] = "locking"
    /\ LockFree(target[q])
    /\ loop' = Nobody
    /\ UNCHANGED <<storeVars, target, runVars, outcome, fetched, lost>>
    /\ \/ /\ target[q] \notin present
          /\ Go(q, "notFound")
          /\ EndTransaction(q)
          /\ UNCHANGED <<queueVars, vanished>>
       \/ /\ target[q] \in present
          /\ Put(q)
          /\ EndTransaction(q)

\* SELECT ... FOR UPDATE of the task, and what follows without suspension.  A
\* task that is not there ends the request, in a TypeError (module Api).
Lookup(q) ==
    /\ pc[q] = "locking"
    /\ LockFree(target[q])
    /\ loop' = Nobody
    /\ UNCHANGED <<storeVars, target, runVars, outcome, fetched, lost>>
    /\ \/ /\ target[q] \notin present
          /\ Go(q, "notFound")
          /\ EndTransaction(q)
          /\ UNCHANGED <<queueVars, vanished>>
       \/ /\ target[q] \in present
          /\ Put(q)
          /\ IF pc'[q] = "waiting"
             THEN Claim(q, target[q]) /\ UNCHANGED conns
             ELSE EndTransaction(q)

\* The put resumes and looks at the queue again.
Resume(q) ==
    /\ loop = Nobody
    /\ pc[q] = "woken"
    /\ Put(q)
    /\ IF pc'[q] = "waiting" THEN UNCHANGED lockVars ELSE EndTransaction(q)
    /\ UNCHANGED <<storeVars, loop, target, runVars, outcome, fetched, lost>>

-----------------------------------------------------------------------------
(* The workers and the recorder                                             *)

\* A command that cannot be split ends the worker in the step that takes the run.
Starts(q) == IF q \in Malformed THEN "ended" ELSE "running"

\* mutant: a get that resolves no waiting put
TakeNoWake(w) ==
    /\ loop = Nobody
    /\ pc[w] = "idle"
    /\ queue # <<>>
    /\ run' = [run EXCEPT ![w] = Head(queue)]
    /\ target' = [target EXCEPT ![w] = target[Head(queue)]]
    /\ queue' = Tail(queue)
    /\ Go(w, Starts(Head(queue)))
    /\ UNCHANGED <<storeVars, lockVars, loop, putters, woke, outcome, fetched, lost, vanished>>

\* get() returns the oldest run and resolves the oldest put that waits.
Take(w) ==
    /\ loop = Nobody
    /\ pc[w] = "idle"
    /\ queue # <<>>
    /\ run' = [run EXCEPT ![w] = Head(queue)]
    /\ target' = [target EXCEPT ![w] = target[Head(queue)]]
    /\ queue' = Tail(queue)
    /\ IF putters = <<>>
       THEN /\ Go(w, Starts(Head(queue)))
            /\ woke' = [woke EXCEPT ![w] = NoRun]
            /\ UNCHANGED putters
       ELSE /\ pc' = [pc EXCEPT ![w] = Starts(Head(queue)), ![Head(putters)] = "woken"]
            /\ woke' = [woke EXCEPT ![w] = Head(putters)]
            /\ putters' = Tail(putters)
    /\ UNCHANGED <<storeVars, lockVars, loop, outcome, fetched, lost, vanished>>

\* The run is over, or never started; the worker calls the recorder.  Only a
\* run that fails to start gets there before the put that its worker resolved
\* resumes: that one is scheduled before the child is.
Executed(w, how) ==
    /\ loop = Nobody
    /\ pc[w] = "running"
    /\ how = "unstarted" \/ woke[w] \notin {q \in Requests : pc[q] = "woken"}
    /\ outcome' = [outcome EXCEPT ![run[w]] = how]
    /\ loop' = w
    /\ Go(w, "connecting")
    /\ UNCHANGED <<storeVars, lockVars, target, runVars, queueVars, fetched, lost, vanished>>

\* mutant: what the recorder raises ends the worker
WorkerEnds(w) ==
    /\ Go(w, "failed")
    /\ run' = [run EXCEPT ![w] = NoRun]
    /\ woke' = [woke EXCEPT ![w] = NoRun]
    /\ target' = [target EXCEPT ![w] = NoTask]
    /\ loop' = Nobody

\* The recorder has returned or raised; what it raises is swallowed.
WorkerFree(w) ==
    /\ Go(w, "idle")
    /\ run' = [run EXCEPT ![w] = NoRun]
    /\ woke' = [woke EXCEPT ![w] = NoRun]
    /\ target' = [target EXCEPT ![w] = NoTask]
    /\ loop' = Nobody

\* The recorder's transaction raises, and the result is gone.
RecordFails(w) ==
    /\ Raises(w)
    /\ lost' = lost \cup {run[w]}
    /\ WorkerFree(w)
    /\ UNCHANGED <<storeVars, outcome, queueVars, fetched, vanished>>

\* record_run_for_task() selects the task for update.
RecordLookup(w) ==
    /\ pc[w] = "locking"
    /\ LockFree(target[w])
    /\ \/ /\ target[w] \in present
          /\ Claim(w, target[w])
          /\ Go(w, "writing")
          /\ UNCHANGED <<conns, runVars, target, loop, lost>>
       \/ /\ target[w] \notin present
          /\ lost' = lost \cup {run[w]}
          /\ WorkerFree(w)
          /\ EndTransaction(w)
    /\ UNCHANGED <<storeVars, outcome, queueVars, fetched, vanished>>

\* _derive_status(): a synthetic failure has a duration and no exit code.
DerivedStatus(how) ==
    CASE how \in {"timeout", "unstarted"} -> "timeout"
      [] how = "done" -> "done"
      [] how = "failed" -> "failed"

\* The status and the row are written and committed.  The update of a task that
\* is gone raises; without a change of the status there is no update.
RecordWrite(w) ==
    LET t == target[w]
        new == DerivedStatus(outcome[run[w]])
    IN  /\ pc[w] = "writing"
        /\ \/ /\ t \in present \/ status[t] = new
              /\ status' = [status EXCEPT ![t] = new]
              /\ results' = results \cup {run[w]}
              /\ UNCHANGED lost
           \/ /\ t \notin present /\ status[t] # new
              /\ lost' = lost \cup {run[w]}
              /\ UNCHANGED <<status, results>>
        /\ WorkerFree(w)
        /\ EndTransaction(w)
        /\ UNCHANGED <<present, outcome, queueVars, fetched, vanished>>

-----------------------------------------------------------------------------
(* DELETE /v1/tasks/{id}                                                    *)

RowsOf(t) == {q \in results : target[q] = t}

DeleteArrives(d, t) ==
    /\ pc[d] = "new"
    /\ target' = [target EXCEPT ![d] = t]
    /\ Go(d, "connecting")
    /\ UNCHANGED <<storeVars, lockVars, loop, runVars, outcome, queueVars, fetched, lost, vanished>>

DeleteFails(d) ==
    /\ Raises(d)
    /\ Go(d, "failed")
    /\ UNCHANGED <<storeVars, loop, target, runVars, outcome, queueVars, fetched, lost, vanished>>

\* session.get() and the rows the ORM cascades to: plain reads.
DeleteLoads(d) ==
    /\ pc[d] = "locking"
    /\ IF target[d] \in present
       THEN /\ fetched' = [fetched EXCEPT ![d] = RowsOf(target[d])]
            /\ Go(d, "loaded")
            /\ UNCHANGED lockVars
       ELSE /\ Go(d, "deleted")
            /\ EndTransaction(d)
            /\ UNCHANGED fetched
    /\ UNCHANGED <<storeVars, loop, target, runVars, outcome, queueVars, lost, vanished>>

\* mutant: neither the ORM nor the schema cascades to the rows that came later
DeletesNoCascade(d) ==
    /\ pc[d] = "loaded"
    /\ LockFree(target[d])
    /\ present' = present \ {target[d]}
    /\ results' = results \ fetched[d]
    /\ Go(d, "deleted")
    /\ EndTransaction(d)
    /\ UNCHANGED <<status, loop, target, runVars, outcome, queueVars, fetched, lost, vanished>>

\* The deletes wait for the lock of the task; ON DELETE CASCADE takes the rows
\* that came later, where the database enforces foreign keys.
Deletes(d) ==
    LET gone == IF RowLocks THEN RowsOf(target[d]) ELSE fetched[d]
    IN  /\ pc[d] = "loaded"
        /\ LockFree(target[d])
        /\ present' = present \ {target[d]}
        /\ results' = results \ gone
        /\ Go(d, "deleted")
        /\ EndTransaction(d)
        /\ UNCHANGED <<status, loop, target, runVars, outcome, queueVars, fetched, lost, vanished>>

-----------------------------------------------------------------------------
RequestStep(q) ==
    \/ \E t \in Tasks : Arrive(q, t)
    \/ ArriveFails(q) \/ Lookup(q) \/ Resume(q)

WorkerStep(w) ==
    \/ Take(w)
    \/ \E how \in Endings : Executed(w, how)
    \/ RecordFails(w) \/ RecordLookup(w) \/ RecordWrite(w)

DeleteStep(d) ==
    \/ \E t \in Tasks : DeleteArrives(d, t)
    \/ DeleteFails(d) \/ DeleteLoads(d) \/ Deletes(d)

Next ==
    \/ \E a \in Actors : Connect(a)
    \/ \E q \in Requests : RequestStep(q)
    \/ \E w \in Workers : WorkerStep(w)
    \/ \E d \in Deleters : DeleteStep(d)

Spec == Init /\ [][Next]_vars

\* The event loop, the threads and the database go on, children end by their
\* timeout at the latest, and the pool's timeout fires.  Nobody has to call.
Fairness ==
    /\ \A q \in Requests :
         WF_vars(pc[q] # "new" /\ (RequestStep(q) \/ Connect(q)))
    /\ \A w \in Workers : WF_vars(WorkerStep(w) \/ Connect(w))
    /\ \A d \in Deleters : WF_vars(pc[d] # "new" /\ (DeleteStep(d) \/ Connect(d)))

FairSpec == Spec /\ Fairness

-----------------------------------------------------------------------------
(* Properties                                                               *)

\* "A concurrent DELETE either runs before (we see the task) or after (the
\* runner has already enqueued) the lock is released - never interleaved"
\* (run_task_endpoint): no run is accepted for a task that is deleted by then,
\* however long its submit() waited.
NeverInterleaved == vanished = {}

\* "Hard-delete the task and its run rows" (delete_task_endpoint): no row of a
\* run outlives its task, also when the recorder and a DELETE cross.
NoOrphanRows == \A q \in results : target[q] \in present

\* "every accepted run produces exactly one task_results row" (_dispatch), read
\* with the deletion of its task as the only way to lose it: what waiting callers
\* leave of the pool is not enough for that.
LostOnlyWithTask == \A q \in lost : target[q] \notin present

\* A transaction that waits for the loop holds its connection and its lock, and
\* nobody else does: what a request, a recorder or a DELETE took it gives back on
\* every path, also when a statement between two others raises (transaction()).
NothingLeaks ==
    /\ \A a \in conns : pc[a] \in {"locking", "waiting", "woken", "writing", "loaded"}
    /\ \A t \in Tasks : rowLock[t] # Nobody =>
         rowLock[t] \in conns /\ pc[rowLock[t]] \in {"waiting", "woken", "writing"}

\* Commands that end workers leave one: a malformed run ends the worker that takes it.
SomeWorkerStays == Cardinality(Malformed) < Cardinality(Workers)

\* Every request is answered and every DELETE returns, unless malformed commands
\* have ended all workers: "the await blocks the caller when full" (submit), and
\* whatever raises in the recorder's, a request's or a DELETE's transaction, the
\* others find their connection, their room and their turn of the loop.
Answered ==
    SomeWorkerStays =>
        \A a \in Requests \cup Deleters :
            pc[a] \in {"connecting", "locking", "waiting", "woken", "loaded"} ~>
            pc[a] \in {"accepted", "unconfirmed", "notFound", "failed", "deleted"}

\* Every queued run whose command can be split is executed and its recorder called,
\* also behind a run that ended its worker and after recorder calls that raised,
\* unless malformed commands have ended all workers.
AcceptedIsRecorded ==
    SomeWorkerStays =>
        \A q \in Requests \ Malformed :
            pc[q] \in {"accepted", "unconfirmed"} ~> outcome[q] # "none"

\* "a synthetic TaskStatus.FAILED recorder call" (runner.py) leaves the task
\* failed: a task is "timeout" only if one of its runs timed out.
TimeoutMeansTimeout ==
    \A t \in Tasks : status[t] = "timeout" =>
        \E q \in Requests : target[q] = t /\ outcome[q] = "timeout"
=============================================================================

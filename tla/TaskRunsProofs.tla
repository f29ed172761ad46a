--------------------------- MODULE TaskRunsProofs ---------------------------
(***************************************************************************)
(* Proofs about TaskRuns for any number of requests, workers, deleters and *)
(* tasks, and for every size of the queue and of the pool.                 *)
(***************************************************************************)
EXTENDS TaskRuns, FiniteSetTheorems, TLAPS

-----------------------------------------------------------------------------
(* The inductive invariant                                                  *)

Places == {"new", "connecting", "locking", "waiting", "woken", "accepted",
           "unconfirmed", "notFound", "failed", "idle", "running", "ended", "writing",
           "loaded", "deleted"}

\* The types, by what they are about.
StoreTypes ==
    /\ present \subseteq Tasks
    /\ status \in [Tasks -> Statuses]
    /\ results \subseteq Requests
    /\ outcome \in [Requests -> {"none", "done", "failed", "timeout", "unstarted"}]
    /\ fetched \in [Deleters -> SUBSET Requests]
    /\ lost \subseteq Requests /\ vanished \subseteq Requests

CallTypes ==
    /\ loop \in Requests \cup Workers \cup {Nobody}
    /\ pc \in [Actors -> Places]
    /\ target \in [Actors -> Tasks \cup {NoTask}]
    /\ run \in [Workers -> Requests \cup {NoRun}]
    /\ woke \in [Workers -> Requests \cup {NoRun}]

LockTypes ==
    /\ rowLock \in [Tasks -> Actors \cup {Nobody}]
    /\ conns \subseteq Actors /\ IsFiniteSet(conns) /\ Cardinality(conns) <= PoolSize

QueueTypes ==
    /\ queue \in Seq(Requests) /\ Len(queue) <= QueueSize
    /\ putters \in Seq(Requests)

\* Where the calls of each kind can be, and what they hold there.
RequestPlaces == {"new", "connecting", "locking", "waiting", "woken", "accepted",
                  "unconfirmed", "notFound", "failed"}
WorkerPlaces == {"idle", "running", "ended", "connecting", "locking", "writing"}
DeleterPlaces == {"new", "connecting", "locking", "loaded", "deleted", "failed"}

RequestInv ==
    \A q \in Requests : pc[q] \in RequestPlaces /\ (pc[q] # "new" => target[q] \in Tasks)

DeleterInv ==
    \A d \in Deleters : pc[d] \in DeleterPlaces /\ (pc[d] # "new" => target[d] \in Tasks)

WorkerInv ==
    \A w \in Workers :
        /\ pc[w] \in WorkerPlaces
        /\ pc[w] # "idle" =>
             /\ run[w] \in Requests /\ pc[run[w]] \in {"accepted", "unconfirmed"}
             /\ target[w] = target[run[w]]
        /\ pc[w] \in {"connecting", "locking", "writing"} => outcome[run[w]] # "none"

\* What is queued or recorded is the run of a call that has been answered.
QueueInv == \A i \in 1 .. Len(queue) : pc[queue[i]] \in {"accepted", "unconfirmed"}
ResultInv == \A q \in results : pc[q] \in {"accepted", "unconfirmed"}

\* The putters are the puts that wait, and each of them waits once.
PutInv ==
    /\ \A i \in 1 .. Len(putters) : pc[putters[i]] = "waiting"
    /\ \A i, j \in 1 .. Len(putters) : putters[i] = putters[j] => i = j

\* A connection is held from the first statement to the end of the transaction.
Inside == {"locking", "waiting", "woken", "writing", "loaded"}

ConnInv == \A a \in Actors : a \in conns <=> pc[a] \in Inside

\* A row lock is held by one who is at that task ...
Locking == {"waiting", "woken", "writing"}

LockInv ==
    \A t \in Tasks : rowLock[t] # Nobody =>
        pc[rowLock[t]] \in Locking /\ target[rowLock[t]] = t

\* ... and by everyone who has found it there.
HeldInv ==
    RowLocks => \A a \in Actors : pc[a] \in Locking =>
        target[a] \in present /\ rowLock[target[a]] = a

\* Between their statements the event loop is theirs.
LoopInv ==
    \A c \in Requests \cup Workers :
        pc[c] \in {"connecting", "locking", "writing"} => loop = c

\* What the locks are for.
SafeInv == RowLocks => NeverInterleaved /\ NoOrphanRows

IInv ==
    /\ StoreTypes /\ CallTypes /\ LockTypes /\ QueueTypes
    /\ RequestInv /\ DeleterInv /\ WorkerInv
    /\ QueueInv /\ ResultInv /\ PutInv
    /\ ConnInv /\ LockInv /\ HeldInv /\ LoopInv
    /\ SafeInv

\* The parts of the type invariant, and the finite pool, are the type invariant.
LEMMA TypeParts == StoreTypes /\ CallTypes /\ LockTypes /\ QueueTypes => TypeOK
BY DEF TypeOK, StoreTypes, CallTypes, LockTypes, QueueTypes, Places

-----------------------------------------------------------------------------
(* Facts about the constants and the data                                   *)

\* What is in the queue, and who waits, is a request.
LEMMA ElementFacts ==
    ASSUME QueueTypes
    PROVE  /\ \A i \in 1 .. Len(queue) : queue[i] \in Requests
           /\ \A i \in 1 .. Len(putters) : putters[i] \in Requests
           /\ Len(queue) \in Nat /\ Len(putters) \in Nat
BY DEF QueueTypes

\* A call is of one kind.
LEMMA Roles ==
    /\ \A q \in Requests : q \in Actors /\ q \notin Workers /\ q \notin Deleters
    /\ \A w \in Workers : w \in Actors /\ w \notin Requests /\ w \notin Deleters
    /\ \A d \in Deleters : d \in Actors /\ d \notin Requests /\ d \notin Workers
    /\ \A a \in Actors : a \in Requests \/ a \in Workers \/ a \in Deleters
    /\ Nobody \notin Actors
    /\ NoRun \notin Requests
BY DistinctAssumption DEF Actors

\* What a put appends is at the end of the queue.
LEMMA AppendFacts ==
    ASSUME NEW S, NEW s \in Seq(S), NEW x \in S
    PROVE  /\ Append(s, x) \in Seq(S)
           /\ Len(s) \in Nat
           /\ Len(Append(s, x)) = Len(s) + 1
           /\ \A i \in 1 .. Len(s) : Append(s, x)[i] = s[i]
           /\ Append(s, x)[Len(s) + 1] = x
OBVIOUS

\* What is taken is the first, and the others move up.
LEMMA TailFacts ==
    ASSUME NEW S, NEW s \in Seq(S), s # <<>>
    PROVE  /\ Head(s) \in S
           /\ Head(s) = s[1]
           /\ Len(s) \in Nat \ {0}
           /\ Tail(s) \in Seq(S)
           /\ Len(Tail(s)) = Len(s) - 1
           /\ \A i \in 1 .. Len(Tail(s)) : Tail(s)[i] = s[i + 1]
OBVIOUS

\* One more connection, or one fewer.
LEMMA PoolFacts ==
    ASSUME IsFiniteSet(conns), NEW a
    PROVE  /\ Cardinality(conns) \in Nat
           /\ IsFiniteSet(conns \cup {a}) /\ IsFiniteSet(conns \ {a})
           /\ Cardinality(conns \cup {a}) <= Cardinality(conns) + 1
           /\ Cardinality(conns \ {a}) <= Cardinality(conns)
<1>1. Cardinality(conns) \in Nat
  BY FS_CardinalityType
<1>2. /\ IsFiniteSet(conns \cup {a})
      /\ Cardinality(conns \cup {a}) =
           IF a \in conns THEN Cardinality(conns) ELSE Cardinality(conns) + 1
  BY FS_AddElement
<1>3. /\ IsFiniteSet(conns \ {a})
      /\ Cardinality(conns \ {a}) =
           IF a \in conns THEN Cardinality(conns) - 1 ELSE Cardinality(conns)
  BY FS_RemoveElement
<1> QED
  BY <1>1, <1>2, <1>3

-----------------------------------------------------------------------------
(* What the shared pieces of the actions do                                 *)

\* The end of a transaction gives back its connection and its row locks.
LEMMA EndFacts ==
    ASSUME LockTypes, NEW a \in Actors, EndTransaction(a)
    PROVE  /\ rowLock' \in [Tasks -> Actors \cup {Nobody}]
           /\ \A t \in Tasks : rowLock'[t] = IF rowLock[t] = a THEN Nobody ELSE rowLock[t]
           /\ conns' = conns \ {a} /\ conns' \subseteq Actors
           /\ IsFiniteSet(conns') /\ Cardinality(conns') <= PoolSize
<1>1. conns' = conns \ {a} /\ conns' \subseteq Actors
  BY DEF EndTransaction, LockTypes
<1>2. IsFiniteSet(conns') /\ Cardinality(conns') <= Cardinality(conns)
  BY <1>1, PoolFacts DEF LockTypes
<1>3. Cardinality(conns) \in Nat /\ Cardinality(conns') \in Nat /\ Cardinality(conns) <= PoolSize
  BY <1>2, FS_CardinalityType DEF LockTypes
<1> QED
  BY <1>1, <1>2, <1>3, SizeAssumption DEF EndTransaction, LockTypes

\* A lock is taken for the one who has found the task.
LEMMA ClaimFacts ==
    ASSUME LockTypes, NEW a \in Actors, NEW t \in Tasks, Claim(a, t)
    PROVE  /\ rowLock' \in [Tasks -> Actors \cup {Nobody}]
           /\ \A u \in Tasks : rowLock'[u] = IF RowLocks /\ u = t THEN a ELSE rowLock[u]
BY DEF Claim, LockTypes

Puts(q) ==
    /\ Len(queue) < QueueSize
    /\ queue' = Append(queue, q)
    /\ vanished' = IF target[q] \in present THEN vanished ELSE vanished \cup {q}
    /\ \E answer \in {"accepted", "unconfirmed"} : pc' = [pc EXCEPT ![q] = answer]
    /\ putters' = putters

Waits(q) ==
    /\ Len(queue) = QueueSize
    /\ putters' = Append(putters, q)
    /\ pc' = [pc EXCEPT ![q] = "waiting"]
    /\ queue' = queue /\ vanished' = vanished

\* A put appends its run or waits behind the other puts.
LEMMA PutFacts ==
    ASSUME StoreTypes, CallTypes, QueueTypes, NEW q \in Requests, Put(q)
    PROVE  /\ \/ Puts(q) /\ pc'[q] \in {"accepted", "unconfirmed"}
              \/ Waits(q) /\ pc'[q] = "waiting"
           /\ queue' \in Seq(Requests) /\ Len(queue') <= QueueSize
           /\ putters' \in Seq(Requests)
           /\ vanished' \subseteq Requests
<1>1. pc \in [Actors -> Places] /\ q \in Actors
  BY Roles DEF CallTypes
<1>2. \/ Puts(q) /\ pc'[q] \in {"accepted", "unconfirmed"}
      \/ Waits(q) /\ pc'[q] = "waiting"
  BY <1>1 DEF Put, Puts, Waits, Go, Answers
<1>3. CASE Puts(q)
  <2>1. queue' \in Seq(Requests) /\ Len(queue') = Len(queue) + 1 /\ Len(queue) \in Nat
    BY <1>3, AppendFacts DEF Puts, QueueTypes
  <2>2. putters' \in Seq(Requests)
    BY <1>3 DEF Puts, QueueTypes
  <2>3. vanished' \subseteq Requests
    BY <1>3 DEF Puts, StoreTypes
  <2>4. Len(queue) < QueueSize
    BY <1>3 DEF Puts
  <2> QED
    BY <1>2, <2>1, <2>2, <2>3, <2>4, SizeAssumption
<1>4. CASE Waits(q)
  <2>1. putters' \in Seq(Requests)
    BY <1>4, AppendFacts DEF Waits, QueueTypes
  <2>2. queue' = queue /\ vanished' = vanished
    BY <1>4 DEF Waits
  <2> QED
    BY <1>2, <2>1, <2>2 DEF QueueTypes, StoreTypes
<1> QED
  BY <1>2, <1>3, <1>4

\* Looking up the task ends the request, or leads to the put.
LEMMA LookupFacts ==
    ASSUME StoreTypes, CallTypes, QueueTypes, NEW q \in Requests, Lookup(q)
    PROVE  /\ pc[q] = "locking" /\ LockFree(target[q])
           /\ \/ /\ target[q] \notin present
                 /\ pc' = [pc EXCEPT ![q] = "notFound"]
                 /\ EndTransaction(q)
                 /\ UNCHANGED <<queue, putters, vanished>>
              \/ target[q] \in present /\ Put(q) /\ Puts(q) /\ EndTransaction(q)
              \/ /\ target[q] \in present /\ Put(q) /\ Waits(q)
                 /\ Claim(q, target[q]) /\ conns' = conns
           /\ UNCHANGED <<present, status, results, target, run, woke, outcome, fetched, lost>>
           /\ loop' = Nobody
BY PutFacts DEF Lookup, Go, storeVars, runVars, queueVars

\* A put that resumes appends its run or waits again.
LEMMA ResumeFacts ==
    ASSUME StoreTypes, CallTypes, QueueTypes, NEW q \in Requests, Resume(q)
    PROVE  /\ pc[q] = "woken" /\ Put(q)
           /\ \/ Puts(q) /\ EndTransaction(q)
              \/ Waits(q) /\ UNCHANGED <<rowLock, conns>>
           /\ UNCHANGED <<present, status, results, target, run, woke, outcome, fetched, lost,
                           loop>>
BY PutFacts DEF Resume, storeVars, lockVars, runVars

Wakes(w) ==
    /\ putters # <<>>
    /\ \E s \in {"running", "ended"} :
         pc' = [pc EXCEPT ![w] = s, ![Head(putters)] = "woken"]
    /\ woke' = [woke EXCEPT ![w] = Head(putters)]
    /\ putters' = Tail(putters)

Idles(w) ==
    /\ \E s \in {"running", "ended"} : pc' = [pc EXCEPT ![w] = s]
    /\ woke' = [woke EXCEPT ![w] = NoRun]
    /\ putters' = putters

\* A worker takes the oldest run and wakes the oldest put, if one waits.
LEMMA TakeFacts ==
    ASSUME QueueTypes, NEW w \in Workers, Take(w)
    PROVE  /\ pc[w] = "idle"
           /\ queue[1] \in Requests
           /\ 1 \in 1 .. Len(queue)
           /\ run' = [run EXCEPT ![w] = queue[1]]
           /\ target' = [target EXCEPT ![w] = target[queue[1]]]
           /\ queue' \in Seq(Requests) /\ Len(queue') <= QueueSize
           /\ Len(queue') = Len(queue) - 1
           /\ \A i \in 1 .. Len(queue') : queue'[i] = queue[i + 1]
           /\ Idles(w) \/ Wakes(w)
           /\ UNCHANGED <<present, status, results, rowLock, conns, loop, outcome, fetched,
                           lost, vanished>>
<1>1. /\ Head(queue) \in Requests /\ Head(queue) = queue[1] /\ Len(queue) \in Nat \ {0}
      /\ Tail(queue) \in Seq(Requests) /\ Len(Tail(queue)) = Len(queue) - 1
      /\ \A i \in 1 .. Len(Tail(queue)) : Tail(queue)[i] = queue[i + 1]
  BY TailFacts DEF Take, QueueTypes
<1> QED
  BY <1>1, SizeAssumption DEF Take, Starts, QueueTypes, Idles, Wakes, Go, storeVars, lockVars

\* The put that is woken is the first, and the others stay in order.
LEMMA WakeFacts ==
    ASSUME QueueTypes, PutInv, NEW w \in Workers, Wakes(w)
    PROVE  /\ putters[1] \in Requests /\ pc[putters[1]] = "waiting"
           /\ \E s \in {"running", "ended"} :
                pc' = [pc EXCEPT ![w] = s, ![putters[1]] = "woken"]
           /\ woke' = [woke EXCEPT ![w] = putters[1]]
           /\ putters' \in Seq(Requests)
           /\ Len(putters') = Len(putters) - 1 /\ Len(putters) \in Nat \ {0}
           /\ \A i \in 1 .. Len(putters') : putters'[i] = putters[i + 1]
<1>1. /\ Head(putters) \in Requests /\ Head(putters) = putters[1]
      /\ Len(putters) \in Nat \ {0}
      /\ Tail(putters) \in Seq(Requests) /\ Len(Tail(putters)) = Len(putters) - 1
      /\ \A i \in 1 .. Len(Tail(putters)) : Tail(putters)[i] = putters[i + 1]
  BY TailFacts DEF Wakes, QueueTypes
<1>2. 1 \in 1 .. Len(putters)
  BY <1>1
<1> QED
  BY <1>1, <1>2 DEF Wakes, PutInv

\* What changes when a worker takes a run and no put waits.
LEMMA IdleStep ==
    ASSUME CallTypes, QueueTypes, NEW w \in Workers, Take(w), Idles(w)
    PROVE  /\ pc[w] = "idle"
           /\ queue[1] \in Requests /\ 1 \in 1 .. Len(queue)
           /\ pc'[w] \in {"running", "ended"}
           /\ \A a \in Actors \ {w} : pc'[a] = pc[a]
           /\ run' = [run EXCEPT ![w] = queue[1]]
           /\ target' = [target EXCEPT ![w] = target[queue[1]]]
           /\ UNCHANGED <<present, status, results, rowLock, conns, loop, outcome, fetched,
                           lost, vanished>>
<1>1. w \in Actors /\ pc \in [Actors -> Places]
  BY Roles DEF CallTypes
<1> QED
  BY <1>1, TakeFacts DEF Idles

\* Who raises is inside a transaction or has not got a connection for it yet: in both
\* cases it ends with neither a connection nor a lock.
LEMMA RaiseFacts ==
    ASSUME IInv, NEW a \in Actors, Raises(a)
    PROVE  /\ pc[a] \in {"connecting", "locking", "writing", "loaded"}
           /\ EndTransaction(a)
<1>1. CASE pc[a] = "connecting" /\ UNCHANGED lockVars
  <2>1. a \notin conns /\ \A t \in Tasks : rowLock[t] # a
    BY <1>1, Roles DEF IInv, ConnInv, LockInv, Inside, Locking
  <2>2. rowLock \in [Tasks -> Actors \cup {Nobody}]
    BY DEF IInv, LockTypes
  <2>3. conns' = conns \ {a}
    BY <1>1, <2>1 DEF lockVars
  <2>4. rowLock' = [t \in Tasks |-> IF rowLock[t] = a THEN Nobody ELSE rowLock[t]]
    BY <1>1, <2>1, <2>2 DEF lockVars
  <2> QED
    BY <1>1, <2>3, <2>4 DEF EndTransaction
<1>2. CASE pc[a] \in {"locking", "writing", "loaded"} /\ EndTransaction(a)
  BY <1>2
<1> QED
  BY <1>1, <1>2 DEF Raises

\* What changes when a worker wakes a put.
LEMMA WakeStep ==
    ASSUME CallTypes, QueueTypes, PutInv, NEW w \in Workers, Take(w), Wakes(w)
    PROVE  /\ putters[1] \in Requests /\ pc[putters[1]] = "waiting" /\ pc[w] = "idle"
           /\ queue[1] \in Requests /\ 1 \in 1 .. Len(queue)
           /\ pc'[w] \in {"running", "ended"}
           /\ \A a \in Actors \ {w} : pc'[a] = IF a = putters[1] THEN "woken" ELSE pc[a]
           /\ pc' \in [Actors -> Places]
           /\ woke' \in [Workers -> Requests \cup {NoRun}]
           /\ run' = [run EXCEPT ![w] = queue[1]]
           /\ target' = [target EXCEPT ![w] = target[queue[1]]]
           /\ UNCHANGED <<present, status, results, rowLock, conns, loop, outcome, fetched,
                           lost, vanished>>
<1>1. /\ putters[1] \in Requests /\ pc[putters[1]] = "waiting"
      /\ \E s \in {"running", "ended"} :
           pc' = [pc EXCEPT ![w] = s, ![putters[1]] = "woken"]
      /\ woke' = [woke EXCEPT ![w] = putters[1]]
  BY WakeFacts
<1>2. /\ pc[w] = "idle" /\ queue[1] \in Requests /\ 1 \in 1 .. Len(queue)
      /\ run' = [run EXCEPT ![w] = queue[1]]
      /\ target' = [target EXCEPT ![w] = target[queue[1]]]
      /\ UNCHANGED <<present, status, results, rowLock, conns, loop, outcome, fetched,
                      lost, vanished>>
  BY TakeFacts
<1>3. putters[1] \in Actors /\ w \in Actors /\ putters[1] # w
  BY <1>1, Roles
<1>4. /\ pc' \in [Actors -> Places]
      /\ pc'[w] \in {"running", "ended"}
      /\ \A a \in Actors \ {w} : pc'[a] = IF a = putters[1] THEN "woken" ELSE pc[a]
  BY <1>1, <1>3 DEF CallTypes, Places
<1>5. woke' \in [Workers -> Requests \cup {NoRun}]
  BY <1>1 DEF CallTypes
<1> QED
  BY <1>1, <1>2, <1>4, <1>5

-----------------------------------------------------------------------------
(* Every step preserves it                                                  *)

\* The tables, the outcomes and the history.
LEMMA StoreTypesNext == IInv /\ [Next]_vars => StoreTypes'
<1> SUFFICES ASSUME IInv, [Next]_vars PROVE StoreTypes'
  OBVIOUS
<1> USE DEF IInv, StoreTypes, CallTypes, WorkerInv
<1>1. ASSUME NEW a \in Actors, Connect(a)
      PROVE  StoreTypes'
  BY <1>1, Roles DEF Connect, Go, storeVars, queueVars, runVars
<1>2. ASSUME NEW q \in Requests, NEW t \in Tasks, Arrive(q, t)
      PROVE  StoreTypes'
  BY <1>2, Roles DEF Arrive, Go, storeVars, lockVars, queueVars, runVars
<1>3. ASSUME NEW q \in Requests, ArriveFails(q)
      PROVE  StoreTypes'
  BY <1>3, Roles, RaiseFacts, EndFacts DEF ArriveFails, Go, storeVars, lockVars, queueVars, runVars
<1>4. ASSUME NEW q \in Requests, Lookup(q)
      PROVE  StoreTypes'
  BY <1>4, LookupFacts, PutFacts
<1>5. ASSUME NEW q \in Requests, Resume(q)
      PROVE  StoreTypes'
  BY <1>5, ResumeFacts, PutFacts
<1>6. ASSUME NEW w \in Workers, Take(w)
      PROVE  StoreTypes'
  BY <1>6, TakeFacts
<1>7. ASSUME NEW w \in Workers, NEW how \in Endings, Executed(w, how)
      PROVE  StoreTypes'
  BY <1>7, Roles, EndingAssumption DEF Executed, Go, storeVars, lockVars, queueVars, runVars
<1>8. ASSUME NEW w \in Workers, RecordFails(w)
      PROVE  StoreTypes'
  BY <1>8, Roles, RaiseFacts, EndFacts
     DEF RecordFails, WorkerFree, Go, storeVars, lockVars, queueVars
<1>9. ASSUME NEW w \in Workers, RecordLookup(w)
      PROVE  StoreTypes'
  BY <1>9, Roles
     DEF RecordLookup, LockFree, Claim, WorkerFree, EndTransaction, Go, storeVars,
         queueVars, runVars
<1>10. ASSUME NEW w \in Workers, RecordWrite(w)
      PROVE  StoreTypes'
  <2>1. run[w] \in Requests /\ target[w] \in Tasks \cup {NoTask}
    BY <1>10, Roles DEF RecordWrite
  <2>2. DerivedStatus(outcome[run[w]]) \in Statuses
    <3>1. outcome[run[w]] # "none"
      BY <1>10 DEF RecordWrite
    <3> QED
      BY <2>1, <3>1 DEF DerivedStatus, Statuses
  <2> QED
    BY <1>10, <2>1, <2>2 DEF RecordWrite
<1>11. ASSUME NEW d \in Deleters, NEW t \in Tasks, DeleteArrives(d, t)
      PROVE  StoreTypes'
  BY <1>11, Roles DEF DeleteArrives, Go, storeVars, lockVars, queueVars, runVars
<1>12. ASSUME NEW d \in Deleters, DeleteFails(d)
      PROVE  StoreTypes'
  BY <1>12, Roles, RaiseFacts, EndFacts DEF DeleteFails, Go, storeVars, lockVars, queueVars, runVars
<1>13. ASSUME NEW d \in Deleters, DeleteLoads(d)
      PROVE  StoreTypes'
  BY <1>13, Roles
     DEF DeleteLoads, Go, EndTransaction, RowsOf, storeVars, lockVars, queueVars, runVars
<1>14. ASSUME NEW d \in Deleters, Deletes(d)
      PROVE  StoreTypes'
  BY <1>14, Roles DEF Deletes, LockFree, Go, EndTransaction, RowsOf, queueVars, runVars
<1>15. CASE UNCHANGED vars
  BY <1>15 DEF vars, storeVars, lockVars, queueVars, runVars
<1> HIDE DEF IInv, StoreTypes, CallTypes, WorkerInv
<1> QED
  BY <1>1, <1>2, <1>3, <1>4, <1>5, <1>6, <1>7, <1>8, <1>9, <1>10, <1>11, <1>12, <1>13,
     <1>14, <1>15
  DEF Next, RequestStep, WorkerStep, DeleteStep

\* Where the calls are.
LEMMA CallTypesNext == IInv /\ [Next]_vars => CallTypes'
<1> SUFFICES ASSUME IInv, [Next]_vars PROVE CallTypes'
  OBVIOUS
<1> USE DEF IInv, CallTypes, Places, WorkerInv
<1>1. ASSUME NEW a \in Actors, Connect(a)
      PROVE  CallTypes'
  BY <1>1, Roles DEF Connect, Go, storeVars, queueVars, runVars
<1>2. ASSUME NEW q \in Requests, NEW t \in Tasks, Arrive(q, t)
      PROVE  CallTypes'
  BY <1>2, Roles DEF Arrive, Go, storeVars, lockVars, queueVars, runVars
<1>3. ASSUME NEW q \in Requests, ArriveFails(q)
      PROVE  CallTypes'
  BY <1>3, Roles, RaiseFacts, EndFacts DEF ArriveFails, Go, storeVars, lockVars, queueVars, runVars
<1>4. ASSUME NEW q \in Requests, Lookup(q)
      PROVE  CallTypes'
  BY <1>4, Roles, LookupFacts DEF Puts, Waits
<1>5. ASSUME NEW q \in Requests, Resume(q)
      PROVE  CallTypes'
  <2>1. /\ UNCHANGED <<loop, target, run, woke>>
        /\ \E to \in {"accepted", "unconfirmed", "waiting"} : pc' = [pc EXCEPT ![q] = to]
    BY <1>5, ResumeFacts DEF Puts, Waits
  <2> QED
    BY <2>1, Roles
<1>6. ASSUME NEW w \in Workers, Take(w)
      PROVE  CallTypes'
  <2>1. /\ w \in Actors /\ queue[1] \in Requests /\ queue[1] \in Actors
        /\ run' = [run EXCEPT ![w] = queue[1]]
        /\ target' = [target EXCEPT ![w] = target[queue[1]]]
        /\ loop' = loop
    BY <1>6, TakeFacts, Roles
  <2>2. target[queue[1]] \in Tasks \cup {NoTask}
    BY <2>1
  <2>3. pc' \in [Actors -> Places] /\ woke' \in [Workers -> Requests \cup {NoRun}]
    <3>1. CASE Idles(w)
      BY <2>1, <3>1 DEF Idles
    <3>2. CASE Wakes(w)
      BY <1>6, <2>1, <3>2, WakeStep, Roles
    <3> QED
      BY <1>6, <3>1, <3>2, TakeFacts
  <2> QED
    BY <2>1, <2>2, <2>3
<1>7. ASSUME NEW w \in Workers, NEW how \in Endings, Executed(w, how)
      PROVE  CallTypes'
  BY <1>7, Roles DEF Executed, Go, storeVars, lockVars, queueVars, runVars
<1>8. ASSUME NEW w \in Workers, RecordFails(w)
      PROVE  CallTypes'
  BY <1>8, Roles, RaiseFacts, EndFacts
     DEF RecordFails, WorkerFree, Go, storeVars, lockVars, queueVars
<1>9. ASSUME NEW w \in Workers, RecordLookup(w)
      PROVE  CallTypes'
  BY <1>9, Roles
     DEF RecordLookup, LockFree, Claim, WorkerFree, EndTransaction, Go, storeVars,
         queueVars, runVars
<1>10. ASSUME NEW w \in Workers, RecordWrite(w)
      PROVE  CallTypes'
  BY <1>10, Roles DEF RecordWrite, WorkerFree, EndTransaction, Go, DerivedStatus, queueVars
<1>11. ASSUME NEW d \in Deleters, NEW t \in Tasks, DeleteArrives(d, t)
      PROVE  CallTypes'
  BY <1>11, Roles DEF DeleteArrives, Go, storeVars, lockVars, queueVars, runVars
<1>12. ASSUME NEW d \in Deleters, DeleteFails(d)
      PROVE  CallTypes'
  BY <1>12, Roles, RaiseFacts, EndFacts DEF DeleteFails, Go, storeVars, lockVars, queueVars, runVars
<1>13. ASSUME NEW d \in Deleters, DeleteLoads(d)
      PROVE  CallTypes'
  BY <1>13, Roles
     DEF DeleteLoads, Go, EndTransaction, RowsOf, storeVars, lockVars, queueVars, runVars
<1>14. ASSUME NEW d \in Deleters, Deletes(d)
      PROVE  CallTypes'
  BY <1>14, Roles DEF Deletes, LockFree, Go, EndTransaction, RowsOf, queueVars, runVars
<1>15. CASE UNCHANGED vars
  BY <1>15 DEF vars, storeVars, lockVars, queueVars, runVars
<1> HIDE DEF IInv, CallTypes, Places, WorkerInv
<1> QED
  BY <1>1, <1>2, <1>3, <1>4, <1>5, <1>6, <1>7, <1>8, <1>9, <1>10, <1>11, <1>12, <1>13,
     <1>14, <1>15
  DEF Next, RequestStep, WorkerStep, DeleteStep

\* Locks and connections; the pool keeps its bound.
LEMMA LockTypesNext == IInv /\ [Next]_vars => LockTypes'
<1> SUFFICES ASSUME IInv, [Next]_vars PROVE LockTypes'
  OBVIOUS
<1> USE DEF IInv, LockTypes, RequestInv, DeleterInv, WorkerInv
<1>1. ASSUME NEW a \in Actors, Connect(a)
      PROVE  LockTypes'
  <2>1. conns' \subseteq Actors /\ rowLock' = rowLock
    BY <1>1 DEF Connect
  <2>2. conns' = conns \cup {a} /\ Cardinality(conns) < PoolSize
    BY <1>1 DEF Connect
  <2>3. IsFiniteSet(conns') /\ Cardinality(conns') <= Cardinality(conns) + 1
    BY <2>2, PoolFacts
  <2>4. Cardinality(conns) \in Nat /\ Cardinality(conns') \in Nat
    BY <2>3, FS_CardinalityType
  <2>5. Cardinality(conns') <= PoolSize
    BY <2>2, <2>3, <2>4, SizeAssumption
  <2> QED
    BY <2>1, <2>3, <2>5
<1>2. ASSUME NEW q \in Requests, NEW t \in Tasks, Arrive(q, t)
      PROVE  LockTypes'
  BY <1>2, Roles DEF Arrive, Go, storeVars, lockVars, queueVars, runVars
<1>3. ASSUME NEW q \in Requests, ArriveFails(q)
      PROVE  LockTypes'
  BY <1>3, Roles, RaiseFacts, EndFacts DEF ArriveFails, Go, storeVars, lockVars, queueVars, runVars
<1>4. ASSUME NEW q \in Requests, Lookup(q)
      PROVE  LockTypes'
  <2>1. q \in Actors /\ target[q] \in Tasks
    BY <1>4, Roles DEF Lookup
  <2> QED
    BY <1>4, <2>1, LookupFacts, EndFacts, ClaimFacts
<1>5. ASSUME NEW q \in Requests, Resume(q)
      PROVE  LockTypes'
  BY <1>5, Roles, ResumeFacts, EndFacts
<1>6. ASSUME NEW w \in Workers, Take(w)
      PROVE  LockTypes'
  BY <1>6, TakeFacts
<1>7. ASSUME NEW w \in Workers, NEW how \in Endings, Executed(w, how)
      PROVE  LockTypes'
  BY <1>7, Roles DEF Executed, Go, storeVars, lockVars, queueVars, runVars
<1>8. ASSUME NEW w \in Workers, RecordFails(w)
      PROVE  LockTypes'
  BY <1>8, Roles, RaiseFacts, EndFacts
     DEF RecordFails, WorkerFree, Go, storeVars, lockVars, queueVars
<1>9. ASSUME NEW w \in Workers, RecordLookup(w)
      PROVE  LockTypes'
  <2>1. CASE target[w] \in present
    BY <1>9, <2>1, Roles, ClaimFacts DEF RecordLookup, StoreTypes
  <2>2. CASE target[w] \notin present
    BY <1>9, <2>2, Roles, EndFacts DEF RecordLookup
  <2> QED
    BY <2>1, <2>2
<1>10. ASSUME NEW w \in Workers, RecordWrite(w)
      PROVE  LockTypes'
  <2>1. EndTransaction(w)
    BY <1>10 DEF RecordWrite
  <2> QED
    BY <2>1, Roles, EndFacts
<1>11. ASSUME NEW d \in Deleters, NEW t \in Tasks, DeleteArrives(d, t)
      PROVE  LockTypes'
  BY <1>11, Roles DEF DeleteArrives, Go, storeVars, lockVars, queueVars, runVars
<1>12. ASSUME NEW d \in Deleters, DeleteFails(d)
      PROVE  LockTypes'
  BY <1>12, Roles, RaiseFacts, EndFacts DEF DeleteFails, Go, storeVars, lockVars, queueVars, runVars
<1>13. ASSUME NEW d \in Deleters, DeleteLoads(d)
      PROVE  LockTypes'
  BY <1>13, Roles, EndFacts DEF DeleteLoads, lockVars
<1>14. ASSUME NEW d \in Deleters, Deletes(d)
      PROVE  LockTypes'
  BY <1>14, Roles, EndFacts DEF Deletes
<1>15. CASE UNCHANGED vars
  BY <1>15 DEF vars, storeVars, lockVars, queueVars, runVars
<1> HIDE DEF IInv, LockTypes, RequestInv, DeleterInv, WorkerInv
<1> QED
  BY <1>1, <1>2, <1>3, <1>4, <1>5, <1>6, <1>7, <1>8, <1>9, <1>10, <1>11, <1>12, <1>13,
     <1>14, <1>15
  DEF Next, RequestStep, WorkerStep, DeleteStep

\* The queue keeps its bound.
LEMMA QueueTypesNext == IInv /\ [Next]_vars => QueueTypes'
<1> SUFFICES ASSUME IInv, [Next]_vars PROVE QueueTypes'
  OBVIOUS
<1> USE DEF IInv, QueueTypes
<1>1. ASSUME NEW a \in Actors, Connect(a)
      PROVE  QueueTypes'
  BY <1>1, Roles DEF Connect, Go, storeVars, queueVars, runVars
<1>2. ASSUME NEW q \in Requests, NEW t \in Tasks, Arrive(q, t)
      PROVE  QueueTypes'
  BY <1>2, Roles DEF Arrive, Go, storeVars, lockVars, queueVars, runVars
<1>3. ASSUME NEW q \in Requests, ArriveFails(q)
      PROVE  QueueTypes'
  BY <1>3, Roles, RaiseFacts, EndFacts DEF ArriveFails, Go, storeVars, lockVars, queueVars, runVars
<1>4. ASSUME NEW q \in Requests, Lookup(q)
      PROVE  QueueTypes'
  BY <1>4, LookupFacts, PutFacts
<1>5. ASSUME NEW q \in Requests, Resume(q)
      PROVE  QueueTypes'
  BY <1>5, ResumeFacts, PutFacts
<1>6. ASSUME NEW w \in Workers, Take(w)
      PROVE  QueueTypes'
  <2>1. CASE Idles(w)
    BY <1>6, <2>1, TakeFacts DEF Idles
  <2>2. CASE Wakes(w)
    BY <1>6, <2>2, TakeFacts, WakeFacts
  <2> QED
    BY <1>6, <2>1, <2>2, TakeFacts
<1>7. ASSUME NEW w \in Workers, NEW how \in Endings, Executed(w, how)
      PROVE  QueueTypes'
  BY <1>7, Roles DEF Executed, Go, storeVars, lockVars, queueVars, runVars
<1>8. ASSUME NEW w \in Workers, RecordFails(w)
      PROVE  QueueTypes'
  BY <1>8, Roles, RaiseFacts, EndFacts
     DEF RecordFails, WorkerFree, Go, storeVars, lockVars, queueVars
<1>9. ASSUME NEW w \in Workers, RecordLookup(w)
      PROVE  QueueTypes'
  BY <1>9, Roles
     DEF RecordLookup, LockFree, Claim, WorkerFree, EndTransaction, Go, storeVars,
         queueVars, runVars
<1>10. ASSUME NEW w \in Workers, RecordWrite(w)
      PROVE  QueueTypes'
  BY <1>10, Roles DEF RecordWrite, WorkerFree, EndTransaction, Go, DerivedStatus, queueVars
<1>11. ASSUME NEW d \in Deleters, NEW t \in Tasks, DeleteArrives(d, t)
      PROVE  QueueTypes'
  BY <1>11, Roles DEF DeleteArrives, Go, storeVars, lockVars, queueVars, runVars
<1>12. ASSUME NEW d \in Deleters, DeleteFails(d)
      PROVE  QueueTypes'
  BY <1>12, Roles, RaiseFacts, EndFacts DEF DeleteFails, Go, storeVars, lockVars, queueVars, runVars
<1>13. ASSUME NEW d \in Deleters, DeleteLoads(d)
      PROVE  QueueTypes'
  BY <1>13, Roles
     DEF DeleteLoads, Go, EndTransaction, RowsOf, storeVars, lockVars, queueVars, runVars
<1>14. ASSUME NEW d \in Deleters, Deletes(d)
      PROVE  QueueTypes'
  BY <1>14, Roles DEF Deletes, LockFree, Go, EndTransaction, RowsOf, queueVars, runVars
<1>15. CASE UNCHANGED vars
  BY <1>15 DEF vars, storeVars, lockVars, queueVars, runVars
<1> HIDE DEF IInv, QueueTypes
<1> QED
  BY <1>1, <1>2, <1>3, <1>4, <1>5, <1>6, <1>7, <1>8, <1>9, <1>10, <1>11, <1>12, <1>13,
     <1>14, <1>15
  DEF Next, RequestStep, WorkerStep, DeleteStep

\* Requests.
LEMMA RequestInvNext == IInv /\ [Next]_vars => RequestInv'
<1> SUFFICES ASSUME IInv, [Next]_vars PROVE RequestInv'
  OBVIOUS
<1> USE DEF IInv, CallTypes, RequestInv, RequestPlaces
<1>1. ASSUME NEW a \in Actors, Connect(a)
      PROVE  RequestInv'
  BY <1>1, Roles DEF Connect, Go, storeVars, queueVars, runVars
<1>2. ASSUME NEW q \in Requests, NEW t \in Tasks, Arrive(q, t)
      PROVE  RequestInv'
  BY <1>2, Roles DEF Arrive, Go, storeVars, lockVars, queueVars, runVars
<1>3. ASSUME NEW q \in Requests, ArriveFails(q)
      PROVE  RequestInv'
  BY <1>3, Roles, RaiseFacts, EndFacts DEF ArriveFails, Go, storeVars, lockVars, queueVars, runVars
<1>4. ASSUME NEW q \in Requests, Lookup(q)
      PROVE  RequestInv'
  BY <1>4, Roles, LookupFacts DEF Puts, Waits
<1>5. ASSUME NEW q \in Requests, Resume(q)
      PROVE  RequestInv'
  BY <1>5, Roles, ResumeFacts DEF Puts, Waits
<1>6. ASSUME NEW w \in Workers, Take(w)
      PROVE  RequestInv'
  <2>1. CASE Idles(w)
    BY <1>6, <2>1, Roles, IdleStep
  <2>2. CASE Wakes(w)
    BY <1>6, <2>2, Roles, WakeStep
  <2> QED
    BY <1>6, <2>1, <2>2, TakeFacts
<1>7. ASSUME NEW w \in Workers, NEW how \in Endings, Executed(w, how)
      PROVE  RequestInv'
  BY <1>7, Roles DEF Executed, Go, storeVars, lockVars, queueVars, runVars
<1>8. ASSUME NEW w \in Workers, RecordFails(w)
      PROVE  RequestInv'
  BY <1>8, Roles, RaiseFacts, EndFacts
     DEF RecordFails, WorkerFree, Go, storeVars, lockVars, queueVars
<1>9. ASSUME NEW w \in Workers, RecordLookup(w)
      PROVE  RequestInv'
  BY <1>9, Roles
     DEF RecordLookup, LockFree, Claim, WorkerFree, EndTransaction, Go, storeVars,
         queueVars, runVars
<1>10. ASSUME NEW w \in Workers, RecordWrite(w)
      PROVE  RequestInv'
  BY <1>10, Roles DEF RecordWrite, WorkerFree, EndTransaction, Go, DerivedStatus, queueVars
<1>11. ASSUME NEW d \in Deleters, NEW t \in Tasks, DeleteArrives(d, t)
      PROVE  RequestInv'
  BY <1>11, Roles DEF DeleteArrives, Go, storeVars, lockVars, queueVars, runVars
<1>12. ASSUME NEW d \in Deleters, DeleteFails(d)
      PROVE  RequestInv'
  BY <1>12, Roles, RaiseFacts, EndFacts DEF DeleteFails, Go, storeVars, lockVars, queueVars, runVars
<1>13. ASSUME NEW d \in Deleters, DeleteLoads(d)
      PROVE  RequestInv'
  BY <1>13, Roles
     DEF DeleteLoads, Go, EndTransaction, RowsOf, storeVars, lockVars, queueVars, runVars
<1>14. ASSUME NEW d \in Deleters, Deletes(d)
      PROVE  RequestInv'
  BY <1>14, Roles DEF Deletes, LockFree, Go, EndTransaction, RowsOf, queueVars, runVars
<1>15. CASE UNCHANGED vars
  BY <1>15 DEF vars, storeVars, lockVars, queueVars, runVars
<1> HIDE DEF IInv, CallTypes, RequestInv, RequestPlaces
<1> QED
  BY <1>1, <1>2, <1>3, <1>4, <1>5, <1>6, <1>7, <1>8, <1>9, <1>10, <1>11, <1>12, <1>13,
     <1>14, <1>15
  DEF Next, RequestStep, WorkerStep, DeleteStep

\* Calls of DELETE.
LEMMA DeleterInvNext == IInv /\ [Next]_vars => DeleterInv'
<1> SUFFICES ASSUME IInv, [Next]_vars PROVE DeleterInv'
  OBVIOUS
<1> USE DEF IInv, CallTypes, DeleterInv, DeleterPlaces
<1>1. ASSUME NEW a \in Actors, Connect(a)
      PROVE  DeleterInv'
  BY <1>1, Roles DEF Connect, Go, storeVars, queueVars, runVars
<1>2. ASSUME NEW q \in Requests, NEW t \in Tasks, Arrive(q, t)
      PROVE  DeleterInv'
  BY <1>2, Roles DEF Arrive, Go, storeVars, lockVars, queueVars, runVars
<1>3. ASSUME NEW q \in Requests, ArriveFails(q)
      PROVE  DeleterInv'
  BY <1>3, Roles, RaiseFacts, EndFacts DEF ArriveFails, Go, storeVars, lockVars, queueVars, runVars
<1>4. ASSUME NEW q \in Requests, Lookup(q)
      PROVE  DeleterInv'
  BY <1>4, Roles, LookupFacts DEF Puts, Waits
<1>5. ASSUME NEW q \in Requests, Resume(q)
      PROVE  DeleterInv'
  BY <1>5, Roles, ResumeFacts DEF Puts, Waits
<1>6. ASSUME NEW w \in Workers, Take(w)
      PROVE  DeleterInv'
  <2>1. CASE Idles(w)
    BY <1>6, <2>1, Roles, IdleStep
  <2>2. CASE Wakes(w)
    BY <1>6, <2>2, Roles, WakeStep
  <2> QED
    BY <1>6, <2>1, <2>2, TakeFacts
<1>7. ASSUME NEW w \in Workers, NEW how \in Endings, Executed(w, how)
      PROVE  DeleterInv'
  BY <1>7, Roles DEF Executed, Go, storeVars, lockVars, queueVars, runVars
<1>8. ASSUME NEW w \in Workers, RecordFails(w)
      PROVE  DeleterInv'
  BY <1>8, Roles, RaiseFacts, EndFacts
     DEF RecordFails, WorkerFree, Go, storeVars, lockVars, queueVars
<1>9. ASSUME NEW w \in Workers, RecordLookup(w)
      PROVE  DeleterInv'
  BY <1>9, Roles
     DEF RecordLookup, LockFree, Claim, WorkerFree, EndTransaction, Go, storeVars,
         queueVars, runVars
<1>10. ASSUME NEW w \in Workers, RecordWrite(w)
      PROVE  DeleterInv'
  BY <1>10, Roles DEF RecordWrite, WorkerFree, EndTransaction, Go, DerivedStatus, queueVars
<1>11. ASSUME NEW d \in Deleters, NEW t \in Tasks, DeleteArrives(d, t)
      PROVE  DeleterInv'
  BY <1>11, Roles DEF DeleteArrives, Go, storeVars, lockVars, queueVars, runVars
<1>12. ASSUME NEW d \in Deleters, DeleteFails(d)
      PROVE  DeleterInv'
  BY <1>12, Roles, RaiseFacts, EndFacts DEF DeleteFails, Go, storeVars, lockVars, queueVars, runVars
<1>13. ASSUME NEW d \in Deleters, DeleteLoads(d)
      PROVE  DeleterInv'
  BY <1>13, Roles
     DEF DeleteLoads, Go, EndTransaction, RowsOf, storeVars, lockVars, queueVars, runVars
<1>14. ASSUME NEW d \in Deleters, Deletes(d)
      PROVE  DeleterInv'
  BY <1>14, Roles DEF Deletes, LockFree, Go, EndTransaction, RowsOf, queueVars, runVars
<1>15. CASE UNCHANGED vars
  BY <1>15 DEF vars, storeVars, lockVars, queueVars, runVars
<1> HIDE DEF IInv, CallTypes, DeleterInv, DeleterPlaces
<1> QED
  BY <1>1, <1>2, <1>3, <1>4, <1>5, <1>6, <1>7, <1>8, <1>9, <1>10, <1>11, <1>12, <1>13,
     <1>14, <1>15
  DEF Next, RequestStep, WorkerStep, DeleteStep

\* Workers and what they hold.
LEMMA WorkerInvNext == IInv /\ [Next]_vars => WorkerInv'
<1> SUFFICES ASSUME IInv, [Next]_vars PROVE WorkerInv'
  OBVIOUS
<1> USE DEF IInv, CallTypes, StoreTypes, RequestInv, WorkerInv, QueueInv, WorkerPlaces
<1>1. ASSUME NEW a \in Actors, Connect(a)
      PROVE  WorkerInv'
  BY <1>1, Roles DEF Connect, Go, storeVars, queueVars, runVars
<1>2. ASSUME NEW q \in Requests, NEW t \in Tasks, Arrive(q, t)
      PROVE  WorkerInv'
  BY <1>2, Roles DEF Arrive, Go, storeVars, lockVars, queueVars, runVars
<1>3. ASSUME NEW q \in Requests, ArriveFails(q)
      PROVE  WorkerInv'
  BY <1>3, Roles, RaiseFacts, EndFacts DEF ArriveFails, Go, storeVars, lockVars, queueVars, runVars
<1>4. ASSUME NEW q \in Requests, Lookup(q)
      PROVE  WorkerInv'
  BY <1>4, Roles, LookupFacts DEF Puts, Waits
<1>5. ASSUME NEW q \in Requests, Resume(q)
      PROVE  WorkerInv'
  BY <1>5, Roles, ResumeFacts DEF Puts, Waits
<1>6. ASSUME NEW w \in Workers, Take(w)
      PROVE  WorkerInv'
  <2>1. CASE Idles(w)
    BY <1>6, <2>1, Roles, IdleStep
  <2>2. CASE Wakes(w)
    BY <1>6, <2>2, Roles, WakeStep
  <2> QED
    BY <1>6, <2>1, <2>2, TakeFacts
<1>7. ASSUME NEW w \in Workers, NEW how \in Endings, Executed(w, how)
      PROVE  WorkerInv'
  BY <1>7, Roles, EndingAssumption DEF Executed, Go, storeVars, lockVars, queueVars, runVars
<1>8. ASSUME NEW w \in Workers, RecordFails(w)
      PROVE  WorkerInv'
  BY <1>8, Roles, RaiseFacts, EndFacts
     DEF RecordFails, WorkerFree, Go, storeVars, lockVars, queueVars
<1>9. ASSUME NEW w \in Workers, RecordLookup(w)
      PROVE  WorkerInv'
  BY <1>9, Roles
     DEF RecordLookup, LockFree, Claim, WorkerFree, EndTransaction, Go, storeVars,
         queueVars, runVars
<1>10. ASSUME NEW w \in Workers, RecordWrite(w)
      PROVE  WorkerInv'
  BY <1>10, Roles DEF RecordWrite, WorkerFree, EndTransaction, Go, DerivedStatus, queueVars
<1>11. ASSUME NEW d \in Deleters, NEW t \in Tasks, DeleteArrives(d, t)
      PROVE  WorkerInv'
  BY <1>11, Roles DEF DeleteArrives, Go, storeVars, lockVars, queueVars, runVars
<1>12. ASSUME NEW d \in Deleters, DeleteFails(d)
      PROVE  WorkerInv'
  BY <1>12, Roles, RaiseFacts, EndFacts DEF DeleteFails, Go, storeVars, lockVars, queueVars, runVars
<1>13. ASSUME NEW d \in Deleters, DeleteLoads(d)
      PROVE  WorkerInv'
  BY <1>13, Roles
     DEF DeleteLoads, Go, EndTransaction, RowsOf, storeVars, lockVars, queueVars, runVars
<1>14. ASSUME NEW d \in Deleters, Deletes(d)
      PROVE  WorkerInv'
  BY <1>14, Roles DEF Deletes, LockFree, Go, EndTransaction, RowsOf, queueVars, runVars
<1>15. CASE UNCHANGED vars
  BY <1>15 DEF vars, storeVars, lockVars, queueVars, runVars
<1> HIDE DEF IInv, CallTypes, StoreTypes, RequestInv, WorkerInv, QueueInv, WorkerPlaces
<1> QED
  BY <1>1, <1>2, <1>3, <1>4, <1>5, <1>6, <1>7, <1>8, <1>9, <1>10, <1>11, <1>12, <1>13,
     <1>14, <1>15
  DEF Next, RequestStep, WorkerStep, DeleteStep

\* Queued runs.
LEMMA QueueInvNext == IInv /\ [Next]_vars => QueueInv'
<1> SUFFICES ASSUME IInv, [Next]_vars PROVE QueueInv'
  OBVIOUS
<1> USE DEF IInv, CallTypes, QueueInv
<1>1. ASSUME NEW a \in Actors, Connect(a)
      PROVE  QueueInv'
  BY <1>1, Roles, ElementFacts DEF Connect, Go, storeVars, queueVars, runVars
<1>2. ASSUME NEW q \in Requests, NEW t \in Tasks, Arrive(q, t)
      PROVE  QueueInv'
  BY <1>2, Roles, ElementFacts DEF Arrive, Go, storeVars, lockVars, queueVars, runVars
<1>3. ASSUME NEW q \in Requests, ArriveFails(q)
      PROVE  QueueInv'
  BY <1>3, Roles, ElementFacts, RaiseFacts, EndFacts
     DEF ArriveFails, Go, storeVars, lockVars, queueVars, runVars
<1>4. ASSUME NEW q \in Requests, Lookup(q)
      PROVE  QueueInv'
  <2>1. CASE Puts(q)
    BY <1>4, <2>1, Roles, LookupFacts, ElementFacts, AppendFacts DEF Puts, QueueTypes
  <2>2. CASE ~Puts(q)
    <3>1. /\ queue' = queue /\ pc[q] = "locking" /\ q \in Actors
          /\ \A a \in Actors \ {q} : pc'[a] = pc[a]
      BY <1>4, <2>2, Roles, LookupFacts DEF Waits
    <3> QED
      BY <3>1, Roles, ElementFacts
  <2> QED
    BY <2>1, <2>2
<1>5. ASSUME NEW q \in Requests, Resume(q)
      PROVE  QueueInv'
  <2>1. CASE Puts(q)
    BY <1>5, <2>1, Roles, ResumeFacts, ElementFacts, AppendFacts DEF Puts, QueueTypes
  <2>2. CASE ~Puts(q)
    <3>1. /\ queue' = queue /\ pc[q] = "woken" /\ q \in Actors
          /\ \A a \in Actors \ {q} : pc'[a] = pc[a]
      BY <1>5, <2>2, Roles, ResumeFacts DEF Waits
    <3> QED
      BY <3>1, Roles, ElementFacts
  <2> QED
    BY <2>1, <2>2
<1>6. ASSUME NEW w \in Workers, Take(w)
      PROVE  QueueInv'
  <2>1. /\ pc[w] = "idle" /\ Len(queue) \in Nat /\ Len(queue') = Len(queue) - 1
        /\ \A i \in 1 .. Len(queue') : queue'[i] = queue[i + 1]
    BY <1>6, TakeFacts, ElementFacts
  <2>2. \A q \in Requests : pc[q] \in {"accepted", "unconfirmed"} => pc'[q] = pc[q]
    <3>1. CASE Idles(w)
      BY <2>1, <3>1, Roles DEF Idles
    <3>2. CASE Wakes(w)
      BY <1>6, <3>2, Roles, WakeStep
    <3> QED
      BY <1>6, <3>1, <3>2, TakeFacts
  <2>3. \A i \in 1 .. Len(queue') : i + 1 \in 1 .. Len(queue)
    BY <2>1
  <2> QED
    BY <2>1, <2>2, <2>3, ElementFacts
<1>7. ASSUME NEW w \in Workers, NEW how \in Endings, Executed(w, how)
      PROVE  QueueInv'
  BY <1>7, Roles, ElementFacts DEF Executed, Go, storeVars, lockVars, queueVars, runVars
<1>8. ASSUME NEW w \in Workers, RecordFails(w)
      PROVE  QueueInv'
  BY <1>8, Roles, ElementFacts, RaiseFacts, EndFacts
     DEF RecordFails, WorkerFree, Go, storeVars, lockVars, queueVars
<1>9. ASSUME NEW w \in Workers, RecordLookup(w)
      PROVE  QueueInv'
  <2>1. queue' = queue
    BY <1>9 DEF RecordLookup, queueVars
  <2>2. \A q \in Requests : pc'[q] = pc[q]
    BY <1>9, Roles DEF RecordLookup, WorkerFree, Go
  <2> QED
    BY <2>1, <2>2, ElementFacts
<1>10. ASSUME NEW w \in Workers, RecordWrite(w)
      PROVE  QueueInv'
  BY <1>10, Roles, ElementFacts
     DEF RecordWrite, WorkerFree, EndTransaction, Go, DerivedStatus, queueVars
<1>11. ASSUME NEW d \in Deleters, NEW t \in Tasks, DeleteArrives(d, t)
      PROVE  QueueInv'
  BY <1>11, Roles, ElementFacts
     DEF DeleteArrives, Go, storeVars, lockVars, queueVars, runVars
<1>12. ASSUME NEW d \in Deleters, DeleteFails(d)
      PROVE  QueueInv'
  BY <1>12, Roles, ElementFacts, RaiseFacts, EndFacts
     DEF DeleteFails, Go, storeVars, lockVars, queueVars, runVars
<1>13. ASSUME NEW d \in Deleters, DeleteLoads(d)
      PROVE  QueueInv'
  <2>1. queue' = queue
    BY <1>13 DEF DeleteLoads, queueVars
  <2>2. \A q \in Requests : pc'[q] = pc[q]
    BY <1>13, Roles DEF DeleteLoads, Go
  <2> QED
    BY <2>1, <2>2, ElementFacts
<1>14. ASSUME NEW d \in Deleters, Deletes(d)
      PROVE  QueueInv'
  BY <1>14, Roles, ElementFacts
     DEF Deletes, LockFree, Go, EndTransaction, RowsOf, queueVars, runVars
<1>15. CASE UNCHANGED vars
  BY <1>15 DEF vars, storeVars, lockVars, queueVars, runVars
<1> HIDE DEF IInv, CallTypes, QueueInv
<1> QED
  BY <1>1, <1>2, <1>3, <1>4, <1>5, <1>6, <1>7, <1>8, <1>9, <1>10, <1>11, <1>12, <1>13,
     <1>14, <1>15
  DEF Next, RequestStep, WorkerStep, DeleteStep

\* Recorded runs.
LEMMA ResultInvNext == IInv /\ [Next]_vars => ResultInv'
<1> SUFFICES ASSUME IInv, [Next]_vars PROVE ResultInv'
  OBVIOUS
<1> USE DEF IInv, CallTypes, StoreTypes, WorkerInv, ResultInv
<1>1. ASSUME NEW a \in Actors, Connect(a)
      PROVE  ResultInv'
  BY <1>1, Roles DEF Connect, Go, storeVars, queueVars, runVars
<1>2. ASSUME NEW q \in Requests, NEW t \in Tasks, Arrive(q, t)
      PROVE  ResultInv'
  BY <1>2, Roles DEF Arrive, Go, storeVars, lockVars, queueVars, runVars
<1>3. ASSUME NEW q \in Requests, ArriveFails(q)
      PROVE  ResultInv'
  BY <1>3, Roles, RaiseFacts, EndFacts DEF ArriveFails, Go, storeVars, lockVars, queueVars, runVars
<1>4. ASSUME NEW q \in Requests, Lookup(q)
      PROVE  ResultInv'
  BY <1>4, Roles, LookupFacts DEF Puts, Waits
<1>5. ASSUME NEW q \in Requests, Resume(q)
      PROVE  ResultInv'
  BY <1>5, Roles, ResumeFacts DEF Puts, Waits
<1>6. ASSUME NEW w \in Workers, Take(w)
      PROVE  ResultInv'
  <2>1. CASE Idles(w)
    BY <1>6, <2>1, Roles, IdleStep
  <2>2. CASE Wakes(w)
    BY <1>6, <2>2, Roles, WakeStep
  <2> QED
    BY <1>6, <2>1, <2>2, TakeFacts
<1>7. ASSUME NEW w \in Workers, NEW how \in Endings, Executed(w, how)
      PROVE  ResultInv'
  BY <1>7, Roles DEF Executed, Go, storeVars, lockVars, queueVars, runVars
<1>8. ASSUME NEW w \in Workers, RecordFails(w)
      PROVE  ResultInv'
  BY <1>8, Roles, RaiseFacts, EndFacts
     DEF RecordFails, WorkerFree, Go, storeVars, lockVars, queueVars
<1>9. ASSUME NEW w \in Workers, RecordLookup(w)
      PROVE  ResultInv'
  BY <1>9, Roles
     DEF RecordLookup, LockFree, Claim, WorkerFree, EndTransaction, Go, storeVars,
         queueVars, runVars
<1>10. ASSUME NEW w \in Workers, RecordWrite(w)
      PROVE  ResultInv'
  BY <1>10, Roles DEF RecordWrite, WorkerFree, EndTransaction, Go, DerivedStatus, queueVars
<1>11. ASSUME NEW d \in Deleters, NEW t \in Tasks, DeleteArrives(d, t)
      PROVE  ResultInv'
  BY <1>11, Roles DEF DeleteArrives, Go, storeVars, lockVars, queueVars, runVars
<1>12. ASSUME NEW d \in Deleters, DeleteFails(d)
      PROVE  ResultInv'
  BY <1>12, Roles, RaiseFacts, EndFacts DEF DeleteFails, Go, storeVars, lockVars, queueVars, runVars
<1>13. ASSUME NEW d \in Deleters, DeleteLoads(d)
      PROVE  ResultInv'
  BY <1>13, Roles
     DEF DeleteLoads, Go, EndTransaction, RowsOf, storeVars, lockVars, queueVars, runVars
<1>14. ASSUME NEW d \in Deleters, Deletes(d)
      PROVE  ResultInv'
  BY <1>14, Roles DEF Deletes, LockFree, Go, EndTransaction, RowsOf, queueVars, runVars
<1>15. CASE UNCHANGED vars
  BY <1>15 DEF vars, storeVars, lockVars, queueVars, runVars
<1> HIDE DEF IInv, CallTypes, StoreTypes, WorkerInv, ResultInv
<1> QED
  BY <1>1, <1>2, <1>3, <1>4, <1>5, <1>6, <1>7, <1>8, <1>9, <1>10, <1>11, <1>12, <1>13,
     <1>14, <1>15
  DEF Next, RequestStep, WorkerStep, DeleteStep

\* The puts that wait.
LEMMA PutInvNext == IInv /\ [Next]_vars => PutInv'
<1> SUFFICES ASSUME IInv, [Next]_vars PROVE PutInv'
  OBVIOUS
<1> USE DEF IInv, CallTypes, PutInv
<1>1. ASSUME NEW a \in Actors, Connect(a)
      PROVE  PutInv'
  BY <1>1, Roles, ElementFacts DEF Connect, Go, storeVars, queueVars, runVars
<1>2. ASSUME NEW q \in Requests, NEW t \in Tasks, Arrive(q, t)
      PROVE  PutInv'
  BY <1>2, Roles, ElementFacts DEF Arrive, Go, storeVars, lockVars, queueVars, runVars
<1>3. ASSUME NEW q \in Requests, ArriveFails(q)
      PROVE  PutInv'
  <2>1. pc[q] # "waiting" /\ putters' = putters /\ q \in Actors
    BY <1>3, Roles, RaiseFacts DEF ArriveFails, queueVars
  <2>2. \A a \in Actors \ {q} : pc'[a] = pc[a]
    BY <1>3, <2>1 DEF ArriveFails, Go
  <2> QED
    BY <2>1, <2>2, Roles, ElementFacts
<1>4. ASSUME NEW q \in Requests, Lookup(q)
      PROVE  PutInv'
  <2>1. /\ pc[q] = "locking" /\ q \in Actors
        /\ \A x \in Actors \ {q} : pc'[x] = pc[x]
        /\ \/ putters' = putters
           \/ putters' = Append(putters, q) /\ pc'[q] = "waiting"
    BY <1>4, Roles, LookupFacts DEF Puts, Waits
  <2>2. \A i \in 1 .. Len(putters) : putters[i] # q /\ putters[i] \in Actors
    BY <2>1, Roles, ElementFacts
  <2>3. CASE putters' = putters
    BY <2>1, <2>2, <2>3
  <2>4. CASE putters' = Append(putters, q) /\ pc'[q] = "waiting"
    <3>1. /\ Len(putters') = Len(putters) + 1 /\ Len(putters) \in Nat
          /\ \A i \in 1 .. Len(putters) : putters'[i] = putters[i]
          /\ putters'[Len(putters) + 1] = q
      BY <2>4, AppendFacts DEF QueueTypes
    <3>2. \A i \in 1 .. Len(putters') : i \in 1 .. Len(putters) \/ i = Len(putters) + 1
      BY <3>1
    <3>3. \A i \in 1 .. Len(putters') : pc'[putters'[i]] = "waiting"
      BY <2>1, <2>2, <2>4, <3>1, <3>2
    <3>4. \A i, j \in 1 .. Len(putters') : putters'[i] = putters'[j] => i = j
      BY <2>2, <3>1, <3>2
    <3> QED
      BY <3>3, <3>4
  <2> QED
    BY <2>1, <2>3, <2>4
<1>5. ASSUME NEW q \in Requests, Resume(q)
      PROVE  PutInv'
  <2>1. /\ pc[q] = "woken" /\ q \in Actors
        /\ \A x \in Actors \ {q} : pc'[x] = pc[x]
        /\ \/ putters' = putters
           \/ putters' = Append(putters, q) /\ pc'[q] = "waiting"
    BY <1>5, Roles, ResumeFacts DEF Puts, Waits
  <2>2. \A i \in 1 .. Len(putters) : putters[i] # q /\ putters[i] \in Actors
    BY <2>1, Roles, ElementFacts
  <2>3. CASE putters' = putters
    BY <2>1, <2>2, <2>3
  <2>4. CASE putters' = Append(putters, q) /\ pc'[q] = "waiting"
    <3>1. /\ Len(putters') = Len(putters) + 1 /\ Len(putters) \in Nat
          /\ \A i \in 1 .. Len(putters) : putters'[i] = putters[i]
          /\ putters'[Len(putters) + 1] = q
      BY <2>4, AppendFacts DEF QueueTypes
    <3>2. \A i \in 1 .. Len(putters') : i \in 1 .. Len(putters) \/ i = Len(putters) + 1
      BY <3>1
    <3>3. \A i \in 1 .. Len(putters') : pc'[putters'[i]] = "waiting"
      BY <2>1, <2>2, <2>4, <3>1, <3>2
    <3>4. \A i, j \in 1 .. Len(putters') : putters'[i] = putters'[j] => i = j
      BY <2>2, <3>1, <3>2
    <3> QED
      BY <3>3, <3>4
  <2> QED
    BY <2>1, <2>3, <2>4
<1>6. ASSUME NEW w \in Workers, Take(w)
      PROVE  PutInv'
  <2>1. CASE Idles(w)
    BY <1>6, <2>1, Roles, TakeFacts, ElementFacts DEF Idles
  <2>2. CASE Wakes(w)
    <3>1. /\ Len(putters') = Len(putters) - 1 /\ Len(putters) \in Nat \ {0}
          /\ \A i \in 1 .. Len(putters') : putters'[i] = putters[i + 1]
          /\ \E s \in {"running", "ended"} :
               pc' = [pc EXCEPT ![w] = s, ![putters[1]] = "woken"]
      BY <2>2, WakeFacts
    <3>2. \A i \in 1 .. Len(putters') : i + 1 \in 1 .. Len(putters) /\ i + 1 # 1 /\ i \in Int
      BY <3>1
    <3>3. \A i \in 1 .. Len(putters') :
            putters'[i] \in Actors /\ putters'[i] # w /\ putters'[i] # putters[1]
      <4>1. ASSUME NEW i \in 1 .. Len(putters')
            PROVE  putters'[i] \in Requests /\ putters'[i] # putters[1]
        <5>1. i + 1 \in 1 .. Len(putters) /\ 1 \in 1 .. Len(putters) /\ i + 1 # 1
          BY <3>1, <3>2
        <5> QED
          BY <3>1, <5>1, ElementFacts
      <4> QED
        BY <4>1, Roles
    <3>4. \A i \in 1 .. Len(putters') : pc'[putters'[i]] = "waiting"
      BY <3>1, <3>2, <3>3
    <3>5. \A i, j \in 1 .. Len(putters') : putters'[i] = putters'[j] => i = j
      BY <3>1, <3>2
    <3> QED
      BY <3>4, <3>5
  <2> QED
    BY <1>6, <2>1, <2>2, TakeFacts
<1>7. ASSUME NEW w \in Workers, NEW how \in Endings, Executed(w, how)
      PROVE  PutInv'
  BY <1>7, Roles, ElementFacts DEF Executed, Go, storeVars, lockVars, queueVars, runVars
<1>8. ASSUME NEW w \in Workers, RecordFails(w)
      PROVE  PutInv'
  BY <1>8, Roles, ElementFacts, RaiseFacts, EndFacts
     DEF RecordFails, WorkerFree, Go, storeVars, lockVars, queueVars
<1>9. ASSUME NEW w \in Workers, RecordLookup(w)
      PROVE  PutInv'
  <2>1. putters' = putters
    BY <1>9 DEF RecordLookup, queueVars
  <2>2. \A q \in Requests : pc'[q] = pc[q]
    BY <1>9, Roles DEF RecordLookup, WorkerFree, Go
  <2> QED
    BY <2>1, <2>2, ElementFacts
<1>10. ASSUME NEW w \in Workers, RecordWrite(w)
      PROVE  PutInv'
  BY <1>10, Roles, ElementFacts
     DEF RecordWrite, WorkerFree, EndTransaction, Go, DerivedStatus, queueVars
<1>11. ASSUME NEW d \in Deleters, NEW t \in Tasks, DeleteArrives(d, t)
      PROVE  PutInv'
  BY <1>11, Roles, ElementFacts
     DEF DeleteArrives, Go, storeVars, lockVars, queueVars, runVars
<1>12. ASSUME NEW d \in Deleters, DeleteFails(d)
      PROVE  PutInv'
  BY <1>12, Roles, ElementFacts, RaiseFacts, EndFacts
     DEF DeleteFails, Go, storeVars, lockVars, queueVars, runVars
<1>13. ASSUME NEW d \in Deleters, DeleteLoads(d)
      PROVE  PutInv'
  <2>1. putters' = putters
    BY <1>13 DEF DeleteLoads, queueVars
  <2>2. \A q \in Requests : pc'[q] = pc[q]
    BY <1>13, Roles DEF DeleteLoads, Go
  <2> QED
    BY <2>1, <2>2, ElementFacts
<1>14. ASSUME NEW d \in Deleters, Deletes(d)
      PROVE  PutInv'
  BY <1>14, Roles, ElementFacts
     DEF Deletes, LockFree, Go, EndTransaction, RowsOf, queueVars, runVars
<1>15. CASE UNCHANGED vars
  BY <1>15 DEF vars, storeVars, lockVars, queueVars, runVars
<1> HIDE DEF IInv, CallTypes, PutInv
<1> QED
  BY <1>1, <1>2, <1>3, <1>4, <1>5, <1>6, <1>7, <1>8, <1>9, <1>10, <1>11, <1>12, <1>13,
     <1>14, <1>15
  DEF Next, RequestStep, WorkerStep, DeleteStep

\* Who holds a connection.
LEMMA ConnInvNext == IInv /\ [Next]_vars => ConnInv'
<1> SUFFICES ASSUME IInv, [Next]_vars PROVE ConnInv'
  OBVIOUS
<1> USE DEF IInv, CallTypes, LockTypes, ConnInv, RequestInv, DeleterInv, WorkerInv, Inside
<1>1. ASSUME NEW a \in Actors, Connect(a)
      PROVE  ConnInv'
  BY <1>1, Roles DEF Connect, Go, storeVars, queueVars, runVars
<1>2. ASSUME NEW q \in Requests, NEW t \in Tasks, Arrive(q, t)
      PROVE  ConnInv'
  BY <1>2, Roles DEF Arrive, Go, storeVars, lockVars, queueVars, runVars
<1>3. ASSUME NEW q \in Requests, ArriveFails(q)
      PROVE  ConnInv'
  BY <1>3, Roles, RaiseFacts, EndFacts DEF ArriveFails, Go, storeVars, lockVars, queueVars, runVars
<1>4. ASSUME NEW q \in Requests, Lookup(q)
      PROVE  ConnInv'
  <2>1. q \in Actors /\ target[q] \in Tasks
    BY <1>4, Roles DEF Lookup
  <2>2. CASE conns' = conns /\ pc'[q] \in Inside
    BY <1>4, <2>1, <2>2, LookupFacts, EndFacts DEF Puts, Waits
  <2>3. CASE EndTransaction(q)
    BY <1>4, <2>1, <2>3, LookupFacts, EndFacts DEF Puts, Waits
  <2> QED
    BY <1>4, <2>1, <2>2, <2>3, LookupFacts DEF Waits
<1>5. ASSUME NEW q \in Requests, Resume(q)
      PROVE  ConnInv'
  <2>1. q \in Actors /\ target[q] \in Tasks
    BY <1>5, Roles DEF Resume
  <2>2. CASE conns' = conns /\ pc'[q] \in Inside
    BY <1>5, <2>1, <2>2, ResumeFacts, EndFacts DEF Puts, Waits
  <2>3. CASE EndTransaction(q)
    BY <1>5, <2>1, <2>3, ResumeFacts, EndFacts DEF Puts, Waits
  <2> QED
    BY <1>5, <2>1, <2>2, <2>3, ResumeFacts DEF Waits
<1>6. ASSUME NEW w \in Workers, Take(w)
      PROVE  ConnInv'
  <2>1. CASE Idles(w)
    BY <1>6, <2>1, Roles, IdleStep
  <2>2. CASE Wakes(w)
    <3>1. /\ conns' = conns /\ pc[w] = "idle" /\ w \in Actors
          /\ pc[putters[1]] = "waiting" /\ putters[1] \in Actors /\ putters[1] # w
          /\ \E s \in {"running", "ended"} :
               pc' = [pc EXCEPT ![w] = s, ![putters[1]] = "woken"]
      BY <1>6, <2>2, Roles, TakeFacts, WakeFacts
    <3> QED
      BY <3>1
  <2> QED
    BY <1>6, <2>1, <2>2, TakeFacts
<1>7. ASSUME NEW w \in Workers, NEW how \in Endings, Executed(w, how)
      PROVE  ConnInv'
  BY <1>7, Roles DEF Executed, Go, storeVars, lockVars, queueVars, runVars
<1>8. ASSUME NEW w \in Workers, RecordFails(w)
      PROVE  ConnInv'
  BY <1>8, Roles, RaiseFacts, EndFacts
     DEF RecordFails, WorkerFree, Go, storeVars, lockVars, queueVars
<1>9. ASSUME NEW w \in Workers, RecordLookup(w)
      PROVE  ConnInv'
  BY <1>9, Roles
     DEF RecordLookup, LockFree, Claim, WorkerFree, EndTransaction, Go, storeVars,
         queueVars, runVars
<1>10. ASSUME NEW w \in Workers, RecordWrite(w)
      PROVE  ConnInv'
  BY <1>10, Roles DEF RecordWrite, WorkerFree, EndTransaction, Go, DerivedStatus, queueVars
<1>11. ASSUME NEW d \in Deleters, NEW t \in Tasks, DeleteArrives(d, t)
      PROVE  ConnInv'
  BY <1>11, Roles DEF DeleteArrives, Go, storeVars, lockVars, queueVars, runVars
<1>12. ASSUME NEW d \in Deleters, DeleteFails(d)
      PROVE  ConnInv'
  BY <1>12, Roles, RaiseFacts, EndFacts DEF DeleteFails, Go, storeVars, lockVars, queueVars, runVars
<1>13. ASSUME NEW d \in Deleters, DeleteLoads(d)
      PROVE  ConnInv'
  BY <1>13, Roles
     DEF DeleteLoads, Go, EndTransaction, RowsOf, storeVars, lockVars, queueVars, runVars
<1>14. ASSUME NEW d \in Deleters, Deletes(d)
      PROVE  ConnInv'
  BY <1>14, Roles DEF Deletes, LockFree, Go, EndTransaction, RowsOf, queueVars, runVars
<1>15. CASE UNCHANGED vars
  BY <1>15 DEF vars, storeVars, lockVars, queueVars, runVars
<1> HIDE DEF IInv, CallTypes, LockTypes, ConnInv, RequestInv, DeleterInv, WorkerInv, Inside
<1> QED
  BY <1>1, <1>2, <1>3, <1>4, <1>5, <1>6, <1>7, <1>8, <1>9, <1>10, <1>11, <1>12, <1>13,
     <1>14, <1>15
  DEF Next, RequestStep, WorkerStep, DeleteStep

\* A lock is at a task.
LEMMA LockInvNext == IInv /\ [Next]_vars => LockInv'
<1> SUFFICES ASSUME IInv, [Next]_vars PROVE LockInv'
  OBVIOUS
<1> USE DEF IInv, CallTypes, LockTypes, LockInv, RequestInv, WorkerInv, Locking
<1>1. ASSUME NEW a \in Actors, Connect(a)
      PROVE  LockInv'
  BY <1>1, Roles DEF Connect, Go, storeVars, queueVars, runVars
<1>2. ASSUME NEW q \in Requests, NEW t \in Tasks, Arrive(q, t)
      PROVE  LockInv'
  BY <1>2, Roles DEF Arrive, Go, storeVars, lockVars, queueVars, runVars
<1>3. ASSUME NEW q \in Requests, ArriveFails(q)
      PROVE  LockInv'
  BY <1>3, Roles, RaiseFacts, EndFacts DEF ArriveFails, Go, storeVars, lockVars, queueVars, runVars
<1>4. ASSUME NEW q \in Requests, Lookup(q)
      PROVE  LockInv'
  <2>1. /\ q \in Actors /\ target[q] \in Tasks
        /\ target' = target /\ present' = present
        /\ \A x \in Actors \ {q} : pc'[x] = pc[x]
    BY <1>4, Roles, LookupFacts DEF Lookup, Puts, Waits
  <2>2. CASE EndTransaction(q) /\ pc'[q] \notin Locking
    BY <2>1, <2>2, Roles, EndFacts
  <2>3. CASE Waits(q) /\ pc'[q] = "waiting"
    <3>1. /\ pc[q] = "locking" /\ LockFree(target[q]) /\ target[q] \in present
          /\ Claim(q, target[q])
      BY <1>4, <2>1, <2>3, LookupFacts DEF Puts
    <3>2. \A u \in Tasks :
            rowLock'[u] = IF RowLocks /\ u = target[q] THEN q ELSE rowLock[u]
      BY <2>1, <3>1, ClaimFacts
    <3>3. RowLocks => rowLock[target[q]] = Nobody
      BY <3>1 DEF LockFree
    <3> QED
      BY <2>1, <2>3, <3>1, <3>2, <3>3, Roles
  <2> QED
    BY <1>4, <2>1, <2>2, <2>3, LookupFacts DEF Puts, Waits
<1>5. ASSUME NEW q \in Requests, Resume(q)
      PROVE  LockInv'
  <2>1. /\ q \in Actors /\ target[q] \in Tasks
        /\ target' = target /\ present' = present
        /\ \A x \in Actors \ {q} : pc'[x] = pc[x]
    BY <1>5, Roles, ResumeFacts DEF Resume, Puts, Waits
  <2>2. CASE EndTransaction(q) /\ pc'[q] \notin Locking
    BY <2>1, <2>2, Roles, EndFacts
  <2>3. CASE Waits(q) /\ pc'[q] = "waiting"
    <3>1. pc[q] = "woken" /\ rowLock' = rowLock
      BY <1>5, <2>1, <2>3, ResumeFacts DEF Puts
    <3> QED
      BY <2>1, <2>3, <3>1, Roles
  <2> QED
    BY <1>5, <2>1, <2>2, <2>3, ResumeFacts DEF Puts, Waits
<1>6. ASSUME NEW w \in Workers, Take(w)
      PROVE  LockInv'
  <2>1. CASE Idles(w)
    BY <1>6, <2>1, Roles, IdleStep
  <2>2. CASE Wakes(w)
    BY <1>6, <2>2, Roles, WakeStep
  <2> QED
    BY <1>6, <2>1, <2>2, TakeFacts
<1>7. ASSUME NEW w \in Workers, NEW how \in Endings, Executed(w, how)
      PROVE  LockInv'
  BY <1>7, Roles DEF Executed, Go, storeVars, lockVars, queueVars, runVars
<1>8. ASSUME NEW w \in Workers, RecordFails(w)
      PROVE  LockInv'
  BY <1>8, Roles, RaiseFacts, EndFacts
     DEF RecordFails, WorkerFree, Go, storeVars, lockVars, queueVars
<1>9. ASSUME NEW w \in Workers, RecordLookup(w)
      PROVE  LockInv'
  BY <1>9, Roles
     DEF RecordLookup, LockFree, Claim, WorkerFree, EndTransaction, Go, storeVars,
         queueVars, runVars
<1>10. ASSUME NEW w \in Workers, RecordWrite(w)
      PROVE  LockInv'
  BY <1>10, Roles DEF RecordWrite, WorkerFree, EndTransaction, Go, DerivedStatus, queueVars
<1>11. ASSUME NEW d \in Deleters, NEW t \in Tasks, DeleteArrives(d, t)
      PROVE  LockInv'
  BY <1>11, Roles DEF DeleteArrives, Go, storeVars, lockVars, queueVars, runVars
<1>12. ASSUME NEW d \in Deleters, DeleteFails(d)
      PROVE  LockInv'
  BY <1>12, Roles, RaiseFacts, EndFacts DEF DeleteFails, Go, storeVars, lockVars, queueVars, runVars
<1>13. ASSUME NEW d \in Deleters, DeleteLoads(d)
      PROVE  LockInv'
  BY <1>13, Roles
     DEF DeleteLoads, Go, EndTransaction, RowsOf, storeVars, lockVars, queueVars, runVars
<1>14. ASSUME NEW d \in Deleters, Deletes(d)
      PROVE  LockInv'
  BY <1>14, Roles DEF Deletes, LockFree, Go, EndTransaction, RowsOf, queueVars, runVars
<1>15. CASE UNCHANGED vars
  BY <1>15 DEF vars, storeVars, lockVars, queueVars, runVars
<1> HIDE DEF IInv, CallTypes, LockTypes, LockInv, RequestInv, WorkerInv, Locking
<1> QED
  BY <1>1, <1>2, <1>3, <1>4, <1>5, <1>6, <1>7, <1>8, <1>9, <1>10, <1>11, <1>12, <1>13,
     <1>14, <1>15
  DEF Next, RequestStep, WorkerStep, DeleteStep

\* A task that was found is locked and stays.
LEMMA HeldInvNext == IInv /\ [Next]_vars => HeldInv'
<1> SUFFICES ASSUME IInv, [Next]_vars PROVE HeldInv'
  OBVIOUS
<1> USE DEF IInv, CallTypes, LockTypes, StoreTypes, HeldInv, RequestInv, DeleterInv,
            WorkerInv, Locking
<1>1. ASSUME NEW a \in Actors, Connect(a)
      PROVE  HeldInv'
  BY <1>1, Roles DEF Connect, Go, storeVars, queueVars, runVars
<1>2. ASSUME NEW q \in Requests, NEW t \in Tasks, Arrive(q, t)
      PROVE  HeldInv'
  BY <1>2, Roles DEF Arrive, Go, storeVars, lockVars, queueVars, runVars
<1>3. ASSUME NEW q \in Requests, ArriveFails(q)
      PROVE  HeldInv'
  BY <1>3, Roles, RaiseFacts, EndFacts DEF ArriveFails, Go, storeVars, lockVars, queueVars, runVars
<1>4. ASSUME NEW q \in Requests, Lookup(q)
      PROVE  HeldInv'
  <2>1. /\ q \in Actors /\ target[q] \in Tasks
        /\ target' = target /\ present' = present
        /\ \A x \in Actors \ {q} : pc'[x] = pc[x]
    BY <1>4, Roles, LookupFacts DEF Lookup, Puts, Waits
  <2>2. CASE EndTransaction(q) /\ pc'[q] \notin Locking
    BY <2>1, <2>2, Roles, EndFacts
  <2>3. CASE Waits(q) /\ pc'[q] = "waiting"
    <3>1. /\ pc[q] = "locking" /\ LockFree(target[q]) /\ target[q] \in present
          /\ Claim(q, target[q])
      BY <1>4, <2>1, <2>3, LookupFacts DEF Puts
    <3>2. \A u \in Tasks :
            rowLock'[u] = IF RowLocks /\ u = target[q] THEN q ELSE rowLock[u]
      BY <2>1, <3>1, ClaimFacts
    <3>3. RowLocks => rowLock[target[q]] = Nobody
      BY <3>1 DEF LockFree
    <3> QED
      BY <2>1, <2>3, <3>1, <3>2, <3>3, Roles
  <2> QED
    BY <1>4, <2>1, <2>2, <2>3, LookupFacts DEF Puts, Waits
<1>5. ASSUME NEW q \in Requests, Resume(q)
      PROVE  HeldInv'
  <2>1. /\ q \in Actors /\ target[q] \in Tasks
        /\ target' = target /\ present' = present
        /\ \A x \in Actors \ {q} : pc'[x] = pc[x]
    BY <1>5, Roles, ResumeFacts DEF Resume, Puts, Waits
  <2>2. CASE EndTransaction(q) /\ pc'[q] \notin Locking
    BY <2>1, <2>2, Roles, EndFacts
  <2>3. CASE Waits(q) /\ pc'[q] = "waiting"
    <3>1. pc[q] = "woken" /\ rowLock' = rowLock
      BY <1>5, <2>1, <2>3, ResumeFacts DEF Puts
    <3> QED
      BY <2>1, <2>3, <3>1, Roles
  <2> QED
    BY <1>5, <2>1, <2>2, <2>3, ResumeFacts DEF Puts, Waits
<1>6. ASSUME NEW w \in Workers, Take(w)
      PROVE  HeldInv'
  <2>1. CASE Idles(w)
    BY <1>6, <2>1, Roles, IdleStep
  <2>2. CASE Wakes(w)
    BY <1>6, <2>2, Roles, WakeStep
  <2> QED
    BY <1>6, <2>1, <2>2, TakeFacts
<1>7. ASSUME NEW w \in Workers, NEW how \in Endings, Executed(w, how)
      PROVE  HeldInv'
  BY <1>7, Roles DEF Executed, Go, storeVars, lockVars, queueVars, runVars
<1>8. ASSUME NEW w \in Workers, RecordFails(w)
      PROVE  HeldInv'
  BY <1>8, Roles, RaiseFacts, EndFacts
     DEF RecordFails, WorkerFree, Go, storeVars, lockVars, queueVars
<1>9. ASSUME NEW w \in Workers, RecordLookup(w)
      PROVE  HeldInv'
  BY <1>9, Roles
     DEF RecordLookup, LockFree, Claim, WorkerFree, EndTransaction, Go, storeVars,
         queueVars, runVars
<1>10. ASSUME NEW w \in Workers, RecordWrite(w)
      PROVE  HeldInv'
  BY <1>10, Roles DEF RecordWrite, WorkerFree, EndTransaction, Go, DerivedStatus, queueVars
<1>11. ASSUME NEW d \in Deleters, NEW t \in Tasks, DeleteArrives(d, t)
      PROVE  HeldInv'
  BY <1>11, Roles DEF DeleteArrives, Go, storeVars, lockVars, queueVars, runVars
<1>12. ASSUME NEW d \in Deleters, DeleteFails(d)
      PROVE  HeldInv'
  BY <1>12, Roles, RaiseFacts, EndFacts DEF DeleteFails, Go, storeVars, lockVars, queueVars, runVars
<1>13. ASSUME NEW d \in Deleters, DeleteLoads(d)
      PROVE  HeldInv'
  BY <1>13, Roles
     DEF DeleteLoads, Go, EndTransaction, RowsOf, storeVars, lockVars, queueVars, runVars
<1>14. ASSUME NEW d \in Deleters, Deletes(d)
      PROVE  HeldInv'
  BY <1>14, Roles DEF Deletes, LockFree, Go, EndTransaction, RowsOf, queueVars, runVars
<1>15. CASE UNCHANGED vars
  BY <1>15 DEF vars, storeVars, lockVars, queueVars, runVars
<1> HIDE DEF IInv, CallTypes, LockTypes, StoreTypes, HeldInv, RequestInv, DeleterInv,
             WorkerInv, Locking
<1> QED
  BY <1>1, <1>2, <1>3, <1>4, <1>5, <1>6, <1>7, <1>8, <1>9, <1>10, <1>11, <1>12, <1>13,
     <1>14, <1>15
  DEF Next, RequestStep, WorkerStep, DeleteStep

\* No row and no accepted run without its task.
LEMMA SafeInvNext == IInv /\ [Next]_vars => SafeInv'
<1> SUFFICES ASSUME IInv, [Next]_vars PROVE SafeInv'
  OBVIOUS
<1> USE DEF IInv, CallTypes, StoreTypes, HeldInv, SafeInv, NeverInterleaved, NoOrphanRows,
            WorkerInv, RequestInv, ResultInv, Locking
<1>1. ASSUME NEW a \in Actors, Connect(a)
      PROVE  SafeInv'
  BY <1>1, Roles DEF Connect, Go, storeVars, queueVars, runVars
<1>2. ASSUME NEW q \in Requests, NEW t \in Tasks, Arrive(q, t)
      PROVE  SafeInv'
  BY <1>2, Roles DEF Arrive, Go, storeVars, lockVars, queueVars, runVars
<1>3. ASSUME NEW q \in Requests, ArriveFails(q)
      PROVE  SafeInv'
  BY <1>3, Roles, RaiseFacts, EndFacts DEF ArriveFails, Go, storeVars, lockVars, queueVars, runVars
<1>4. ASSUME NEW q \in Requests, Lookup(q)
      PROVE  SafeInv'
  BY <1>4, Roles, LookupFacts DEF Puts, Waits
<1>5. ASSUME NEW q \in Requests, Resume(q)
      PROVE  SafeInv'
  BY <1>5, Roles, ResumeFacts DEF Puts, Waits
<1>6. ASSUME NEW w \in Workers, Take(w)
      PROVE  SafeInv'
  <2>1. CASE Idles(w)
    BY <1>6, <2>1, Roles, IdleStep
  <2>2. CASE Wakes(w)
    BY <1>6, <2>2, Roles, WakeStep
  <2> QED
    BY <1>6, <2>1, <2>2, TakeFacts
<1>7. ASSUME NEW w \in Workers, NEW how \in Endings, Executed(w, how)
      PROVE  SafeInv'
  BY <1>7, Roles DEF Executed, Go, storeVars, lockVars, queueVars, runVars
<1>8. ASSUME NEW w \in Workers, RecordFails(w)
      PROVE  SafeInv'
  BY <1>8, Roles, RaiseFacts, EndFacts
     DEF RecordFails, WorkerFree, Go, storeVars, lockVars, queueVars
<1>9. ASSUME NEW w \in Workers, RecordLookup(w)
      PROVE  SafeInv'
  BY <1>9, Roles
     DEF RecordLookup, LockFree, Claim, WorkerFree, EndTransaction, Go, storeVars,
         queueVars, runVars
<1>10. ASSUME NEW w \in Workers, RecordWrite(w)
      PROVE  SafeInv'
  BY <1>10, Roles DEF RecordWrite, WorkerFree, EndTransaction, Go, DerivedStatus, queueVars
<1>11. ASSUME NEW d \in Deleters, NEW t \in Tasks, DeleteArrives(d, t)
      PROVE  SafeInv'
  BY <1>11, Roles DEF DeleteArrives, Go, storeVars, lockVars, queueVars, runVars
<1>12. ASSUME NEW d \in Deleters, DeleteFails(d)
      PROVE  SafeInv'
  BY <1>12, Roles, RaiseFacts, EndFacts DEF DeleteFails, Go, storeVars, lockVars, queueVars, runVars
<1>13. ASSUME NEW d \in Deleters, DeleteLoads(d)
      PROVE  SafeInv'
  BY <1>13, Roles
     DEF DeleteLoads, Go, EndTransaction, RowsOf, storeVars, lockVars, queueVars, runVars
<1>14. ASSUME NEW d \in Deleters, Deletes(d)
      PROVE  SafeInv'
  BY <1>14, Roles DEF Deletes, LockFree, Go, EndTransaction, RowsOf, queueVars, runVars
<1>15. CASE UNCHANGED vars
  BY <1>15 DEF vars, storeVars, lockVars, queueVars, runVars
<1> HIDE DEF IInv, CallTypes, StoreTypes, HeldInv, SafeInv, NeverInterleaved, NoOrphanRows,
             WorkerInv, RequestInv, ResultInv, Locking
<1> QED
  BY <1>1, <1>2, <1>3, <1>4, <1>5, <1>6, <1>7, <1>8, <1>9, <1>10, <1>11, <1>12, <1>13,
     <1>14, <1>15
  DEF Next, RequestStep, WorkerStep, DeleteStep

\* Who is in the event loop.
LEMMA LoopInvNext == IInv /\ [Next]_vars => LoopInv'
<1> SUFFICES ASSUME IInv, [Next]_vars PROVE LoopInv'
  OBVIOUS
<1> USE DEF IInv, CallTypes, RequestInv, DeleterInv, WorkerInv, LoopInv
<1>1. ASSUME NEW a \in Actors, Connect(a)
      PROVE  LoopInv'
  BY <1>1, Roles DEF Connect, Go, storeVars, queueVars, runVars
<1>2. ASSUME NEW q \in Requests, NEW t \in Tasks, Arrive(q, t)
      PROVE  LoopInv'
  BY <1>2, Roles DEF Arrive, Go, storeVars, lockVars, queueVars, runVars
<1>3. ASSUME NEW q \in Requests, ArriveFails(q)
      PROVE  LoopInv'
  <2>1. pc[q] \in {"connecting", "locking"} /\ q \in Actors /\ loop = q
    BY <1>3, Roles, RaiseFacts DEF ArriveFails, RequestPlaces
  <2>2. pc' = [pc EXCEPT ![q] = "failed"]
    BY <1>3 DEF ArriveFails, Go
  <2> QED
    BY <2>1, <2>2, Roles
<1>4. ASSUME NEW q \in Requests, Lookup(q)
      PROVE  LoopInv'
  BY <1>4, Roles, LookupFacts DEF Puts, Waits
<1>5. ASSUME NEW q \in Requests, Resume(q)
      PROVE  LoopInv'
  BY <1>5, Roles, ResumeFacts DEF Puts, Waits
<1>6. ASSUME NEW w \in Workers, Take(w)
      PROVE  LoopInv'
  <2>1. CASE Idles(w)
    BY <1>6, <2>1, Roles, IdleStep
  <2>2. CASE Wakes(w)
    BY <1>6, <2>2, Roles, WakeStep
  <2> QED
    BY <1>6, <2>1, <2>2, TakeFacts
<1>7. ASSUME NEW w \in Workers, NEW how \in Endings, Executed(w, how)
      PROVE  LoopInv'
  BY <1>7, Roles DEF Executed, Go, storeVars, lockVars, queueVars, runVars
<1>8. ASSUME NEW w \in Workers, RecordFails(w)
      PROVE  LoopInv'
  <2>1. pc[w] \in {"connecting", "locking", "writing"} /\ w \in Actors /\ loop = w
    BY <1>8, Roles, RaiseFacts DEF RecordFails, WorkerPlaces
  <2>2. pc' = [pc EXCEPT ![w] = "idle"]
    BY <1>8 DEF RecordFails, WorkerFree, Go
  <2> QED
    BY <2>1, <2>2, Roles
<1>9. ASSUME NEW w \in Workers, RecordLookup(w)
      PROVE  LoopInv'
  BY <1>9, Roles
     DEF RecordLookup, LockFree, Claim, WorkerFree, EndTransaction, Go, storeVars,
         queueVars, runVars
<1>10. ASSUME NEW w \in Workers, RecordWrite(w)
      PROVE  LoopInv'
  BY <1>10, Roles DEF RecordWrite, WorkerFree, EndTransaction, Go, DerivedStatus, queueVars
<1>11. ASSUME NEW d \in Deleters, NEW t \in Tasks, DeleteArrives(d, t)
      PROVE  LoopInv'
  BY <1>11, Roles DEF DeleteArrives, Go, storeVars, lockVars, queueVars, runVars
<1>12. ASSUME NEW d \in Deleters, DeleteFails(d)
      PROVE  LoopInv'
  BY <1>12, Roles, RaiseFacts, EndFacts DEF DeleteFails, Go, storeVars, lockVars, queueVars, runVars
<1>13. ASSUME NEW d \in Deleters, DeleteLoads(d)
      PROVE  LoopInv'
  BY <1>13, Roles
     DEF DeleteLoads, Go, EndTransaction, RowsOf, storeVars, lockVars, queueVars, runVars
<1>14. ASSUME NEW d \in Deleters, Deletes(d)
      PROVE  LoopInv'
  BY <1>14, Roles DEF Deletes, LockFree, Go, EndTransaction, RowsOf, queueVars, runVars
<1>15. CASE UNCHANGED vars
  BY <1>15 DEF vars, storeVars, lockVars, queueVars, runVars
<1> HIDE DEF IInv, CallTypes, RequestInv, DeleterInv, WorkerInv, LoopInv
<1> QED
  BY <1>1, <1>2, <1>3, <1>4, <1>5, <1>6, <1>7, <1>8, <1>9, <1>10, <1>11, <1>12, <1>13,
     <1>14, <1>15
  DEF Next, RequestStep, WorkerStep, DeleteStep

-----------------------------------------------------------------------------
(* Theorems                                                                 *)

\* In the initial state nothing is held and nothing is stored.
LEMMA InitIInv == Init => IInv
<1> SUFFICES ASSUME Init PROVE IInv
  OBVIOUS
<1>1. IsFiniteSet(conns) /\ Cardinality(conns) = 0
  BY FS_EmptySet DEF Init
<1>2. StoreTypes
  BY DEF Init, StoreTypes, Statuses
<1>3. CallTypes
  BY DEF Init, CallTypes, Places
<1>4. LockTypes /\ QueueTypes
  BY <1>1, SizeAssumption DEF Init, LockTypes, QueueTypes
<1>5. RequestInv /\ DeleterInv /\ WorkerInv
  BY Roles
     DEF Init, RequestInv, DeleterInv, WorkerInv, RequestPlaces, WorkerPlaces, DeleterPlaces
<1>6. QueueInv /\ ResultInv /\ PutInv
  BY DEF Init, QueueInv, ResultInv, PutInv
<1>7. ConnInv /\ LockInv /\ HeldInv /\ LoopInv
  BY Roles DEF Init, ConnInv, LockInv, HeldInv, LoopInv, Inside, Locking
<1>8. SafeInv
  BY DEF Init, SafeInv, NeverInterleaved, NoOrphanRows
<1> QED
  BY <1>2, <1>3, <1>4, <1>5, <1>6, <1>7, <1>8 DEF IInv

\* The inductive invariant of the run endpoint, the recorder and DELETE.
THEOREM Invariants == Spec => []IInv
<1>1. IInv /\ [Next]_vars => IInv'
  BY StoreTypesNext, CallTypesNext, LockTypesNext, QueueTypesNext, RequestInvNext,
     DeleterInvNext, WorkerInvNext, QueueInvNext, ResultInvNext, PutInvNext, ConnInvNext,
     LockInvNext, HeldInvNext, LoopInvNext, SafeInvNext
  DEF IInv
<1> QED
  BY InitIInv, <1>1, PTL DEF Spec

\* Every reachable state is well typed: the queue and the pool keep their bounds.
THEOREM TypeCorrect == Spec => []TypeOK
<1>1. IInv => TypeOK
  BY TypeParts DEF IInv
<1> QED
  BY Invariants, <1>1, PTL

\* What a request, a recorder or a DELETE took it gives back on every path.
THEOREM TransactionsEnd == Spec => []NothingLeaks
<1>1. IInv => NothingLeaks
  <2> SUFFICES ASSUME IInv PROVE NothingLeaks
    OBVIOUS
  <2>1. conns \subseteq Actors /\ \A t \in Tasks : rowLock[t] \in Actors \cup {Nobody}
    BY DEF IInv, LockTypes
  <2> QED
    BY <2>1 DEF IInv, ConnInv, LockInv, NothingLeaks, Inside, Locking
<1> QED
  BY Invariants, <1>1, PTL

\* With row locks no run is accepted for a task that a DELETE has taken, however
\* many of them cross and however long a put waits.
THEOREM DeleteIsNeverBetween ==
    ASSUME RowLocks
    PROVE  Spec => []NeverInterleaved
<1>1. IInv => NeverInterleaved
  BY DEF IInv, SafeInv
<1> QED
  BY Invariants, <1>1, PTL

\* With row locks no row of a run outlives its task.
THEOREM RowsGoWithTheirTask ==
    ASSUME RowLocks
    PROVE  Spec => []NoOrphanRows
<1>1. IInv => NoOrphanRows
  BY DEF IInv, SafeInv
<1> QED
  BY Invariants, <1>1, PTL
=============================================================================

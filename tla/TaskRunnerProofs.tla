-------------------------- MODULE TaskRunnerProofs --------------------------
(***************************************************************************)
(* Proofs about TaskRunner for every set of runs and workers, every queue  *)
(* bound and every set of malformed commands: its types and counters, the  *)
(* place of every run, child processes, close() and its drain, the number  *)
(* of processes and of woken puts, and that it implements RunLifecycle.    *)
(***************************************************************************)
EXTENDS TaskRunner, FiniteSetTheorems, TLAPS

-----------------------------------------------------------------------------
(* Facts about the constants and the data.                                   *)

\* The queue's bound is a positive number.
LEMMA ConstantFacts ==
    /\ Cardinality(Workers) \in Nat
    /\ MaxSize \in Nat
<1>1. Cardinality(Workers) \in Nat
  BY WorkersAssumption, FS_CardinalityType
<1> QED
  BY <1>1, BoundAssumption DEF MaxSize

\* What put appends to a queue is at its end and leaves the rest in place.
LEMMA ConcatFacts ==
    ASSUME NEW S, NEW p \in Seq(S), NEW q \in Seq(S)
    PROVE  /\ p \o q \in Seq(S)
           /\ Len(p \o q) = Len(p) + Len(q)
           /\ \A i \in 1 .. Len(p) : (p \o q)[i] = p[i]
           /\ \A i \in 1 .. Len(q) : (p \o q)[Len(p) + i] = q[i]
OBVIOUS

\* A waiting put is at the end of the waiting puts.
LEMMA AppendFacts ==
    ASSUME NEW S, NEW q \in Seq(S), NEW x \in S
    PROVE  /\ Append(q, x) \in Seq(S)
           /\ Len(q) \in Nat
           /\ Len(Append(q, x)) = Len(q) + 1
           /\ \A i \in 1 .. Len(q) : Append(q, x)[i] = q[i]
           /\ Append(q, x)[Len(q) + 1] = x
OBVIOUS

\* A get takes the first item and moves the others up by one.
LEMMA TailFacts ==
    ASSUME NEW S, NEW q \in Seq(S), q # <<>>
    PROVE  /\ Head(q) \in S
           /\ Head(q) = q[1]
           /\ Len(q) \in Nat \ {0}
           /\ Tail(q) \in Seq(S)
           /\ Len(Tail(q)) = Len(q) - 1
           /\ \A i \in 1 .. Len(Tail(q)) : Tail(q)[i] = q[i + 1]
OBVIOUS

\* The sentinels are items, and there are k of them when there is room for k.
LEMMA SentinelFacts ==
    ASSUME NEW k \in Int
    PROVE  /\ Sentinels(k) \in Seq({Shutdown})
           /\ Sentinels(k) \in Seq(Items)
           /\ \A i \in 1 .. Len(Sentinels(k)) : Sentinels(k)[i] = Shutdown
<1>1. CASE k >= 0
  BY <1>1 DEF Sentinels, Items
<1>2. CASE k < 0
  <2>1. 1 .. k = {}
    BY <1>2
  <2>2. Sentinels(k) = <<>>
    BY <2>1 DEF Sentinels
  <2> QED
    BY <2>2
<1> QED
  BY <1>1, <1>2

-----------------------------------------------------------------------------
(* Types, and what join() counts.                                            *)

\* A worker holds a run exactly while it is in _dispatch.
WorkerInv ==
    \A w \in Workers :
        job[w] # NoRun <=> pc[w] \in {"running", "exited", "overdue", "cancelled"}

CountInv == TypeOK /\ WorkerInv /\ JoinAccounting

\* Before start() there is no worker to take a run.
StartInv == ~started /\ closer = "open" => \A w \in Workers : pc[w] = "unborn"

\* The number of busy workers after one of them takes or ends a run.
LEMMA BusyFacts ==
    ASSUME NEW B \in SUBSET Workers, NEW w \in Workers
    PROVE  /\ IsFiniteSet(B)
           /\ Cardinality(B) \in Nat
           /\ w \notin B => Cardinality(B \cup {w}) = Cardinality(B) + 1
           /\ w \in B => /\ Cardinality(B) > 0
                         /\ Cardinality(B \ {w}) = Cardinality(B) - 1
<1>1. IsFiniteSet(B)
  BY WorkersAssumption, FS_Subset
<1>2. Cardinality(B) \in Nat
  BY <1>1, FS_CardinalityType
<1>3. w \notin B => Cardinality(B \cup {w}) = Cardinality(B) + 1
  BY <1>1, FS_AddElement
<1>4. ASSUME w \in B
      PROVE  Cardinality(B) > 0 /\ Cardinality(B \ {w}) = Cardinality(B) - 1
  <2>1. Cardinality(B) # 0
    BY <1>1, <1>4, FS_EmptySet
  <2>2. Cardinality(B \ {w}) = Cardinality(B) - 1
    BY <1>1, <1>4, FS_RemoveElement
  <2> QED
    BY <1>2, <2>1, <2>2
<1> QED
  BY <1>1, <1>2, <1>3, <1>4

\* The number of busy workers is a number.
LEMMA BusyNat == Cardinality(Busy) \in Nat
<1>1. IsFiniteSet(Busy)
  BY WorkersAssumption, FS_Subset DEF Busy
<1> QED
  BY <1>1, FS_CardinalityType

\* In the initial state.
LEMMA CountInit == Init => CountInv
<1> SUFFICES ASSUME Init PROVE CountInv
  OBVIOUS
<1>1. TypeOK
  <2>1. queue \in Seq(Items) /\ putters \in Seq(Items) /\ woken \subseteq Items
    BY DEF Init
  <2>2. started \in BOOLEAN /\ overrun \in BOOLEAN /\ spared \subseteq Workers /\ toPut \in Nat /\ unfinished \in Nat
    BY DEF Init
  <2>3. live \subseteq Runs /\ detached \subseteq Runs /\ lost \subseteq Runs /\ early \subseteq Runs
    BY DEF Init
  <2>4. call \in [Runs -> {"new", "refused", "blocked", "accepted"}]
    BY DEF Init
  <2>5. launches \in [Runs -> Nat] /\ rows \in [Runs -> Nat]
    BY DEF Init
  <2>6. job \in [Workers -> Runs \cup {NoRun}]
    BY DEF Init
  <2> QED
    BY <2>1, <2>2, <2>3, <2>4, <2>5, <2>6 DEF Init, TypeOK
<1>2. WorkerInv
  BY DEF Init, WorkerInv
<1>3. JoinAccounting
  <2>1. Busy = {}
    BY DEF Init, Busy
  <2> QED
    BY <2>1, FS_EmptySet DEF Init, JoinAccounting
<1> QED
  BY <1>1, <1>2, <1>3 DEF CountInv

\* What a get does to the queue and to the puts that wait.
LEMMA DequeueFacts ==
    ASSUME TypeOK, Dequeue
    PROVE  /\ queue' \in Seq(Items)
           /\ Len(queue) \in Nat \ {0}
           /\ Len(queue') = Len(queue) - 1
           /\ \A i \in 1 .. Len(queue') : queue'[i] = queue[i + 1]
           /\ putters' \in Seq(Items)
           /\ woken' \subseteq Items
<1>1. queue \in Seq(Items) /\ putters \in Seq(Items) /\ woken \subseteq Items
  BY DEF TypeOK
<1>2. queue # <<>> /\ queue' = Tail(queue)
  BY DEF Dequeue
<1>3. putters' \in Seq(Items) /\ woken' \subseteq Items
  <2>1. CASE putters = <<>>
    BY <1>1, <2>1 DEF Dequeue
  <2>2. CASE putters # <<>>
    <3>1. putters' = Tail(putters) /\ woken' = woken \cup {Head(putters)}
      BY <2>2 DEF Dequeue
    <3>2. Tail(putters) \in Seq(Items) /\ Head(putters) \in Items
      BY <1>1, <2>2, TailFacts
    <3> QED
      BY <1>1, <3>1, <3>2
  <2> QED
    BY <2>1, <2>2
<1> QED
  BY <1>1, <1>2, <1>3, TailFacts

\* What task_done() does to join().
LEMMA TaskDoneFacts ==
    ASSUME TypeOK, TaskDone, unfinished > 0
    PROVE  /\ unfinished' \in Nat
           /\ unfinished' = unfinished - 1
           /\ closer' \in {"open", "putting", "joining", "joined", "gathering", "closed"}
BY DEF TypeOK, TaskDone

\* What the put of a run does, whether it finds room or waits.
LEMMA OfferFacts ==
    ASSUME TypeOK, NEW r \in Runs, Offer(r)
    PROVE  /\ queue' \in Seq(Items)
           /\ putters' \in Seq(Items)
           /\ unfinished' \in Nat
           /\ unfinished' - Len(queue') = unfinished - Len(queue)
           /\ call' \in [Runs -> {"new", "refused", "blocked", "accepted"}]
<1>1. <<r>> \in Seq(Items) /\ Len(<<r>>) = 1 /\ r \in Items
  BY DEF Items
<1>2. /\ queue \in Seq(Items) /\ putters \in Seq(Items) /\ unfinished \in Nat
      /\ call \in [Runs -> {"new", "refused", "blocked", "accepted"}]
  BY DEF TypeOK
<1>3. CASE Room > 0
  <2>1. /\ queue' = queue \o <<r>> /\ unfinished' = unfinished + 1 /\ putters' = putters
        /\ call' = [call EXCEPT ![r] = "accepted"]
    <3>1. Room > 0 => ~(Room <= 0)
      BY <1>2, ConstantFacts DEF Room
    <3> QED
      BY <1>1, <1>3, <3>1 DEF Offer, Enqueue
  <2>2. queue' \in Seq(Items) /\ Len(queue') = Len(queue) + 1
    BY <1>1, <1>2, <2>1, ConcatFacts
  <2> QED
    BY <1>2, <2>1, <2>2
<1>4. CASE ~(Room > 0)
  <2>1. /\ putters' = Append(putters, r) /\ queue' = queue /\ unfinished' = unfinished
        /\ call' = [call EXCEPT ![r] = "blocked"]
    BY <1>4 DEF Offer, WaitForRoom
  <2>2. putters' \in Seq(Items)
    BY <1>1, <1>2, <2>1, AppendFacts
  <2> QED
    BY <1>2, <2>1, <2>2
<1> QED
  BY <1>3, <1>4

\* What the puts of close() do.
LEMMA PutSentinelsFacts ==
    ASSUME TypeOK, NEW n \in Nat, PutSentinels(n)
    PROVE  /\ queue' \in Seq(Items)
           /\ putters' \in Seq(Items)
           /\ unfinished' \in Nat
           /\ unfinished' - Len(queue') = unfinished - Len(queue)
           /\ toPut' \in Nat
           /\ closer' \in {"putting", "joining"}
           /\ \E k \in Int : queue' = queue \o Sentinels(k)
<1>1. /\ queue \in Seq(Items) /\ putters \in Seq(Items) /\ unfinished \in Nat
  BY DEF TypeOK
<1> DEFINE k == IF n <= Room THEN n ELSE Room
<1>2. k \in Int /\ k <= n
  BY <1>1, ConstantFacts DEF Room
<1>3. /\ queue' = queue \o Sentinels(k)
      /\ unfinished' = unfinished + Len(Sentinels(k))
      /\ toPut' = n - k
      /\ \/ putters' = Append(putters, Shutdown) /\ closer' = "putting"
         \/ putters' = putters /\ closer' = "joining"
  BY DEF PutSentinels, Enqueue
<1>4. Sentinels(k) \in Seq(Items)
  BY <1>2, SentinelFacts
<1>5. queue' \in Seq(Items) /\ Len(queue') = Len(queue) + Len(Sentinels(k))
  BY <1>1, <1>3, <1>4, ConcatFacts
<1>6. Len(Sentinels(k)) \in Nat /\ Len(queue) \in Nat
  BY <1>1, <1>4
<1>7. putters' \in Seq(Items)
  <2>1. Shutdown \in Items
    BY DEF Items
  <2>2. Append(putters, Shutdown) \in Seq(Items)
    BY <1>1, <2>1, AppendFacts
  <2> QED
    BY <1>1, <1>3, <2>2
<1> HIDE DEF k
<1>8. toPut' \in Nat
  BY <1>2, <1>3
<1>9. unfinished' \in Nat /\ unfinished' - Len(queue') = unfinished - Len(queue)
  BY <1>1, <1>3, <1>5, <1>6
<1> QED
  BY <1>2, <1>3, <1>5, <1>7, <1>8, <1>9

\* A get by an idle worker: what there was to get, and the types afterwards.
LEMMA TakesFacts ==
    ASSUME CountInv, NEW w \in Workers, NEW item, Takes(w, item)
    PROVE  /\ queue' \in Seq(Items)
           /\ Len(queue') = Len(queue) - 1
           /\ Len(queue) \in Nat \ {0}
           /\ putters' \in Seq(Items)
           /\ woken' \subseteq Items
           /\ pc[w] = "idle"
           /\ w \notin Busy
           /\ unfinished > 0
<1>1. TypeOK /\ Dequeue /\ pc[w] = "idle"
  BY DEF CountInv, Takes
<1>2. Len(queue) \in Nat \ {0}
  BY <1>1, DequeueFacts
<1>3. Cardinality(Busy) \in Nat
  BY BusyFacts DEF Busy
<1>4. unfinished > 0
  BY <1>2, <1>3 DEF CountInv, JoinAccounting
<1>5. w \notin Busy
  BY <1>1 DEF CountInv, WorkerInv, Busy
<1> QED
  BY <1>1, <1>4, <1>5, DequeueFacts

\* A worker that ends its run is one of those that join() counts.
LEMMA ReleaseFacts ==
    ASSUME CountInv, NEW w \in Workers, job[w] # NoRun, TaskDone,
           job' = [job EXCEPT ![w] = NoRun], queue' = queue
    PROVE  /\ unfinished' \in Nat
           /\ closer' \in {"open", "putting", "joining", "joined", "gathering", "closed"}
           /\ job' \in [Workers -> Runs \cup {NoRun}]
           /\ JoinAccounting'
<1>1. TypeOK /\ w \in Busy /\ Busy \in SUBSET Workers
  BY DEF CountInv, Busy
<1>2. Cardinality(Busy) \in Nat /\ Cardinality(Busy) > 0
      /\ Cardinality(Busy \ {w}) = Cardinality(Busy) - 1
  BY <1>1, BusyFacts
<1>3. Len(queue) \in Nat
  BY <1>1 DEF TypeOK
<1>4. unfinished = Len(queue) + Cardinality(Busy)
  BY DEF CountInv, JoinAccounting
<1>5. Busy' = Busy \ {w}
  BY <1>1 DEF Busy, TypeOK
<1>6. unfinished > 0
  BY <1>2, <1>3, <1>4
<1>7. /\ unfinished' \in Nat /\ unfinished' = unfinished - 1
      /\ closer' \in {"open", "putting", "joining", "joined", "gathering", "closed"}
  BY <1>1, <1>6, TaskDoneFacts
<1>8. job' \in [Workers -> Runs \cup {NoRun}]
  BY <1>1 DEF TypeOK
<1>9. unfinished' = Len(queue') + Cardinality(Busy')
  BY <1>2, <1>3, <1>4, <1>5, <1>7
<1> QED
  BY <1>7, <1>8, <1>9 DEF JoinAccounting

\* The recorder keeps the types.
LEMMA RecordFacts ==
    ASSUME TypeOK, NEW r \in Runs, Record(r)
    PROVE  rows' \in [Runs -> Nat] /\ lost' \subseteq Runs
BY DEF TypeOK, Record

\* A step that changes neither the queue nor a worker's run keeps the count.
LEMMA SameCount ==
    ASSUME CountInv, job' = job, queue' = queue, unfinished' = unfinished
    PROVE  JoinAccounting'
BY DEF CountInv, JoinAccounting, Busy

\* A get that is done at once keeps the count.
LEMMA TakeDoneCount ==
    ASSUME CountInv, NEW w \in Workers, NEW item, Takes(w, item), TaskDone, job' = job
    PROVE  /\ JoinAccounting'
           /\ unfinished' \in Nat
           /\ closer' \in {"open", "putting", "joining", "joined", "gathering", "closed"}
<1>1. TypeOK /\ unfinished > 0 /\ Len(queue) \in Nat \ {0} /\ Len(queue') = Len(queue) - 1
  BY TakesFacts DEF CountInv
<1>2. /\ unfinished' \in Nat /\ unfinished' = unfinished - 1
      /\ closer' \in {"open", "putting", "joining", "joined", "gathering", "closed"}
  BY <1>1, TaskDoneFacts
<1>3. Busy' = Busy /\ Cardinality(Busy) \in Nat
  BY BusyFacts DEF Busy
<1>4. unfinished = Len(queue) + Cardinality(Busy)
  BY DEF CountInv, JoinAccounting
<1>5. unfinished' = Len(queue') + Cardinality(Busy')
  BY <1>1, <1>2, <1>3, <1>4
<1> QED
  BY <1>2, <1>5 DEF JoinAccounting

\* Steps of the callers of submit() keep the counting invariant.
LEMMA CountSubmit ==
    ASSUME CountInv, NEW r \in Runs, SubmitStep(r)
    PROVE  CountInv'
<1>1. TypeOK /\ WorkerInv /\ JoinAccounting
  BY DEF CountInv
<1>2. CASE Refuse(r)
  <2>1. TypeOK'
    BY <1>1, <1>2 DEF Refuse, TypeOK, queueVars, closeVars, childVars, recordVars
  <2>2. WorkerInv'
    BY <1>1, <1>2 DEF Refuse, WorkerInv
  <2>3. JoinAccounting'
    BY <1>2, SameCount DEF Refuse, queueVars
  <2> QED
    BY <2>1, <2>2, <2>3 DEF CountInv
<1>3. ASSUME Offer(r), woken' \subseteq woken,
             UNCHANGED <<closeVars, pc, job, childVars, recordVars>>
      PROVE  CountInv'
  <2>1. /\ queue' \in Seq(Items) /\ putters' \in Seq(Items) /\ unfinished' \in Nat
        /\ unfinished' - Len(queue') = unfinished - Len(queue)
        /\ call' \in [Runs -> {"new", "refused", "blocked", "accepted"}]
    BY <1>1, <1>3, OfferFacts
  <2>2. TypeOK'
    BY <1>1, <1>3, <2>1 DEF TypeOK, closeVars, childVars, recordVars
  <2>3. WorkerInv'
    BY <1>1, <1>3 DEF WorkerInv
  <2>4. Busy' = Busy /\ Cardinality(Busy) \in Nat
    BY <1>3, BusyNat DEF Busy
  <2>5. unfinished \in Nat /\ Len(queue) \in Nat /\ Len(queue') \in Nat
    BY <1>1, <2>1 DEF TypeOK
  <2>6. unfinished' = Len(queue') + Cardinality(Busy')
    BY <1>1, <2>1, <2>4, <2>5 DEF JoinAccounting
  <2> QED
    BY <2>2, <2>3, <2>6 DEF CountInv, JoinAccounting
<1>4. CASE Submit(r)
  BY <1>3, <1>4 DEF Submit
<1>5. CASE ResumeSubmit(r)
  BY <1>3, <1>5 DEF ResumeSubmit
<1> QED
  BY <1>2, <1>4, <1>5 DEF SubmitStep

\* A worker's step leaves these alone unless it says otherwise.
LEMMA CountWorker ==
    ASSUME CountInv, NEW w \in Workers, WorkerStep(w)
    PROVE  CountInv'
<1> USE DEF closeVars, childVars, recordVars, queueVars
<1>1. TypeOK /\ WorkerInv /\ JoinAccounting
  BY DEF CountInv
<1>2. ASSUME NEW r \in Runs, Launch(w, r) PROVE CountInv'
  <2>1. /\ queue' \in Seq(Items) /\ Len(queue') = Len(queue) - 1 /\ Len(queue) \in Nat \ {0}
        /\ putters' \in Seq(Items) /\ woken' \subseteq Items /\ pc[w] = "idle" /\ w \notin Busy
    BY <1>2, TakesFacts DEF Launch
  <2>2. TypeOK'
    BY <1>1, <1>2, <2>1 DEF Launch, TypeOK
  <2>3. WorkerInv'
    BY <1>1, <1>2, ItemAssumption DEF Launch, TypeOK, WorkerInv
  <2>4. Busy' = Busy \cup {w}
    BY <1>1, <1>2, ItemAssumption DEF Launch, TypeOK, Busy
  <2>5. Cardinality(Busy') = Cardinality(Busy) + 1 /\ Cardinality(Busy) \in Nat
    BY <2>1, <2>4, BusyFacts DEF Busy
  <2>6. unfinished' = unfinished /\ unfinished = Len(queue) + Cardinality(Busy)
    BY <1>1, <1>2 DEF Launch, JoinAccounting
  <2>7. JoinAccounting'
    BY <2>1, <2>5, <2>6 DEF JoinAccounting
  <2> QED
    BY <2>2, <2>3, <2>7 DEF CountInv
<1>3. ASSUME NEW item, Takes(w, item), TaskDone, job' = job,
             pc' \in {pc, [pc EXCEPT ![w] = "stopped"]},
             rows' \in [Runs -> Nat], lost' \subseteq Runs,
             UNCHANGED <<started, toPut, early, overrun, spared, call, childVars>>
      PROVE  CountInv'
  <2>1. /\ queue' \in Seq(Items) /\ putters' \in Seq(Items) /\ woken' \subseteq Items
        /\ pc[w] = "idle"
    BY <1>3, TakesFacts
  <2>2. /\ JoinAccounting' /\ unfinished' \in Nat
        /\ closer' \in {"open", "putting", "joining", "joined", "gathering", "closed"}
    BY <1>3, TakeDoneCount
  <2>3. pc' \in [Workers -> {"unborn", "idle", "running", "exited", "overdue",
                             "cancelled", "stopped"}]
    BY <1>1, <1>3 DEF TypeOK
  <2>4. TypeOK'
    BY <1>1, <1>3, <2>1, <2>2, <2>3 DEF TypeOK
  <2>5. WorkerInv'
    BY <1>1, <1>3, <2>1 DEF TypeOK, WorkerInv
  <2> QED
    BY <2>2, <2>4, <2>5 DEF CountInv
<1>4. ASSUME NEW r \in Runs, FailToStart(w, r) PROVE CountInv'
  <2>1. rows' \in [Runs -> Nat] /\ lost' \subseteq Runs
    BY <1>1, <1>4, RecordFacts DEF FailToStart
  <2> QED
    BY <1>3, <1>4, <2>1 DEF FailToStart
<1>5. ASSUME NEW r \in Runs, Crash(w, r) PROVE CountInv'
  <2>1. rows' \in [Runs -> Nat] /\ lost' \subseteq Runs
    BY <1>1, <1>5 DEF Crash, TypeOK
  <2> QED
    BY <1>3, <1>5, <2>1 DEF Crash
<1>6. CASE Stop(w)
  <2>1. rows' \in [Runs -> Nat] /\ lost' \subseteq Runs
    BY <1>1, <1>6 DEF Stop, TypeOK
  <2> QED
    BY <1>3, <1>6, <2>1 DEF Stop
<1>7. ASSUME NEW s \in {"exited", "overdue", "cancelled"}, pc[w] = "running",
             pc' = [pc EXCEPT ![w] = s], spared' \subseteq Workers,
             UNCHANGED <<queueVars, started, closer, toPut, early, overrun, call, job,
                         childVars, recordVars>>
      PROVE  CountInv'
  <2>1. TypeOK'
    BY <1>1, <1>7 DEF TypeOK
  <2>2. WorkerInv'
    BY <1>1, <1>7 DEF TypeOK, WorkerInv
  <2>3. JoinAccounting'
    BY <1>7, SameCount
  <2> QED
    BY <2>1, <2>2, <2>3 DEF CountInv
<1>8. CASE Communicated(w)
  BY <1>1, <1>7, <1>8 DEF Communicated, TypeOK
<1>9. CASE TimedOut(w)
  BY <1>1, <1>7, <1>9 DEF TimedOut, TypeOK
<1>10. CASE CancelRunning(w) \/ CancelSwallowed(w)
  BY <1>1, <1>7, <1>10 DEF CancelRunning, CancelSwallowed, TypeOK
<1>11. CASE CancelIdle(w)
  <2>1. TypeOK'
    BY <1>1, <1>11 DEF CancelIdle, TypeOK
  <2>2. WorkerInv'
    BY <1>1, <1>11 DEF CancelIdle, TypeOK, WorkerInv
  <2>3. JoinAccounting'
    BY <1>11, SameCount DEF CancelIdle
  <2> QED
    BY <2>1, <2>2, <2>3 DEF CountInv
<1>12. ASSUME pc[w] \in {"exited", "overdue", "cancelled"}, TaskDone, queue' = queue,
              job' = [job EXCEPT ![w] = NoRun],
              NEW s \in {"idle", "stopped"}, pc' = [pc EXCEPT ![w] = s],
              rows' \in [Runs -> Nat], lost' \subseteq Runs, detached' \subseteq Runs,
              UNCHANGED <<putters, woken, started, toPut, early, overrun, spared, call, live,
                        launches>>
       PROVE  CountInv'
  <2>1. job[w] # NoRun
    BY <1>1, <1>12 DEF WorkerInv
  <2>2. /\ unfinished' \in Nat /\ JoinAccounting' /\ job' \in [Workers -> Runs \cup {NoRun}]
        /\ closer' \in {"open", "putting", "joining", "joined", "gathering", "closed"}
    BY <1>12, <2>1, ReleaseFacts
  <2>3. TypeOK'
    BY <1>1, <1>12, <2>2 DEF TypeOK
  <2>4. WorkerInv'
    BY <1>1, <1>12 DEF TypeOK, WorkerInv
  <2> QED
    BY <2>2, <2>3, <2>4 DEF CountInv
<1>13. CASE Finish(w)
  <2>1. job[w] \in Runs
    BY <1>1, <1>13 DEF Finish, WorkerInv, TypeOK
  <2>2. rows' \in [Runs -> Nat] /\ lost' \subseteq Runs
    BY <1>1, <1>13, <2>1, RecordFacts DEF Finish
  <2>3. detached' \subseteq Runs
    BY <1>1, <1>13 DEF Finish, TypeOK
  <2> QED
    BY <1>12, <1>13, <2>2, <2>3 DEF Finish
<1>14. CASE CancelReaping(w)
  <2>1. rows' \in [Runs -> Nat] /\ lost' \subseteq Runs /\ detached' \subseteq Runs
    BY <1>1, <1>14 DEF CancelReaping, TypeOK
  <2> QED
    BY <1>12, <1>14, <2>1 DEF CancelReaping
<1>15. CASE FinishCancelled(w)
  <2>1. rows' \in [Runs -> Nat] /\ lost' \subseteq Runs /\ detached' \subseteq Runs
    BY <1>1, <1>15 DEF FinishCancelled, TypeOK
  <2> QED
    BY <1>12, <1>15, <2>1 DEF FinishCancelled
<1> QED
  BY <1>2, <1>4, <1>5, <1>6, <1>8, <1>9, <1>10, <1>11, <1>13, <1>14, <1>15 DEF WorkerStep

\* Steps of close() keep the counting invariant.
LEMMA CountClose ==
    ASSUME CountInv, CloseStep
    PROVE  CountInv'
<1> USE DEF closeVars, childVars, recordVars, queueVars
<1>1. TypeOK /\ WorkerInv /\ JoinAccounting
  BY DEF CountInv
<1>2. ASSUME NEW n \in Nat, PutSentinels(n), woken' \subseteq woken, early' \subseteq Runs,
             UNCHANGED <<started, overrun, spared, call, pc, job, childVars, recordVars>>
      PROVE  CountInv'
  <2>1. /\ queue' \in Seq(Items) /\ putters' \in Seq(Items) /\ unfinished' \in Nat
        /\ unfinished' - Len(queue') = unfinished - Len(queue)
        /\ toPut' \in Nat /\ closer' \in {"putting", "joining"}
    BY <1>1, <1>2, PutSentinelsFacts
  <2>2. TypeOK'
    BY <1>1, <1>2, <2>1 DEF TypeOK
  <2>3. WorkerInv'
    BY <1>1, <1>2 DEF WorkerInv
  <2>4. Busy' = Busy /\ Cardinality(Busy) \in Nat
    BY <1>2, BusyNat DEF Busy
  <2>5. unfinished \in Nat /\ Len(queue) \in Nat /\ Len(queue') \in Nat
    BY <1>1, <2>1 DEF TypeOK
  <2>6. unfinished' = Len(queue') + Cardinality(Busy')
    BY <1>1, <2>1, <2>4, <2>5 DEF JoinAccounting
  <2> QED
    BY <2>2, <2>3, <2>6 DEF CountInv, JoinAccounting
<1>3. CASE Close
  <2>1. early' \subseteq Runs
    BY <1>3 DEF Close
  <2> QED
    BY <1>2, <1>3, <2>1, ConstantFacts DEF Close
<1>4. CASE ResumeClose
  <2>1. toPut \in Nat /\ early' \subseteq Runs
    BY <1>1, <1>4 DEF ResumeClose, TypeOK
  <2> QED
    BY <1>2, <1>4, <2>1 DEF ResumeClose
<1>5. ASSUME closer' \in {"gathering", "closed"}, started' \in BOOLEAN, overrun' \in BOOLEAN,
             UNCHANGED <<queueVars, toPut, early, spared, call, pc, job, childVars, recordVars>>
      PROVE  CountInv'
  <2>1. TypeOK'
    BY <1>1, <1>5 DEF TypeOK
  <2>2. WorkerInv'
    BY <1>1, <1>5 DEF WorkerInv
  <2>3. JoinAccounting'
    BY <1>5, SameCount
  <2> QED
    BY <2>1, <2>2, <2>3 DEF CountInv
<1>6. CASE DrainTimeout
  BY <1>1, <1>5, <1>6 DEF DrainTimeout, TypeOK
<1>7. CASE CancelWorkers
  BY <1>1, <1>5, <1>7 DEF CancelWorkers, TypeOK
<1>8. CASE CloseReturns
  BY <1>1, <1>5, <1>8 DEF CloseReturns, TypeOK
<1> QED
  BY <1>3, <1>4, <1>6, <1>7, <1>8 DEF CloseStep

\* start() and the exit of a child keep the counting invariant.
LEMMA CountOther ==
    ASSUME CountInv, StartInv, Start \/ (\E r \in Runs : ChildExits(r))
    PROVE  CountInv'
<1> USE DEF closeVars, childVars, recordVars, queueVars
<1>1. TypeOK /\ WorkerInv /\ JoinAccounting
  BY DEF CountInv
<1>2. CASE Start
  <2>1. TypeOK'
    BY <1>1, <1>2 DEF Start, TypeOK
  <2>2. WorkerInv'
    BY <1>1, <1>2 DEF Start, StartInv, WorkerInv, TypeOK
  <2>3. JoinAccounting'
    BY <1>2, SameCount DEF Start
  <2> QED
    BY <2>1, <2>2, <2>3 DEF CountInv
<1>3. ASSUME NEW r \in Runs, ChildExits(r) PROVE CountInv'
  <2>1. TypeOK'
    BY <1>1, <1>3 DEF ChildExits, TypeOK
  <2>2. WorkerInv'
    BY <1>1, <1>3 DEF ChildExits, WorkerInv
  <2>3. JoinAccounting'
    BY <1>3, SameCount DEF ChildExits
  <2> QED
    BY <2>1, <2>2, <2>3 DEF CountInv
<1> QED
  BY <1>2, <1>3

\* A step that changes nothing keeps the counting invariant.
LEMMA CountStutter == CountInv /\ UNCHANGED vars => CountInv'
BY DEF CountInv, TypeOK, WorkerInv, JoinAccounting, Busy, vars, queueVars, closeVars,
       childVars, recordVars

\* Every step keeps the counting invariant.
LEMMA CountStep == CountInv /\ StartInv /\ [Next]_vars => CountInv'
<1> SUFFICES ASSUME CountInv, StartInv, [Next]_vars PROVE CountInv'
  OBVIOUS
<1>1. CASE Start
  BY <1>1, CountOther
<1>2. ASSUME NEW r \in Runs, SubmitStep(r) \/ ChildExits(r) PROVE CountInv'
  BY <1>2, CountSubmit, CountOther
<1>3. ASSUME NEW w \in Workers, WorkerStep(w) PROVE CountInv'
  BY <1>3, CountWorker
<1>4. CASE CloseStep
  BY <1>4, CountClose
<1>5. CASE UNCHANGED vars
  BY <1>5, CountStutter
<1> QED
  BY <1>1, <1>2, <1>3, <1>4, <1>5 DEF Next

\* No step but start() creates a worker.
LEMMA StartStep == TypeOK /\ StartInv /\ [Next]_vars => StartInv'
<1> SUFFICES ASSUME TypeOK, StartInv, [Next]_vars,
                    ~started', closer' = "open"
             PROVE  \A w \in Workers : pc'[w] = "unborn"
  BY DEF StartInv
<1> USE DEF closeVars, childVars, recordVars, queueVars
<1>1. ~Start
  BY DEF Start
<1>2. ASSUME NEW r \in Runs, SubmitStep(r) \/ ChildExits(r)
      PROVE  pc' = pc /\ ~started /\ closer = "open"
  BY <1>2 DEF SubmitStep, Refuse, Submit, ResumeSubmit, ChildExits
<1>3. ASSUME NEW v \in Workers, WorkerStep(v)
      PROVE  pc[v] # "unborn" /\ ~started /\ closer = "open"
  BY <1>3 DEF WorkerStep, Launch, FailToStart, Crash, Stop, Takes, TaskDone, Communicated,
              TimedOut, Finish, CancelIdle, CancelRunning, CancelSwallowed, CancelReaping,
              Cancelled, FinishCancelled
<1>4. ~CloseStep
  BY
     DEF CloseStep, Close, ResumeClose, PutSentinels, DrainTimeout, CancelWorkers,
         CloseReturns
<1>5. CASE UNCHANGED vars
  BY <1>5 DEF StartInv, vars
<1> QED
  BY <1>1, <1>2, <1>3, <1>4, <1>5 DEF Next, StartInv

\* In the initial state.
LEMMA StartInit == Init => StartInv
BY DEF Init, StartInv

\* The two invariants of this section.
THEOREM Counting == Spec => [](CountInv /\ StartInv)
<1>1. CountInv => TypeOK
  BY DEF CountInv
<1> QED
  BY <1>1, CountInit, StartInit, CountStep, StartStep, PTL DEF Spec

\* The types of TypeOK hold for every number of workers and runs.  That
\* unfinished stays a natural number is task_done()'s "called too many times".
THEOREM TypeCorrect == Spec => []TypeOK
<1>1. CountInv => TypeOK
  BY DEF CountInv
<1> QED
  BY <1>1, Counting, PTL

\* join() counts what is queued or held by a worker, whatever fails or is
\* cancelled: no path through _worker_loop misses its task_done() or has two.
THEOREM JoinCountsWork == Spec => []JoinAccounting
<1>1. CountInv => JoinAccounting
  BY DEF CountInv
<1> QED
  BY <1>1, Counting, PTL

-----------------------------------------------------------------------------
(* Where a run is: never in two places, so never executed or recorded twice. *)

Untouched(r) == launches[r] = 0 /\ rows[r] = 0 /\ r \notin lost

\* A run that waits for a worker.
Fresh(r) == /\ call[r] = "accepted"
            /\ Untouched(r)
            /\ \A w \in Workers : job[w] # r

QueueInv ==
    /\ \A i \in 1 .. Len(queue) : queue[i] \in Runs => Fresh(queue[i])
    /\ \A i, j \in 1 .. Len(queue) : queue[i] = queue[j] /\ queue[i] \in Runs => i = j

WaitInv ==
    /\ \A i \in 1 .. Len(putters) :
            putters[i] \in Runs => call[putters[i]] = "blocked" /\ putters[i] \notin woken
    /\ \A i, j \in 1 .. Len(putters) : putters[i] = putters[j] /\ putters[i] \in Runs => i = j
    /\ \A r \in Runs : r \in woken => call[r] = "blocked"

NewInv ==
    \A r \in Runs : call[r] # "accepted" => Untouched(r) /\ \A w \in Workers : job[w] # r

JobInv ==
    /\ \A w \in Workers : job[w] \in Runs =>
            /\ call[job[w]] = "accepted"
            /\ launches[job[w]] = 1 /\ rows[job[w]] = 0 /\ job[w] \notin lost
    /\ \A v, w \in Workers : job[v] = job[w] /\ job[v] \in Runs => v = w

PlaceInv == QueueInv /\ WaitInv /\ NewInv /\ JobInv /\ AtMostOnce

\* In the initial state.
LEMMA PlaceInit == Init => PlaceInv
<1> SUFFICES ASSUME Init PROVE PlaceInv
  OBVIOUS
<1>1. QueueInv /\ WaitInv
  BY DEF Init, QueueInv, WaitInv
<1>2. NewInv /\ AtMostOnce
  BY ItemAssumption DEF Init, NewInv, Untouched, AtMostOnce
<1>3. JobInv
  BY ItemAssumption DEF Init, JobInv
<1> QED
  BY <1>1, <1>2, <1>3 DEF PlaceInv

\* A get hands out a fresh run and leaves fresh ones, and the put it wakes no
\* longer waits.
LEMMA TakePlaces ==
    ASSUME TypeOK, PlaceInv, Dequeue, call' = call
    PROVE  /\ Head(queue) \in Items
           /\ Head(queue) \in Runs => Fresh(Head(queue))
           /\ \A i \in 1 .. Len(queue') : queue'[i] \in Runs =>
                Fresh(queue'[i]) /\ queue'[i] # Head(queue)
           /\ \A i, j \in 1 .. Len(queue') : queue'[i] = queue'[j] /\ queue'[i] \in Runs => i = j
           /\ WaitInv'
<1>1. queue \in Seq(Items) /\ putters \in Seq(Items) /\ queue # <<>> /\ queue' = Tail(queue)
  BY DEF TypeOK, Dequeue
<1>2. /\ Head(queue) \in Items /\ Head(queue) = queue[1] /\ Len(queue) \in Nat \ {0}
      /\ Len(queue') = Len(queue) - 1
      /\ \A i \in 1 .. Len(queue') : queue'[i] = queue[i + 1]
  BY <1>1, TailFacts
<1>3. Head(queue) \in Runs => Fresh(Head(queue))
  BY <1>2 DEF PlaceInv, QueueInv
<1>4. \A i \in 1 .. Len(queue') : i + 1 \in 1 .. Len(queue) /\ i + 1 # 1
  BY <1>2
<1>5. \A i \in 1 .. Len(queue') : queue'[i] \in Runs => Fresh(queue'[i]) /\ queue'[i] # Head(queue)
  BY <1>2, <1>4 DEF PlaceInv, QueueInv
<1>6. \A i, j \in 1 .. Len(queue') : queue'[i] = queue'[j] /\ queue'[i] \in Runs => i = j
  BY <1>2, <1>4 DEF PlaceInv, QueueInv
<1>7. WaitInv'
  <2>1. CASE putters = <<>>
    BY <2>1 DEF Dequeue, PlaceInv, WaitInv
  <2>2. CASE putters # <<>>
    <3>1. putters' = Tail(putters) /\ woken' = woken \cup {Head(putters)}
      BY <2>2 DEF Dequeue
    <3>2. /\ Head(putters) = putters[1] /\ Len(putters) \in Nat \ {0}
          /\ Len(putters') = Len(putters) - 1
          /\ \A i \in 1 .. Len(putters') : putters'[i] = putters[i + 1]
      BY <1>1, <2>2, <3>1, TailFacts
    <3>3. \A i \in 1 .. Len(putters') : i + 1 \in 1 .. Len(putters) /\ i + 1 # 1
      BY <3>2
    <3> QED
      BY <3>1, <3>2, <3>3 DEF PlaceInv, WaitInv
  <2> QED
    BY <2>1, <2>2
<1> QED
  BY <1>2, <1>3, <1>5, <1>6, <1>7

\* Steps of the callers of submit() keep the places.
LEMMA PlaceSubmit ==
    ASSUME TypeOK, PlaceInv, NEW r \in Runs, SubmitStep(r)
    PROVE  PlaceInv'
<1> USE DEF closeVars, childVars, recordVars, queueVars
<1>1. CASE Refuse(r)
  <2>1. call[r] = "new" /\ call' = [call EXCEPT ![r] = "refused"]
    BY <1>1 DEF Refuse
  <2>2. QueueInv'
    BY <1>1, <2>1 DEF Refuse, PlaceInv, QueueInv, Fresh, Untouched, TypeOK
  <2>3. WaitInv'
    BY <1>1, <2>1 DEF Refuse, PlaceInv, WaitInv, TypeOK
  <2>4. NewInv' /\ JobInv' /\ AtMostOnce'
    BY <1>1, <2>1 DEF Refuse, PlaceInv, NewInv, Untouched, JobInv, AtMostOnce, TypeOK
  <2> QED
    BY <2>2, <2>3, <2>4 DEF PlaceInv
<1>2. ASSUME Offer(r), UNCHANGED <<job, childVars, recordVars>>,
             \/ call[r] = "new" /\ woken' = woken
             \/ r \in woken /\ woken' = woken \ {r}
      PROVE  PlaceInv'
  <2>1. call[r] \in {"new", "blocked"} /\ woken' \subseteq woken /\ r \notin woken'
    BY <1>2 DEF PlaceInv, WaitInv
  <2>2. queue \in Seq(Items) /\ putters \in Seq(Items) /\ r \in Items
    BY DEF TypeOK, Items
  <2>3. /\ \A i \in 1 .. Len(queue) : queue[i] # r
        /\ \A i \in 1 .. Len(putters) : putters[i] # r
    BY <1>2, <2>1 DEF PlaceInv, QueueInv, Fresh, WaitInv
  <2>4. Untouched(r) /\ \A w \in Workers : job[w] # r
    BY <2>1 DEF PlaceInv, NewInv
  <2>5. CASE Room > 0
    <3>1. queue' = queue \o <<r>> /\ putters' = putters /\ call' = [call EXCEPT ![r] = "accepted"]
      <4>1. Room > 0 => ~(Room <= 0)
        BY <2>2, ConstantFacts DEF Room
      <4> QED
        BY <1>2, <2>5, <4>1 DEF Offer, Enqueue
    <3>2. <<r>> \in Seq(Items) /\ Len(<<r>>) = 1 /\ <<r>>[1] = r
      BY <2>2
    <3>3. /\ Len(queue) \in Nat /\ Len(queue') = Len(queue) + 1
          /\ \A i \in 1 .. Len(queue) : queue'[i] = queue[i]
          /\ queue'[Len(queue) + 1] = r
      BY <2>2, <3>1, <3>2, ConcatFacts
    <3>4. \A i \in 1 .. Len(queue') : i \in 1 .. Len(queue) \/ i = Len(queue) + 1
      BY <3>3
    <3>5. QueueInv'
      <4> DEFINE FreshNext(q) == /\ call'[q] = "accepted" /\ launches'[q] = 0 /\ rows'[q] = 0
                                 /\ q \notin lost' /\ \A w \in Workers : job'[w] # q
      <4>1. ASSUME NEW q \in Runs, Fresh(q) \/ q = r PROVE FreshNext(q)
        BY <1>2, <2>4, <3>1, <4>1 DEF Fresh, Untouched, TypeOK
      <4>2. \A i \in 1 .. Len(queue') : queue'[i] \in Runs => FreshNext(queue'[i])
        <5> SUFFICES ASSUME NEW i \in 1 .. Len(queue'), queue'[i] \in Runs
                     PROVE  FreshNext(queue'[i])
          OBVIOUS
        <5>1. Fresh(queue'[i]) \/ queue'[i] = r
          BY <3>3, <3>4 DEF PlaceInv, QueueInv
        <5> QED
          BY <4>1, <5>1
      <4>3. \A i, j \in 1 .. Len(queue') : queue'[i] = queue'[j] /\ queue'[i] \in Runs => i = j
        BY <2>3, <3>3, <3>4 DEF PlaceInv, QueueInv
      <4> QED
        BY <4>2, <4>3 DEF QueueInv, Fresh, Untouched
    <3>6. WaitInv'
      <4>1. \A q \in Runs : q # r => call'[q] = call[q]
        BY <3>1 DEF TypeOK
      <4>2. \A i \in 1 .. Len(putters) : putters[i] \in Runs =>
                call'[putters[i]] = "blocked" /\ putters[i] \notin woken'
        BY <2>1, <2>3, <4>1 DEF PlaceInv, WaitInv
      <4>3. \A q \in Runs : q \in woken' => call'[q] = "blocked"
        BY <2>1, <4>1 DEF PlaceInv, WaitInv
      <4> QED
        BY <3>1, <4>2, <4>3 DEF PlaceInv, WaitInv
    <3>7. NewInv' /\ JobInv' /\ AtMostOnce'
      BY <1>2, <3>1 DEF PlaceInv, NewInv, Untouched, JobInv, AtMostOnce, TypeOK
    <3> QED
      BY <3>5, <3>6, <3>7 DEF PlaceInv
  <2>6. CASE ~(Room > 0)
    <3>1. queue' = queue /\ putters' = Append(putters, r) /\ call' = [call EXCEPT ![r] = "blocked"]
      BY <1>2, <2>6 DEF Offer, WaitForRoom
    <3>2. /\ Len(putters) \in Nat /\ Len(putters') = Len(putters) + 1
          /\ \A i \in 1 .. Len(putters) : putters'[i] = putters[i]
          /\ putters'[Len(putters) + 1] = r
      BY <2>2, <3>1, AppendFacts
    <3>3. \A i \in 1 .. Len(putters') : i \in 1 .. Len(putters) \/ i = Len(putters) + 1
      BY <3>2
    <3>4. WaitInv'
      <4>1. call'[r] = "blocked" /\ \A q \in Runs : q # r => call'[q] = call[q]
        BY <3>1 DEF TypeOK
      <4>2. \A i \in 1 .. Len(putters) : putters[i] \in Runs =>
                call'[putters[i]] = "blocked" /\ putters[i] \notin woken'
        BY <2>1, <2>3, <4>1 DEF PlaceInv, WaitInv
      <4>3. \A i \in 1 .. Len(putters') : putters'[i] \in Runs =>
                call'[putters'[i]] = "blocked" /\ putters'[i] \notin woken'
        BY <2>1, <3>2, <3>3, <4>1, <4>2
      <4>4. \A i, j \in 1 .. Len(putters') : putters'[i] = putters'[j] /\ putters'[i] \in Runs => i = j
        BY <2>3, <3>2, <3>3 DEF PlaceInv, WaitInv
      <4>5. \A q \in Runs : q \in woken' => call'[q] = "blocked"
        BY <2>1, <4>1 DEF PlaceInv, WaitInv
      <4> QED
        BY <4>3, <4>4, <4>5 DEF WaitInv
    <3>5. QueueInv'
      BY <1>2, <2>3, <3>1 DEF PlaceInv, QueueInv, Fresh, Untouched, TypeOK
    <3>6. NewInv' /\ JobInv' /\ AtMostOnce'
      BY <1>2, <2>1, <2>4, <3>1 DEF PlaceInv, NewInv, Untouched, JobInv, AtMostOnce, TypeOK
    <3> QED
      BY <3>4, <3>5, <3>6 DEF PlaceInv
  <2> QED
    BY <2>5, <2>6
<1>3. CASE Submit(r)
  BY <1>2, <1>3 DEF Submit
<1>4. CASE ResumeSubmit(r)
  BY <1>2, <1>4 DEF ResumeSubmit
<1> QED
  BY <1>1, <1>3, <1>4 DEF SubmitStep

\* Steps that move no run keep the places.
LEMMA PlaceQuiet ==
    ASSUME PlaceInv,
           UNCHANGED <<queue, putters, woken, call, job, launches, rows, lost>>
    PROVE  PlaceInv'
<1>1. QueueInv' /\ WaitInv'
  BY DEF PlaceInv, QueueInv, Fresh, Untouched, WaitInv
<1>2. NewInv' /\ JobInv' /\ AtMostOnce'
  BY DEF PlaceInv, NewInv, Untouched, JobInv, AtMostOnce
<1> QED
  BY <1>1, <1>2 DEF PlaceInv

\* What the recorder does to the rows of the run and of others.
LEMMA RecordPlaces ==
    ASSUME TypeOK, NEW r \in Runs, Record(r), rows[r] = 0
    PROVE  /\ rows' \in [Runs -> Nat]
           /\ rows'[r] \in {0, 1}
           /\ \A q \in Runs : q # r => rows'[q] = rows[q] /\ (q \in lost' <=> q \in lost)
BY DEF TypeOK, Record

\* A worker that ends its run keeps the places, whether it records it or not.
LEMMA PlaceRelease ==
    ASSUME TypeOK, PlaceInv, NEW w \in Workers, job[w] \in Runs,
           job' = [job EXCEPT ![w] = NoRun],
           Record(job[w]) \/ UNCHANGED recordVars,
           UNCHANGED <<queue, putters, woken, call, launches>>
    PROVE  PlaceInv'
<1> DEFINE r == job[w]
<1>1. /\ call[r] = "accepted" /\ launches[r] = 1 /\ rows[r] = 0 /\ r \notin lost
      /\ \A v \in Workers : job[v] = r => v = w
  BY DEF PlaceInv, JobInv
<1>2. /\ rows' \in [Runs -> Nat]
      /\ rows'[r] \in {0, 1}
      /\ \A q \in Runs : q # r => rows'[q] = rows[q] /\ (q \in lost' <=> q \in lost)
  <2>1. CASE Record(r)
    BY <1>1, <2>1, RecordPlaces
  <2>2. CASE UNCHANGED recordVars
    BY <1>1, <2>2 DEF recordVars, TypeOK
  <2> QED
    BY <2>1, <2>2
<1>3. job'[w] = NoRun /\ \A v \in Workers : v # w => job'[v] = job[v]
  BY DEF TypeOK
<1> HIDE DEF r
<1>4. QueueInv'
  <2>1. \A i \in 1 .. Len(queue) : queue[i] \in Runs => queue[i] # r
    BY <1>1 DEF PlaceInv, QueueInv, Fresh, Untouched, r
  <2>2. \A q \in Runs : q # r /\ Fresh(q) =>
          /\ call'[q] = "accepted" /\ launches'[q] = 0 /\ rows'[q] = 0 /\ q \notin lost'
          /\ \A v \in Workers : job'[v] # q
    BY <1>2, <1>3, ItemAssumption DEF Fresh, Untouched
  <2> QED
    BY <2>1, <2>2 DEF PlaceInv, QueueInv, Fresh, Untouched
<1>5. WaitInv'
  BY DEF PlaceInv, WaitInv
<1>6. NewInv'
  <2> SUFFICES ASSUME NEW q \in Runs, call'[q] # "accepted"
               PROVE  /\ launches'[q] = 0 /\ rows'[q] = 0 /\ q \notin lost'
                      /\ \A v \in Workers : job'[v] # q
    BY DEF NewInv, Untouched
  <2>1. q # r
    BY <1>1
  <2> QED
    BY <1>2, <1>3, <2>1, ItemAssumption DEF PlaceInv, NewInv, Untouched
<1>7. JobInv'
  <2>1. \A v \in Workers : job'[v] \in Runs => v # w /\ job'[v] = job[v] /\ job[v] # r
    BY <1>1, <1>3, ItemAssumption
  <2> QED
    BY <1>2, <2>1 DEF PlaceInv, JobInv
<1>8. AtMostOnce'
  BY <1>2 DEF PlaceInv, AtMostOnce
<1> QED
  BY <1>4, <1>5, <1>6, <1>7, <1>8 DEF PlaceInv

\* A get whose run is launched.
LEMMA PlaceLaunch ==
    ASSUME TypeOK, PlaceInv, NEW w \in Workers, NEW r \in Runs, Launch(w, r), job[w] = NoRun
    PROVE  PlaceInv'
<1>1. /\ Dequeue /\ Head(queue) = r /\ call' = call
      /\ job' = [job EXCEPT ![w] = r] /\ launches' = [launches EXCEPT ![r] = @ + 1]
      /\ rows' = rows /\ lost' = lost
  BY DEF Launch, Takes, recordVars
<1>2. /\ Fresh(r)
      /\ \A i \in 1 .. Len(queue') : queue'[i] \in Runs => Fresh(queue'[i]) /\ queue'[i] # r
      /\ \A i, j \in 1 .. Len(queue') : queue'[i] = queue'[j] /\ queue'[i] \in Runs => i = j
      /\ WaitInv'
  BY <1>1, TakePlaces
<1>3. /\ job'[w] = r /\ \A v \in Workers : v # w => job'[v] = job[v]
      /\ launches'[r] = 1 /\ \A q \in Runs : q # r => launches'[q] = launches[q]
  BY <1>1, <1>2 DEF TypeOK, Fresh, Untouched
<1>4. QueueInv'
  <2>1. \A q \in Runs : q # r /\ Fresh(q) =>
          /\ call'[q] = "accepted" /\ launches'[q] = 0 /\ rows'[q] = 0 /\ q \notin lost'
          /\ \A v \in Workers : job'[v] # q
    BY <1>1, <1>3 DEF Fresh, Untouched
  <2> QED
    BY <1>2, <2>1 DEF QueueInv, Fresh, Untouched
<1>5. NewInv'
  BY <1>1, <1>2, <1>3 DEF PlaceInv, NewInv, Untouched, Fresh
<1>6. JobInv'
  <2>1. \A v \in Workers : v # w => job'[v] # r
    BY <1>2, <1>3 DEF Fresh
  <2>2. \A v \in Workers : job'[v] \in Runs =>
            /\ call'[job'[v]] = "accepted"
            /\ launches'[job'[v]] = 1 /\ rows'[job'[v]] = 0 /\ job'[v] \notin lost'
    BY <1>1, <1>2, <1>3, <2>1 DEF PlaceInv, JobInv, Fresh, Untouched
  <2>3. \A u, v \in Workers : job'[u] = job'[v] /\ job'[u] \in Runs => u = v
    BY <1>3, <2>1 DEF PlaceInv, JobInv
  <2> QED
    BY <2>2, <2>3 DEF JobInv
<1>7. AtMostOnce'
  BY <1>1, <1>3 DEF PlaceInv, AtMostOnce
<1> QED
  BY <1>2, <1>4, <1>5, <1>6, <1>7 DEF PlaceInv

\* A get whose item is dealt with at once, recorded or not.
LEMMA PlaceTakeDone ==
    ASSUME TypeOK, PlaceInv, Dequeue,
           \/ Head(queue) \in Runs /\ Record(Head(queue))
           \/ UNCHANGED recordVars,
           UNCHANGED <<call, job, launches>>
    PROVE  PlaceInv'
<1> DEFINE r == Head(queue)
<1>1. /\ r \in Runs => Fresh(r)
      /\ \A i \in 1 .. Len(queue') : queue'[i] \in Runs => Fresh(queue'[i]) /\ queue'[i] # r
      /\ \A i, j \in 1 .. Len(queue') : queue'[i] = queue'[j] /\ queue'[i] \in Runs => i = j
      /\ WaitInv'
  BY TakePlaces
<1>2. /\ \A q \in Runs : q # r => rows'[q] = rows[q] /\ (q \in lost' <=> q \in lost)
      /\ r \in Runs => rows'[r] \in {0, 1}
      /\ r \in Runs \/ (rows' = rows /\ lost' = lost)
  <2>1. CASE r \in Runs /\ Record(r)
    <3>1. rows[r] = 0
      BY <1>1, <2>1 DEF Fresh, Untouched
    <3> QED
      BY <2>1, <3>1, RecordPlaces
  <2>2. CASE UNCHANGED recordVars
    BY <1>1, <2>2 DEF recordVars, Fresh, Untouched
  <2> QED
    BY <2>1, <2>2
<1> HIDE DEF r
<1>3. QueueInv'
  <2>1. \A q \in Runs : q # r /\ Fresh(q) =>
          /\ call'[q] = "accepted" /\ launches'[q] = 0 /\ rows'[q] = 0 /\ q \notin lost'
          /\ \A v \in Workers : job'[v] # q
    BY <1>2 DEF Fresh, Untouched
  <2> QED
    BY <1>1, <2>1 DEF QueueInv, Fresh, Untouched
<1>4. NewInv'
  BY <1>1, <1>2 DEF PlaceInv, NewInv, Untouched, Fresh
<1>5. JobInv'
  BY <1>1, <1>2 DEF PlaceInv, JobInv, Fresh
<1>6. AtMostOnce'
  BY <1>2 DEF PlaceInv, AtMostOnce
<1> QED
  BY <1>1, <1>3, <1>4, <1>5, <1>6 DEF PlaceInv

\* Steps of a worker keep the places.
LEMMA PlaceWorker ==
    ASSUME TypeOK, WorkerInv, PlaceInv, NEW w \in Workers, WorkerStep(w)
    PROVE  PlaceInv'
<1> USE DEF closeVars, childVars, recordVars, queueVars
<1>1. ASSUME NEW r \in Runs, Launch(w, r) PROVE PlaceInv'
  <2>1. job[w] = NoRun
    BY <1>1 DEF Launch, Takes, WorkerInv
  <2> QED
    BY <1>1, <2>1, PlaceLaunch
<1>2. ASSUME NEW r \in Runs, FailToStart(w, r) PROVE PlaceInv'
  BY <1>2, PlaceTakeDone DEF FailToStart, Takes
<1>3. ASSUME NEW r \in Runs, Crash(w, r) PROVE PlaceInv'
  BY <1>3, PlaceTakeDone DEF Crash, Takes
<1>4. CASE Stop(w)
  BY <1>4, PlaceTakeDone DEF Stop, Takes
<1>5. CASE Communicated(w) \/ TimedOut(w) \/ CancelIdle(w) \/ CancelRunning(w) \/ CancelSwallowed(w)
  BY <1>5, PlaceQuiet DEF Communicated, TimedOut, CancelIdle, CancelRunning, CancelSwallowed
<1>6. pc[w] \in {"exited", "overdue", "cancelled"} => job[w] \in Runs
  BY DEF WorkerInv, TypeOK
<1>7. CASE Finish(w)
  BY <1>6, <1>7, PlaceRelease DEF Finish
<1>8. CASE CancelReaping(w)
  BY <1>6, <1>8, PlaceRelease DEF CancelReaping
<1>9. CASE FinishCancelled(w)
  BY <1>6, <1>9, PlaceRelease DEF FinishCancelled
<1> QED
  BY <1>1, <1>2, <1>3, <1>4, <1>5, <1>7, <1>8, <1>9 DEF WorkerStep

\* Sentinels are not runs: putting them keeps the places.
LEMMA PlaceSentinels ==
    ASSUME TypeOK, PlaceInv, NEW n \in Nat, PutSentinels(n), woken' \subseteq woken,
           UNCHANGED <<call, job, launches, rows, lost>>
    PROVE  PlaceInv'
<1>1. queue \in Seq(Items) /\ putters \in Seq(Items) /\ Shutdown \in Items
  BY DEF TypeOK, Items
<1>2. PICK k \in Int : queue' = queue \o Sentinels(k)
  BY PutSentinelsFacts
<1>3. /\ Sentinels(k) \in Seq(Items)
      /\ \A i \in 1 .. Len(Sentinels(k)) : Sentinels(k)[i] = Shutdown
  BY SentinelFacts
<1>4. /\ Len(queue') = Len(queue) + Len(Sentinels(k))
      /\ \A i \in 1 .. Len(queue) : queue'[i] = queue[i]
      /\ \A i \in 1 .. Len(Sentinels(k)) : queue'[Len(queue) + i] = Shutdown
  BY <1>1, <1>2, <1>3, ConcatFacts
<1>5. Len(queue) \in Nat /\ Len(Sentinels(k)) \in Nat
  BY <1>1, <1>3
<1>6. \A i \in 1 .. Len(queue') : queue'[i] \in Runs => i \in 1 .. Len(queue) /\ queue'[i] = queue[i]
  <2> SUFFICES ASSUME NEW i \in 1 .. Len(queue'), ~(i \in 1 .. Len(queue))
               PROVE  queue'[i] = Shutdown
    BY <1>4, ItemAssumption
  <2>1. i - Len(queue) \in 1 .. Len(Sentinels(k)) /\ Len(queue) + (i - Len(queue)) = i
    BY <1>4, <1>5
  <2> QED
    BY <1>4, <2>1
<1>7. QueueInv'
  BY <1>6 DEF PlaceInv, QueueInv, Fresh, Untouched
<1>8. WaitInv'
  <2>1. CASE putters' = putters
    BY <2>1 DEF PlaceInv, WaitInv
  <2>2. CASE putters' = Append(putters, Shutdown)
    <3>1. /\ Len(putters) \in Nat /\ Len(putters') = Len(putters) + 1
          /\ \A i \in 1 .. Len(putters) : putters'[i] = putters[i]
          /\ putters'[Len(putters) + 1] = Shutdown
      BY <1>1, <2>2, AppendFacts
    <3>2. \A i \in 1 .. Len(putters') : putters'[i] \in Runs =>
              i \in 1 .. Len(putters) /\ putters'[i] = putters[i]
      BY <3>1, ItemAssumption
    <3> QED
      BY <3>2 DEF PlaceInv, WaitInv
  <2> QED
    BY <2>1, <2>2 DEF PutSentinels
<1>9. NewInv' /\ JobInv' /\ AtMostOnce'
  BY DEF PlaceInv, NewInv, Untouched, JobInv, AtMostOnce
<1> QED
  BY <1>7, <1>8, <1>9 DEF PlaceInv

\* Every step keeps the places.
LEMMA PlaceStep == TypeOK /\ WorkerInv /\ PlaceInv /\ [Next]_vars => PlaceInv'
<1> SUFFICES ASSUME TypeOK, WorkerInv, PlaceInv, [Next]_vars PROVE PlaceInv'
  OBVIOUS
<1> USE DEF closeVars, childVars, recordVars, queueVars
<1>1. CASE Start
  BY <1>1, PlaceQuiet DEF Start
<1>2. ASSUME NEW r \in Runs, SubmitStep(r) PROVE PlaceInv'
  BY <1>2, PlaceSubmit
<1>3. ASSUME NEW r \in Runs, ChildExits(r) PROVE PlaceInv'
  BY <1>3, PlaceQuiet DEF ChildExits
<1>4. ASSUME NEW w \in Workers, WorkerStep(w) PROVE PlaceInv'
  BY <1>4, PlaceWorker
<1>5. CASE Close
  BY <1>5, PlaceSentinels, ConstantFacts DEF Close
<1>6. CASE ResumeClose
  BY <1>6, PlaceSentinels DEF ResumeClose, TypeOK
<1>7. CASE DrainTimeout \/ CancelWorkers \/ CloseReturns
  BY <1>7, PlaceQuiet DEF DrainTimeout, CancelWorkers, CloseReturns
<1>8. CASE UNCHANGED vars
  BY <1>8, PlaceQuiet DEF vars
<1> QED
  BY <1>1, <1>2, <1>3, <1>4, <1>5, <1>6, <1>7, <1>8 DEF Next, CloseStep

\* The counting and the places are invariants.
THEOREM Places == Spec => [](CountInv /\ PlaceInv)
<1>1. CountInv => TypeOK /\ WorkerInv
  BY DEF CountInv
<1> QED
  BY <1>1, Counting, PlaceInit, PlaceStep, PTL DEF Spec

\* A run is executed at most once and has at most one row, for any number of
\* callers, workers and slots and any order of timeouts and cancellations.
THEOREM ExecutedAtMostOnce == Spec => []AtMostOnce
<1>1. PlaceInv => AtMostOnce
  BY DEF PlaceInv
<1> QED
  BY <1>1, Places, PTL

-----------------------------------------------------------------------------
(* Child processes.                                                          *)

\* In the initial state there is no child.
LEMMA OwnedInit == Init => ChildOwned
BY DEF Init, ChildOwned

\* A child stays with its worker until it is reaped, or is left to the reap.
LEMMA OwnedStep == TypeOK /\ WorkerInv /\ ChildOwned /\ [Next]_vars => ChildOwned'
<1> SUFFICES ASSUME TypeOK, WorkerInv, ChildOwned, [Next]_vars PROVE ChildOwned'
  OBVIOUS
<1> USE DEF closeVars, childVars, recordVars, queueVars
<1>1. ASSUME live' \subseteq live, detached \cap live' \subseteq detached', job' = job
      PROVE  ChildOwned'
  BY <1>1 DEF ChildOwned
<1>2. CASE Start \/ CloseStep
  BY <1>1, <1>2
     DEF Start, CloseStep, Close, ResumeClose, DrainTimeout, CancelWorkers, CloseReturns
<1>3. ASSUME NEW r \in Runs, SubmitStep(r) PROVE ChildOwned'
  BY <1>1, <1>3 DEF SubmitStep, Refuse, Submit, ResumeSubmit
<1>4. ASSUME NEW r \in Runs, ChildExits(r) PROVE ChildOwned'
  BY <1>1, <1>4 DEF ChildExits
<1>5. ASSUME NEW w \in Workers, WorkerStep(w) PROVE ChildOwned'
  <2>1. ASSUME NEW r \in Runs, Launch(w, r) PROVE ChildOwned'
    <3>1. /\ job'[w] = r /\ \A v \in Workers : v # w => job'[v] = job[v]
          /\ live' = live \cup {r} /\ detached' = detached
      BY <2>1 DEF Launch, TypeOK
    <3>2. job[w] = NoRun
      BY <2>1 DEF Launch, Takes, WorkerInv
    <3>3. ASSUME NEW q \in live, NEW v \in Workers, job[v] = q PROVE job'[v] = q
      <4>1. q # NoRun
        BY ItemAssumption DEF TypeOK
      <4> QED
        BY <3>1, <3>2, <3>3, <4>1
    <3> QED
      BY <3>1, <3>3 DEF ChildOwned
  <2>2. ASSUME NEW r \in Runs, FailToStart(w, r) \/ Crash(w, r) PROVE ChildOwned'
    BY <1>1, <2>2 DEF FailToStart, Crash
  <2>3. CASE Stop(w) \/ Communicated(w) \/ TimedOut(w) \/ CancelIdle(w) \/ CancelRunning(w)
             \/ CancelSwallowed(w)
    BY <1>1, <2>3 DEF Stop, Communicated, TimedOut, CancelIdle, CancelRunning, CancelSwallowed
  <2>4. ASSUME job' = [job EXCEPT ![w] = NoRun], live' = live, detached \subseteq detached',
               job[w] \notin live \/ job[w] \in detached'
        PROVE  ChildOwned'
    <3>1. \A v \in Workers : v # w => job'[v] = job[v]
      BY <2>4 DEF TypeOK
    <3> QED
      BY <2>4, <3>1 DEF ChildOwned
  <2>5. CASE Finish(w) \/ FinishCancelled(w)
    BY <2>4, <2>5 DEF Finish, FinishCancelled
  <2>6. CASE CancelReaping(w)
    BY <2>4, <2>6 DEF CancelReaping
  <2> QED
    BY <1>5, <2>1, <2>2, <2>3, <2>5, <2>6 DEF WorkerStep
<1>6. CASE UNCHANGED vars
  BY <1>1, <1>6 DEF vars
<1> QED
  BY <1>2, <1>3, <1>4, <1>5, <1>6 DEF Next

\* No child process is ever abandoned, whenever timeouts and cancellations hit
\* run_subprocess: somebody always holds it and will reap it.
THEOREM NoChildAbandoned == Spec => []ChildOwned
<1>1. CountInv => TypeOK /\ WorkerInv
  BY DEF CountInv
<1> QED
  BY <1>1, Counting, OwnedInit, OwnedStep, PTL DEF Spec

-----------------------------------------------------------------------------
(* close()                                                                   *)

\* Sentinels are only put by close(), behind the runs accepted before it.
BehindInv ==
    /\ SentinelsBehindWork
    /\ \A r \in early : call[r] = "accepted"
    /\ closer = "open" => \A i \in DOMAIN queue : queue[i] # Shutdown

\* In the initial state.
LEMMA BehindInit == Init => BehindInv
BY DEF Init, BehindInv, SentinelsBehindWork

\* Steps that put nothing keep the order.
LEMMA BehindQuiet ==
    ASSUME BehindInv, UNCHANGED <<queue, early, call>>, closer' = "open" => closer = "open"
    PROVE  BehindInv'
BY DEF BehindInv, SentinelsBehindWork

\* A get keeps the order.
LEMMA BehindTake ==
    ASSUME TypeOK, BehindInv, Dequeue, UNCHANGED <<early, call>>,
           closer' = "open" => closer = "open"
    PROVE  BehindInv'
<1>1. /\ Len(queue) \in Nat \ {0} /\ Len(queue') = Len(queue) - 1
      /\ \A i \in 1 .. Len(queue') : queue'[i] = queue[i + 1]
      /\ queue \in Seq(Items) /\ queue' \in Seq(Items)
  BY DequeueFacts DEF TypeOK
<1>2. DOMAIN queue = 1 .. Len(queue) /\ DOMAIN queue' = 1 .. Len(queue')
  BY <1>1
<1>3. \A i \in 1 .. Len(queue') : i + 1 \in 1 .. Len(queue)
  BY <1>1
<1>4. SentinelsBehindWork'
  <2> SUFFICES ASSUME NEW i \in 1 .. Len(queue'), NEW j \in 1 .. Len(queue'),
                      i < j, queue'[i] = Shutdown
               PROVE  queue'[j] \notin early'
    BY <1>2 DEF SentinelsBehindWork
  <2>1. i + 1 < j + 1 /\ queue[i + 1] = Shutdown /\ queue'[j] = queue[j + 1]
    BY <1>1
  <2> QED
    BY <1>2, <1>3, <2>1 DEF BehindInv, SentinelsBehindWork
<1> QED
  BY <1>1, <1>2, <1>3, <1>4 DEF BehindInv

\* A put keeps the order: what is put is not early, or there is no sentinel.
LEMMA BehindPut ==
    ASSUME TypeOK, BehindInv, NEW items \in Seq(Items), queue' = queue \o items,
           \A i \in 1 .. Len(items) : items[i] \notin early',
           \/ early' = early
           \/ closer = "open",
           closer' = "open" => closer = "open" /\ \A i \in 1 .. Len(items) : items[i] # Shutdown,
           \A r \in early' : call'[r] = "accepted"
    PROVE  BehindInv'
<1>1. /\ queue \in Seq(Items) /\ queue' \in Seq(Items) /\ Len(queue') = Len(queue) + Len(items)
      /\ \A i \in 1 .. Len(queue) : queue'[i] = queue[i]
      /\ \A i \in 1 .. Len(items) : queue'[Len(queue) + i] = items[i]
  BY ConcatFacts DEF TypeOK
<1>2. /\ DOMAIN queue = 1 .. Len(queue) /\ DOMAIN queue' = 1 .. Len(queue')
      /\ Len(queue) \in Nat /\ Len(items) \in Nat
  BY <1>1
<1>3. ASSUME NEW i \in 1 .. Len(queue')
      PROVE  \/ i \in 1 .. Len(queue) /\ queue'[i] = queue[i]
             \/ \E k \in 1 .. Len(items) : queue'[i] = items[k] /\ i > Len(queue)
  <2>1. CASE i <= Len(queue)
    BY <1>1, <1>2, <2>1
  <2>2. CASE i > Len(queue)
    <3>1. i - Len(queue) \in 1 .. Len(items) /\ Len(queue) + (i - Len(queue)) = i
      BY <1>1, <1>2, <2>2
    <3> QED
      BY <1>1, <2>2, <3>1
  <2> QED
    BY <1>2, <2>1, <2>2
<1>4. SentinelsBehindWork'
  <2> SUFFICES ASSUME NEW i \in 1 .. Len(queue'), NEW j \in 1 .. Len(queue'),
                      i < j, queue'[i] = Shutdown, queue'[j] \in early'
               PROVE  FALSE
    BY <1>2 DEF SentinelsBehindWork
  <2>1. j \in 1 .. Len(queue) /\ queue'[j] = queue[j]
    BY <1>3
  <2>2. i \in 1 .. Len(queue) /\ queue[i] = Shutdown
    BY <1>1, <1>2, <2>1
  <2> QED
    BY <1>2, <2>1, <2>2 DEF BehindInv, SentinelsBehindWork
<1>5. closer' = "open" => \A i \in DOMAIN queue' : queue'[i] # Shutdown
  BY <1>2, <1>3 DEF BehindInv
<1> QED
  BY <1>4, <1>5 DEF BehindInv

\* Every step keeps the order.
LEMMA BehindStep == TypeOK /\ PlaceInv /\ BehindInv /\ [Next]_vars => BehindInv'
<1> SUFFICES ASSUME TypeOK, PlaceInv, BehindInv, [Next]_vars PROVE BehindInv'
  OBVIOUS
<1> USE DEF closeVars, childVars, recordVars, queueVars
<1>1. CASE Start
  BY <1>1, BehindQuiet DEF Start
<1>2. ASSUME NEW r \in Runs, SubmitStep(r) PROVE BehindInv'
  <2>1. CASE Refuse(r)
    BY <1>2, <2>1 DEF Refuse, BehindInv, SentinelsBehindWork, TypeOK
  <2>2. ASSUME Offer(r), UNCHANGED closeVars, call[r] # "accepted" PROVE BehindInv'
    <3>1. r \notin early
      BY <2>2 DEF BehindInv
    <3>2. CASE Room > 0
      <4>1. queue' = queue \o <<r>> /\ call' = [call EXCEPT ![r] = "accepted"]
        <5>1. Room > 0 => ~(Room <= 0)
          BY ConstantFacts DEF Room, TypeOK
        <5> QED
          BY <2>2, <3>2, <5>1 DEF Offer, Enqueue
      <4>2. <<r>> \in Seq(Items) /\ Len(<<r>>) = 1 /\ <<r>>[1] = r /\ r # Shutdown
        BY ItemAssumption DEF Items
      <4>3. \A q \in early' : call'[q] = "accepted"
        BY <2>2, <4>1 DEF BehindInv, TypeOK
      <4>4. \A i \in 1 .. Len(<<r>>) : <<r>>[i] \notin early' /\ <<r>>[i] # Shutdown
        BY <2>2, <3>1, <4>2
      <4>5. early' = early /\ closer' = closer
        BY <2>2
      <4> QED
        BY <4>1, <4>2, <4>3, <4>4, <4>5, BehindPut
    <3>3. CASE ~(Room > 0)
      <4>1. queue' = queue /\ call' = [call EXCEPT ![r] = "blocked"]
        BY <2>2, <3>3 DEF Offer, WaitForRoom
      <4> QED
        BY <2>2, <3>1, <4>1 DEF BehindInv, SentinelsBehindWork, TypeOK
    <3> QED
      BY <3>2, <3>3
  <2>3. CASE Submit(r)
    BY <2>2, <2>3 DEF Submit
  <2>4. CASE ResumeSubmit(r)
    BY <2>2, <2>4 DEF ResumeSubmit, PlaceInv, WaitInv
  <2> QED
    BY <1>2, <2>1, <2>3, <2>4 DEF SubmitStep
<1>3. ASSUME NEW r \in Runs, ChildExits(r) PROVE BehindInv'
  BY <1>3, BehindQuiet DEF ChildExits
<1>4. ASSUME NEW w \in Workers, WorkerStep(w) PROVE BehindInv'
  <2>1. ASSUME NEW r \in Runs, Launch(w, r) \/ FailToStart(w, r) \/ Crash(w, r)
        PROVE  BehindInv'
    BY <2>1, BehindTake DEF Launch, FailToStart, Crash, Takes, TaskDone
  <2>2. CASE Stop(w)
    BY <2>2, BehindTake DEF Stop, Takes, TaskDone
  <2>3. CASE Communicated(w) \/ TimedOut(w) \/ CancelIdle(w) \/ CancelRunning(w)
             \/ CancelSwallowed(w)
    BY <2>3, BehindQuiet DEF Communicated, TimedOut, CancelIdle, CancelRunning, CancelSwallowed
  <2>4. CASE Finish(w) \/ CancelReaping(w) \/ FinishCancelled(w)
    BY <2>4, BehindQuiet DEF Finish, CancelReaping, FinishCancelled, TaskDone
  <2> QED
    BY <1>4, <2>1, <2>2, <2>3, <2>4 DEF WorkerStep
<1>5. ASSUME NEW n \in Nat, PutSentinels(n), call' = call,
             \/ early' = early
             \/ closer = "open" /\ early' = {r \in Runs : call[r] = "accepted"}
      PROVE  BehindInv'
  <2>1. PICK k \in Int : queue' = queue \o Sentinels(k)
    BY <1>5, PutSentinelsFacts
  <2>2. /\ Sentinels(k) \in Seq(Items)
        /\ \A i \in 1 .. Len(Sentinels(k)) : Sentinels(k)[i] = Shutdown
    BY SentinelFacts
  <2>3. Shutdown \notin early' /\ closer' # "open"
    BY <1>5, PutSentinelsFacts, ItemAssumption DEF TypeOK
  <2>4. \A r \in early' : call'[r] = "accepted"
    BY <1>5 DEF BehindInv
  <2> QED
    BY <1>5, <2>1, <2>2, <2>3, <2>4, BehindPut
<1>6. CASE Close
  BY <1>5, <1>6, ConstantFacts DEF Close
<1>7. CASE ResumeClose
  BY <1>5, <1>7 DEF ResumeClose, TypeOK
<1>8. CASE DrainTimeout \/ CancelWorkers \/ CloseReturns
  BY <1>8, BehindQuiet DEF DrainTimeout, CancelWorkers, CloseReturns
<1>9. CASE UNCHANGED vars
  BY <1>9, BehindQuiet DEF vars
<1> QED
  BY <1>1, <1>2, <1>3, <1>4, <1>6, <1>7, <1>8, <1>9 DEF Next, CloseStep

\* No worker meets a sentinel while a run accepted before close() is queued
\* behind it, however many puts were waiting.
THEOREM WorkBeforeSentinels == Spec => []SentinelsBehindWork
<1>1. CountInv /\ PlaceInv => TypeOK /\ PlaceInv
  BY DEF CountInv
<1>2. BehindInv => SentinelsBehindWork
  BY DEF BehindInv
<1> QED
  BY <1>1, <1>2, Places, BehindInit, BehindStep, PTL DEF Spec

\* A sentinel that waits for room is the one close() is at, and the only one.
CloserInv ==
    /\ Shutdown \in woken => /\ closer = "putting"
                             /\ \A i \in 1 .. Len(putters) : putters[i] # Shutdown
    /\ \A i \in 1 .. Len(putters) : putters[i] = Shutdown => closer = "putting"
    /\ \A i, j \in 1 .. Len(putters) : putters[i] = Shutdown /\ putters[j] = Shutdown => i = j

\* In the initial state.
LEMMA CloserInit == Init => CloserInv
BY DEF Init, CloserInv

\* A get moves the sentinel from the waiting puts to the woken ones.
LEMMA CloserTake ==
    ASSUME TypeOK, CloserInv, Dequeue, closer = "putting" => closer' = "putting"
    PROVE  CloserInv'
<1>1. putters \in Seq(Items)
  BY DEF TypeOK
<1>2. CASE putters = <<>>
  BY <1>2 DEF Dequeue, CloserInv
<1>3. CASE putters # <<>>
  <2>1. putters' = Tail(putters) /\ woken' = woken \cup {Head(putters)}
    BY <1>3 DEF Dequeue
  <2>2. /\ Head(putters) = putters[1] /\ Len(putters) \in Nat \ {0}
        /\ Len(putters') = Len(putters) - 1
        /\ \A i \in 1 .. Len(putters') : putters'[i] = putters[i + 1]
    BY <1>1, <1>3, <2>1, TailFacts
  <2>3. \A i \in 1 .. Len(putters') : i + 1 \in 1 .. Len(putters) /\ i + 1 # 1
    BY <2>2
  <2> QED
    BY <2>1, <2>2, <2>3 DEF CloserInv
<1> QED
  BY <1>2, <1>3

\* The puts of close() leave it waiting with one sentinel or joining with none.
LEMMA CloserPut ==
    ASSUME TypeOK, CloserInv, NEW n \in Nat, PutSentinels(n),
           \A i \in 1 .. Len(putters) : putters[i] # Shutdown, Shutdown \notin woken'
    PROVE  CloserInv'
<1>1. putters \in Seq(Items) /\ Shutdown \in Items
  BY DEF TypeOK, Items
<1>2. CASE putters' = putters
  BY <1>2 DEF CloserInv
<1>3. CASE putters' = Append(putters, Shutdown) /\ closer' = "putting"
  <2>1. /\ Len(putters) \in Nat /\ Len(putters') = Len(putters) + 1
        /\ \A i \in 1 .. Len(putters) : putters'[i] = putters[i]
    BY <1>1, <1>3, AppendFacts
  <2>2. \A i \in 1 .. Len(putters') : putters'[i] = Shutdown => i = Len(putters) + 1
    BY <2>1
  <2> QED
    BY <1>3, <2>2 DEF CloserInv
<1> QED
  BY <1>2, <1>3 DEF PutSentinels

\* Every step keeps it.
LEMMA CloserStep == TypeOK /\ CloserInv /\ [Next]_vars => CloserInv'
<1> SUFFICES ASSUME TypeOK, CloserInv, [Next]_vars PROVE CloserInv'
  OBVIOUS
<1> USE DEF closeVars, childVars, recordVars, queueVars
<1>1. ASSUME UNCHANGED <<putters, woken>>, closer = "putting" => closer' = "putting"
      PROVE  CloserInv'
  BY <1>1 DEF CloserInv
<1>2. CASE Start
  BY <1>1, <1>2 DEF Start
<1>3. ASSUME NEW r \in Runs, SubmitStep(r) PROVE CloserInv'
  <2>1. CASE Refuse(r)
    BY <1>1, <2>1 DEF Refuse
  <2>2. ASSUME Offer(r), woken' \subseteq woken, closer' = closer PROVE CloserInv'
    <3>1. CASE putters' = putters
      BY <2>2, <3>1 DEF CloserInv
    <3>2. CASE putters' = Append(putters, r)
      <4>1. r \in Items /\ r # Shutdown /\ putters \in Seq(Items)
        BY ItemAssumption DEF Items, TypeOK
      <4>2. /\ Len(putters) \in Nat /\ Len(putters') = Len(putters) + 1
            /\ \A i \in 1 .. Len(putters) : putters'[i] = putters[i]
            /\ putters'[Len(putters) + 1] = r
        BY <3>2, <4>1, AppendFacts
      <4>3. \A i \in 1 .. Len(putters') : putters'[i] = Shutdown =>
                i \in 1 .. Len(putters) /\ putters[i] = Shutdown
        BY <4>1, <4>2
      <4> QED
        BY <2>2, <4>3 DEF CloserInv
    <3> QED
      BY <2>2, <3>1, <3>2 DEF Offer, WaitForRoom
  <2>3. CASE Submit(r)
    BY <2>2, <2>3 DEF Submit
  <2>4. CASE ResumeSubmit(r)
    BY <2>2, <2>4 DEF ResumeSubmit
  <2> QED
    BY <1>3, <2>1, <2>3, <2>4 DEF SubmitStep
<1>4. ASSUME NEW r \in Runs, ChildExits(r) PROVE CloserInv'
  BY <1>1, <1>4 DEF ChildExits
<1>5. ASSUME NEW w \in Workers, WorkerStep(w) PROVE CloserInv'
  <2>1. closer = "putting" => closer' = "putting"
    BY <1>5 DEF WorkerStep, Launch, FailToStart, Crash, Stop, TaskDone, Communicated,
                TimedOut, Finish, CancelIdle, CancelRunning, CancelSwallowed, CancelReaping,
                Cancelled, FinishCancelled
  <2>2. Dequeue \/ UNCHANGED <<putters, woken>>
    BY <1>5 DEF WorkerStep, Launch, FailToStart, Crash, Stop, Takes, Communicated,
                TimedOut, Finish, CancelIdle, CancelRunning, CancelSwallowed, CancelReaping,
                Cancelled, FinishCancelled
  <2> QED
    BY <1>1, <2>1, <2>2, CloserTake
<1>6. CASE Close
  <2>1. \A i \in 1 .. Len(putters) : putters[i] # Shutdown
    BY <1>6 DEF Close, CloserInv
  <2>2. Shutdown \notin woken'
    BY <1>6 DEF Close, CloserInv
  <2> QED
    BY <1>6, <2>1, <2>2, CloserPut, ConstantFacts DEF Close
<1>7. CASE ResumeClose
  <2>1. toPut \in Nat /\ Shutdown \notin woken'
    BY <1>7 DEF ResumeClose, TypeOK
  <2>2. \A i \in 1 .. Len(putters) : putters[i] # Shutdown
    BY <1>7 DEF ResumeClose, CloserInv
  <2> QED
    BY <1>7, <2>1, <2>2, CloserPut DEF ResumeClose
<1>8. CASE DrainTimeout \/ CancelWorkers \/ CloseReturns
  BY <1>1, <1>8 DEF DrainTimeout, CancelWorkers, CloseReturns
<1>9. CASE UNCHANGED vars
  BY <1>1, <1>9 DEF vars
<1> QED
  BY <1>2, <1>3, <1>4, <1>5, <1>6, <1>7, <1>8, <1>9 DEF Next, CloseStep

\* Cancellation reaches a worker only in close(), which outlives the workers.
EndInv ==
    /\ \A w \in Workers : pc[w] = "cancelled" => closer = "gathering"
    /\ closer = "closed" => \A w \in Workers : pc[w] = "stopped"

\* In the initial state.
LEMMA EndInit == Init => EndInv
BY DEF Init, EndInv

\* Every step keeps it.
LEMMA EndStep == TypeOK /\ CloserInv /\ EndInv /\ [Next]_vars => EndInv'
<1> SUFFICES ASSUME TypeOK, CloserInv, EndInv, [Next]_vars PROVE EndInv'
  OBVIOUS
<1> USE DEF closeVars, childVars, recordVars, queueVars
<1>1. CASE Start
  BY <1>1 DEF Start, EndInv
<1>2. ASSUME NEW r \in Runs, SubmitStep(r) \/ ChildExits(r) PROVE EndInv'
  BY <1>2 DEF SubmitStep, Refuse, Submit, ResumeSubmit, ChildExits, EndInv
<1>3. ASSUME NEW w \in Workers, WorkerStep(w) PROVE EndInv'
  <2>1. pc[w] # "stopped" /\ closer # "closed" /\ closer' # "closed"
    BY <1>3 DEF WorkerStep, Launch, FailToStart, Crash, Stop, Takes, TaskDone, Communicated,
                TimedOut, Finish, CancelIdle, CancelRunning, CancelSwallowed, CancelReaping,
                Cancelled, FinishCancelled, EndInv
  <2>2. closer = "gathering" => closer' = "gathering"
    BY <1>3 DEF WorkerStep, Launch, FailToStart, Crash, Stop, Takes, TaskDone, Communicated,
                TimedOut, Finish, CancelIdle, CancelRunning, CancelSwallowed, CancelReaping,
                Cancelled, FinishCancelled
  <2>3. \A v \in Workers : pc'[v] = "cancelled" => pc[v] = "cancelled" \/ closer = "gathering"
    BY <1>3 DEF WorkerStep, Launch, FailToStart, Crash, Stop, Takes, Communicated,
                TimedOut, Finish, CancelIdle, CancelRunning, CancelSwallowed, CancelReaping,
                Cancelled, FinishCancelled, TypeOK
  <2> QED
    BY <2>1, <2>2, <2>3 DEF EndInv
<1>4. CASE Close
  BY <1>4, PutSentinelsFacts, ConstantFacts DEF Close, EndInv
<1>5. CASE ResumeClose
  BY <1>5, PutSentinelsFacts DEF ResumeClose, CloserInv, EndInv, TypeOK
<1>6. CASE DrainTimeout \/ CancelWorkers \/ CloseReturns
  BY <1>6 DEF DrainTimeout, CancelWorkers, CloseReturns, EndInv
<1>7. CASE UNCHANGED vars
  BY <1>7 DEF vars, EndInv
<1> QED
  BY <1>1, <1>2, <1>3, <1>4, <1>5, <1>6, <1>7 DEF Next, CloseStep

\* While the drain is not cut off, an accepted run that has not been settled is
\* queued, held by a worker, or lost with the worker it ended.
Placed(r) ==
    \/ Settled(r)
    \/ \E i \in 1 .. Len(queue) : queue[i] = r
    \/ \E w \in Workers : job[w] = r
    \/ r \in Malformed

DrainInv ==
    /\ closer \in {"open", "putting", "joining"} =>
            \A r \in Runs : call[r] = "accepted" => Placed(r)
    /\ closer \in {"joined", "gathering", "closed"} /\ ~overrun =>
            \A r \in early : Settled(r) \/ r \in Malformed

\* In the initial state.
LEMMA DrainInit == Init => DrainInv
BY DEF Init, DrainInv

\* A settled run stays settled.
LEMMA SettledStays ==
    ASSUME PlaceInv, TypeOK, NEW r \in Runs, Settled(r), NEW q \in Runs,
           Fresh(q) \/ (\E w \in Workers : job[w] = q), Record(q)
    PROVE  Settled(r)'
<1>1. rows[q] = 0 /\ q \notin lost
  BY DEF PlaceInv, JobInv, Fresh, Untouched
<1>2. r # q
  BY <1>1 DEF Settled
<1> QED
  BY <1>2 DEF Settled, Record, TypeOK

\* The run a worker records is settled.
LEMMA RecordSettles ==
    ASSUME TypeOK, NEW q \in Runs, rows[q] = 0, Record(q)
    PROVE  Settled(q)'
BY DEF Settled, Record, TypeOK

\* The last task_done() comes when nothing is queued and nobody is busy.
LEMMA LastDone ==
    ASSUME CountInv, unfinished = 1
    PROVE  /\ Len(queue) \in {0, 1}
           /\ Len(queue) = 1 => \A w \in Workers : job[w] = NoRun
           /\ \A v, w \in Workers : job[v] # NoRun /\ job[w] # NoRun => v = w
<1>1. /\ Len(queue) \in Nat /\ Cardinality(Busy) \in Nat
      /\ Len(queue) + Cardinality(Busy) = 1
  BY BusyNat DEF CountInv, JoinAccounting, TypeOK
<1>2. IsFiniteSet(Busy)
  BY WorkersAssumption, FS_Subset DEF Busy
<1>3. Cardinality(Busy) = 0 => \A w \in Workers : job[w] = NoRun
  BY <1>2, FS_EmptySet DEF Busy
<1>4. ASSUME NEW v \in Workers, NEW w \in Workers, job[v] # NoRun, job[w] # NoRun, v # w
      PROVE  FALSE
  <2>1. v \in Busy /\ w \in Busy \ {v}
    BY <1>4 DEF Busy
  <2>2. Cardinality(Busy \ {v}) = Cardinality(Busy) - 1 /\ IsFiniteSet(Busy \ {v})
    BY <1>2, <2>1, FS_RemoveElement
  <2>3. Cardinality(Busy \ {v}) # 0 /\ Cardinality(Busy \ {v}) \in Nat
    BY <2>1, <2>2, FS_EmptySet, FS_CardinalityType
  <2> QED
    BY <1>1, <2>2, <2>3
<1>5. (Len(queue) = 0 \/ Len(queue) = 1) /\ (Len(queue) = 1 => Cardinality(Busy) = 0)
  <2> DEFINE n == Len(queue)
             b == Cardinality(Busy)
  <2>1. n \in Nat /\ b \in Nat /\ n + b = 1
    BY <1>1
  <2> HIDE DEF n, b
  <2>2. (n = 0 \/ n = 1) /\ (n = 1 => b = 0)
    BY <2>1
  <2> QED
    BY <2>2 DEF n, b
<1> QED
  BY <1>3, <1>4, <1>5

\* A get that is done at once keeps the drain.
LEMMA DrainTakeDone ==
    ASSUME CountInv, PlaceInv, BehindInv, DrainInv,
           NEW w \in Workers, NEW item, Takes(w, item), TaskDone,
           \/ item \in Runs /\ Record(item)
           \/ UNCHANGED recordVars /\ item \in Malformed \cup {Shutdown},
           UNCHANGED <<call, job, early, overrun>>
    PROVE  DrainInv'
<1>1. /\ TypeOK /\ Dequeue /\ Head(queue) = item /\ queue \in Seq(Items) /\ queue # <<>>
      /\ queue' = Tail(queue)
  BY DEF CountInv, Takes, Dequeue, TypeOK
<1>2. /\ item = queue[1] /\ Len(queue) \in Nat \ {0} /\ Len(queue') = Len(queue) - 1
      /\ \A i \in 1 .. Len(queue') : queue'[i] = queue[i + 1]
  BY <1>1, TailFacts
<1>3. item \in Runs => Fresh(item)
  BY <1>1, TakePlaces
<1>4. ASSUME NEW r \in Runs, Settled(r) PROVE Settled(r)'
  BY <1>1, <1>3, <1>4, SettledStays DEF Settled, recordVars
<1>5. item \in Runs => Settled(item)' \/ item \in Malformed
  BY <1>1, <1>3, RecordSettles, ItemAssumption DEF Fresh, Untouched
<1>6. ASSUME NEW r \in Runs, Placed(r) PROVE Placed(r)'
  <2>1. ASSUME NEW i \in 1 .. Len(queue), queue[i] = r, i # 1
        PROVE  i - 1 \in 1 .. Len(queue') /\ queue'[i - 1] = r
    BY <1>2, <2>1
  <2> QED
    BY <1>2, <1>4, <1>5, <1>6, <2>1 DEF Placed
<1>7. ASSUME closer \in {"open", "putting", "joining"}, closer' = closer
      PROVE  DrainInv'
  BY <1>6, <1>7 DEF DrainInv
<1>8. ASSUME closer = "joining", unfinished = 1
      PROVE  \A r \in Runs : call[r] = "accepted" => Settled(r)' \/ r \in Malformed
  <2> SUFFICES ASSUME NEW r \in Runs, call[r] = "accepted", r \notin Malformed
               PROVE  Settled(r)'
    OBVIOUS
  <2>1. Placed(r)
    BY <1>8 DEF DrainInv
  <2>2. Len(queue) = 1 /\ \A v \in Workers : job[v] = NoRun
    BY <1>2, <1>8, LastDone
  <2>3. Settled(r) \/ r = item
    BY <1>2, <2>1, <2>2, ItemAssumption DEF Placed
  <2> QED
    BY <1>4, <1>5, <2>3
<1>9. ASSUME closer \in {"joined", "gathering", "closed"}, closer' = closer
      PROVE  DrainInv'
  BY <1>1, <1>4, <1>9 DEF DrainInv, TypeOK
<1>10. closer' = closer \/ (closer = "joining" /\ unfinished = 1 /\ closer' = "joined")
  BY DEF TaskDone
<1>11. ASSUME closer = "joining", unfinished = 1, closer' = "joined" PROVE DrainInv'
  BY <1>1, <1>8, <1>11 DEF DrainInv, BehindInv, TypeOK
<1> QED
  BY <1>1, <1>7, <1>9, <1>10, <1>11 DEF TypeOK

\* A worker that has recorded its run keeps the drain.
LEMMA DrainFinish ==
    ASSUME CountInv, PlaceInv, BehindInv, DrainInv, NEW w \in Workers, Finish(w)
    PROVE  DrainInv'
<1>0. TypeOK /\ job[w] \in Runs
  BY DEF CountInv, WorkerInv, TypeOK, Finish
<1> PICK r \in Runs : r = job[w]
  BY <1>0
<1>1. TypeOK /\ r \in Runs /\ r = job[w]
  BY <1>0
<1>2. /\ Record(r) /\ TaskDone /\ queue' = queue /\ call' = call
      /\ early' = early /\ overrun' = overrun
      /\ job'[w] = NoRun /\ \A v \in Workers : v # w => job'[v] = job[v]
  BY <1>1 DEF Finish, TypeOK
<1>3. rows[r] = 0
  BY <1>1 DEF PlaceInv, JobInv
<1>4. Settled(r)'
  BY <1>1, <1>2, <1>3, RecordSettles
<1>5. ASSUME NEW q \in Runs, Settled(q) PROVE Settled(q)'
  BY <1>1, <1>2, <1>5, SettledStays
<1>6. ASSUME NEW q \in Runs, Placed(q) PROVE Placed(q)'
  <2>1. CASE q = r
    BY <1>4, <2>1 DEF Placed
  <2>2. CASE q # r
    BY <1>1, <1>2, <1>5, <1>6, <2>2 DEF Placed
  <2> QED
    BY <2>1, <2>2
<1>7. ASSUME closer \in {"open", "putting", "joining"}, closer' = closer
      PROVE  DrainInv'
  BY <1>2, <1>6, <1>7 DEF DrainInv
<1>8. ASSUME closer \in {"joined", "gathering", "closed"}, closer' = closer
      PROVE  DrainInv'
  BY <1>1, <1>2, <1>5, <1>8 DEF DrainInv, TypeOK
<1>9. ASSUME closer = "joining", unfinished = 1, closer' = "joined"
      PROVE  DrainInv'
  <2>1. Len(queue) = 0 /\ \A v \in Workers : v # w => job[v] = NoRun
    BY <1>1, <1>9, LastDone, ItemAssumption
  <2>2. ASSUME NEW q \in Runs, call[q] = "accepted" PROVE Settled(q)' \/ q \in Malformed
    <3>1. Placed(q)
      BY <1>9, <2>2 DEF DrainInv
    <3>2. Settled(q) \/ q = r \/ q \in Malformed
      BY <1>1, <2>1, <3>1, ItemAssumption DEF Placed
    <3> QED
      BY <1>4, <1>5, <3>2
  <2> QED
    BY <1>1, <1>2, <1>9, <2>2 DEF DrainInv, BehindInv, TypeOK
<1>10. closer' = closer \/ (closer = "joining" /\ unfinished = 1 /\ closer' = "joined")
  BY <1>2 DEF TaskDone
<1> QED
  BY <1>1, <1>7, <1>8, <1>9, <1>10 DEF TypeOK

\* Steps that settle nothing, take nothing and release nobody keep the drain.
LEMMA DrainQuiet ==
    ASSUME DrainInv, UNCHANGED <<call, queue, early, rows, lost>>,
           \A w \in Workers : job'[w] = job[w],
           closer' = closer /\ overrun' = overrun
    PROVE  DrainInv'
BY DEF DrainInv, Placed, Settled

\* Every step of a worker keeps the drain.
LEMMA DrainWorker ==
    ASSUME CountInv, PlaceInv, BehindInv, DrainInv, EndInv,
           NEW w \in Workers, WorkerStep(w)
    PROVE  DrainInv'
<1> USE DEF closeVars, childVars, recordVars, queueVars
<1>1. TypeOK
  BY DEF CountInv
<1>2. ASSUME NEW r \in Runs, Launch(w, r) PROVE DrainInv'
  <2>1. /\ Dequeue /\ Head(queue) = r /\ queue' = Tail(queue) /\ queue # <<>> /\ queue \in Seq(Items)
        /\ job'[w] = r /\ \A v \in Workers : v # w => job'[v] = job[v]
        /\ UNCHANGED <<closer, overrun, early, call, rows, lost>>
    BY <1>1, <1>2 DEF Launch, Takes, Dequeue, TypeOK
  <2>2. /\ r = queue[1] /\ Len(queue) \in Nat \ {0} /\ Len(queue') = Len(queue) - 1
        /\ \A i \in 1 .. Len(queue') : queue'[i] = queue[i + 1]
    BY <2>1, TailFacts
  <2>3. job[w] = NoRun
    BY <1>2 DEF Launch, Takes, CountInv, WorkerInv
  <2>4. ASSUME NEW q \in Runs, Placed(q) PROVE Placed(q)'
    <3>1. ASSUME NEW i \in 1 .. Len(queue), queue[i] = q, i # 1
          PROVE  i - 1 \in 1 .. Len(queue') /\ queue'[i - 1] = q
      BY <2>2, <3>1
    <3>2. Settled(q) => Settled(q)'
      BY <2>1 DEF Settled
    <3> QED
      BY <2>1, <2>2, <2>3, <2>4, <3>1, <3>2, ItemAssumption DEF Placed
  <2>5. \A q \in Runs : Settled(q) => Settled(q)'
    BY <2>1 DEF Settled
  <2> QED
    BY <1>1, <2>1, <2>4, <2>5 DEF DrainInv, TypeOK
<1>3. ASSUME NEW r \in Runs, FailToStart(w, r) PROVE DrainInv'
  BY <1>3, DrainTakeDone DEF FailToStart
<1>4. ASSUME NEW r \in Runs, Crash(w, r) PROVE DrainInv'
  BY <1>4, DrainTakeDone DEF Crash
<1>5. CASE Stop(w)
  BY <1>5, DrainTakeDone DEF Stop
<1>6. CASE Communicated(w) \/ TimedOut(w) \/ CancelIdle(w) \/ CancelRunning(w) \/ CancelSwallowed(w)
  BY <1>6, DrainQuiet DEF Communicated, TimedOut, CancelIdle, CancelRunning, CancelSwallowed
<1>7. CASE Finish(w)
  BY <1>7, DrainFinish
<1>8. CASE CancelReaping(w)
  <2>1. /\ closer = "gathering" /\ closer' = "gathering"
        /\ UNCHANGED <<overrun, early, rows, lost>>
    BY <1>8 DEF CancelReaping, Cancelled, TaskDone
  <2> QED
    BY <2>1 DEF DrainInv, Settled
<1>9. CASE FinishCancelled(w)
  <2>1. /\ closer = "gathering" /\ closer' = "gathering"
        /\ UNCHANGED <<overrun, early, rows, lost>>
    BY <1>9 DEF FinishCancelled, EndInv, TaskDone
  <2> QED
    BY <2>1 DEF DrainInv, Settled
<1> QED
  BY <1>2, <1>3, <1>4, <1>5, <1>6, <1>7, <1>8, <1>9 DEF WorkerStep

\* Every step keeps the drain.
LEMMA DrainStep ==
    CountInv /\ PlaceInv /\ BehindInv /\ CloserInv /\ EndInv /\ DrainInv /\ [Next]_vars => DrainInv'
<1> SUFFICES ASSUME CountInv, PlaceInv, BehindInv, CloserInv, EndInv, DrainInv, [Next]_vars
             PROVE  DrainInv'
  OBVIOUS
<1> USE DEF closeVars, childVars, recordVars, queueVars
<1>1. TypeOK
  BY DEF CountInv
<1>2. CASE Start
  BY <1>2, DrainQuiet DEF Start
<1>3. ASSUME NEW q \in Seq(Items), queue' = queue \o q,
             UNCHANGED <<job, early, overrun, rows, lost>>,
             \A r \in Runs : call'[r] = "accepted" =>
                call[r] = "accepted" \/ \E i \in 1 .. Len(q) : q[i] = r,
             closer' \in {"open", "putting", "joining"} =>
                closer \in {"open", "putting", "joining"},
             closer' \in {"joined", "gathering", "closed"} => closer' = closer
      PROVE  DrainInv'
  <2>1. /\ Len(queue) \in Nat /\ Len(q) \in Nat /\ Len(queue') = Len(queue) + Len(q)
        /\ \A i \in 1 .. Len(queue) : queue'[i] = queue[i]
        /\ \A i \in 1 .. Len(q) : queue'[Len(queue) + i] = q[i]
    BY <1>1, <1>3, ConcatFacts DEF TypeOK
  <2>2. \A r \in Runs : (\E i \in 1 .. Len(q) : q[i] = r) => \E i \in 1 .. Len(queue') : queue'[i] = r
    <3> SUFFICES ASSUME NEW r \in Runs, NEW i \in 1 .. Len(q), q[i] = r
                 PROVE  \E k \in 1 .. Len(queue') : queue'[k] = r
      OBVIOUS
    <3>1. Len(queue) + i \in 1 .. Len(queue') /\ queue'[Len(queue) + i] = r
      BY <2>1
    <3> QED
      BY <3>1
  <2>3. \A r \in Runs : (\E i \in 1 .. Len(queue) : queue[i] = r) => \E i \in 1 .. Len(queue') : queue'[i] = r
    <3>1. \A i \in 1 .. Len(queue) : i \in 1 .. Len(queue')
      BY <2>1
    <3> QED
      BY <2>1, <3>1
  <2>4. \A r \in Runs : Settled(r) <=> Settled(r)'
    BY <1>3 DEF Settled
  <2>5. ASSUME NEW r \in Runs, Placed(r) PROVE Placed(r)'
    BY <1>3, <2>3, <2>4, <2>5 DEF Placed
  <2> QED
    BY <1>1, <1>3, <2>2, <2>4, <2>5 DEF DrainInv, Placed, TypeOK
<1>4. ASSUME NEW r \in Runs, SubmitStep(r) PROVE DrainInv'
  <2>1. CASE Refuse(r)
    <3>1. /\ queue' = queue \o <<>> /\ <<>> \in Seq(Items)
      BY <1>1, <2>1 DEF Refuse, TypeOK
    <3>2. \A q \in Runs : call'[q] = "accepted" => call[q] = "accepted"
      BY <1>1, <2>1 DEF Refuse, TypeOK
    <3> QED
      BY <1>3, <2>1, <3>1, <3>2 DEF Refuse
  <2>2. ASSUME Offer(r), UNCHANGED <<closeVars, job, recordVars>> PROVE DrainInv'
    <3>1. CASE Room > 0
      <4>1. queue' = queue \o <<r>> /\ call' = [call EXCEPT ![r] = "accepted"]
        <5>1. Room > 0 => ~(Room <= 0)
          BY <1>1, ConstantFacts DEF Room, TypeOK
        <5> QED
          BY <2>2, <3>1, <5>1 DEF Offer, Enqueue
      <4>2. <<r>> \in Seq(Items) /\ 1 \in 1 .. Len(<<r>>) /\ <<r>>[1] = r
        BY DEF Items
      <4>3. \A q \in Runs : call'[q] = "accepted" => call[q] = "accepted" \/ q = r
        BY <1>1, <4>1 DEF TypeOK
      <4> QED
        BY <1>3, <2>2, <4>1, <4>2, <4>3
    <3>2. CASE ~(Room > 0)
      <4>1. queue' = queue /\ call' = [call EXCEPT ![r] = "blocked"]
        BY <2>2, <3>2 DEF Offer, WaitForRoom
      <4>2. queue' = queue \o <<>> /\ <<>> \in Seq(Items)
        BY <1>1, <4>1 DEF TypeOK
      <4>3. \A q \in Runs : call'[q] = "accepted" => call[q] = "accepted"
        BY <1>1, <4>1 DEF TypeOK
      <4> QED
        BY <1>3, <2>2, <4>2, <4>3
    <3> QED
      BY <3>1, <3>2
  <2>3. CASE Submit(r)
    BY <2>2, <2>3 DEF Submit
  <2>4. CASE ResumeSubmit(r)
    BY <2>2, <2>4 DEF ResumeSubmit
  <2> QED
    BY <1>4, <2>1, <2>3, <2>4 DEF SubmitStep
<1>5. ASSUME NEW r \in Runs, ChildExits(r) PROVE DrainInv'
  BY <1>5, DrainQuiet DEF ChildExits
<1>6. ASSUME NEW w \in Workers, WorkerStep(w) PROVE DrainInv'
  BY <1>6, DrainWorker
<1>7. ASSUME NEW n \in Nat, PutSentinels(n), closer \in {"open", "putting"},
             UNCHANGED <<job, call, overrun, rows, lost>>
      PROVE  DrainInv'
  <2>1. PICK k \in Int : queue' = queue \o Sentinels(k)
    BY <1>1, <1>7, PutSentinelsFacts
  <2>2. Sentinels(k) \in Seq(Items) /\ queue \in Seq(Items) /\ closer' \in {"putting", "joining"}
    BY <1>1, <1>7, SentinelFacts, PutSentinelsFacts DEF TypeOK
  <2>3. Len(queue) \in Nat /\ Len(queue') = Len(queue) + Len(Sentinels(k)) /\ Len(Sentinels(k)) \in Nat
        /\ \A i \in 1 .. Len(queue) : queue'[i] = queue[i]
    BY <2>1, <2>2, ConcatFacts
  <2>4. \A i \in 1 .. Len(queue) : i \in 1 .. Len(queue')
    BY <2>3
  <2>5. ASSUME NEW r \in Runs, Placed(r) PROVE Placed(r)'
    BY <1>7, <2>3, <2>4, <2>5 DEF Placed, Settled
  <2> QED
    BY <1>7, <2>2, <2>5 DEF DrainInv
<1>8. CASE Close
  BY <1>7, <1>8, ConstantFacts DEF Close
<1>9. CASE ResumeClose
  BY <1>1, <1>7, <1>9 DEF ResumeClose, CloserInv, TypeOK
<1>10. CASE DrainTimeout
  BY <1>10 DEF DrainTimeout, DrainInv
<1>11. CASE CancelWorkers \/ CloseReturns
  BY <1>11 DEF CancelWorkers, CloseReturns, DrainInv, Settled
<1>12. CASE UNCHANGED vars
  BY <1>12, DrainQuiet DEF vars
<1> QED
  BY <1>2, <1>4, <1>5, <1>6, <1>8, <1>9, <1>10, <1>11, <1>12 DEF Next, CloseStep

\* Everything this module knows of the runner.
FullInv == CountInv /\ StartInv /\ PlaceInv /\ BehindInv /\ CloserInv /\ EndInv /\ DrainInv

\* The conjunction is inductive, and so an invariant.
THEOREM Invariants == Spec => []FullInv
<1>1. Init => FullInv
  BY CountInit, StartInit, PlaceInit, BehindInit, CloserInit, EndInit, DrainInit DEF FullInv
<1>2. FullInv /\ [Next]_vars => FullInv'
  <2> SUFFICES ASSUME FullInv, [Next]_vars PROVE FullInv'
    OBVIOUS
  <2>1. TypeOK /\ WorkerInv
    BY DEF FullInv, CountInv
  <2> QED
    BY <2>1, CountStep, StartStep, PlaceStep, BehindStep, CloserStep, EndStep, DrainStep
       DEF FullInv
<1> QED
  BY <1>1, <1>2, PTL DEF Spec

\* When close() has returned, nothing is executed or recorded any more.
THEOREM ClosedIsQuiet == Spec => QuietAfterClose
<1>1. FullInv /\ [Next]_vars => [closer = "closed" => UNCHANGED <<rows, lost, launches>>]_vars
  <2> SUFFICES ASSUME FullInv, [Next]_vars, closer = "closed"
               PROVE  UNCHANGED <<rows, lost, launches>>
    OBVIOUS
  <2> USE DEF closeVars, childVars, recordVars, queueVars
  <2>1. CASE Start \/ CloseStep
    BY <2>1
       DEF Start, CloseStep, Close, ResumeClose, DrainTimeout, CancelWorkers, CloseReturns
  <2>2. ASSUME NEW r \in Runs, SubmitStep(r) \/ ChildExits(r)
        PROVE  UNCHANGED <<rows, lost, launches>>
    BY <2>2 DEF SubmitStep, Refuse, Submit, ResumeSubmit, ChildExits
  <2>3. ASSUME NEW w \in Workers, WorkerStep(w) PROVE FALSE
    <3>1. pc[w] = "stopped"
      BY DEF FullInv, EndInv
    <3> QED
      BY <2>3, <3>1 DEF WorkerStep, Launch, FailToStart, Crash, Stop, Takes, Communicated,
             TimedOut, Finish, CancelIdle, CancelRunning, CancelSwallowed, CancelReaping,
             Cancelled, FinishCancelled
  <2>4. CASE UNCHANGED vars
    BY <2>4 DEF vars
  <2> QED
    BY <2>1, <2>2, <2>3, <2>4 DEF Next
<1> QED
  BY <1>1, Invariants, PTL DEF Spec, QuietAfterClose


-----------------------------------------------------------------------------
(* Processes: how many of them there are                                   *)

Stopped == {w \in Workers : pc[w] = "stopped"}

\* A worker leaves a child to a detached reap only when it ends itself.
DetachInv ==
    /\ detached \subseteq live /\ IsFiniteSet(detached)
    /\ Cardinality(detached) <= Cardinality(Stopped)

\* Sets of workers are finite.
LEMMA StoppedFacts ==
    ASSUME NEW S \in SUBSET Workers, NEW T \in SUBSET S
    PROVE  /\ IsFiniteSet(S) /\ IsFiniteSet(T)
           /\ Cardinality(S) \in Nat /\ Cardinality(T) \in Nat
           /\ Cardinality(T) <= Cardinality(S)
<1>1. IsFiniteSet(S) /\ IsFiniteSet(T)
  BY WorkersAssumption, FS_Subset
<1> QED
  BY <1>1, FS_Subset, FS_CardinalityType

\* In the initial state.
LEMMA DetachInit == Init => DetachInv
<1> SUFFICES ASSUME Init PROVE DetachInv
  OBVIOUS
<1>1. detached = {} /\ live = {} /\ Stopped = {}
  BY DEF Init, Stopped
<1> QED
  BY <1>1, FS_EmptySet DEF DetachInv

\* Fewer detached reaps, and no fewer workers that have stopped.
LEMMA DetachShrinks ==
    ASSUME DetachInv, detached' \subseteq detached, detached' \subseteq live',
           Stopped \subseteq Stopped'
    PROVE  DetachInv'
<1>1. IsFiniteSet(detached') /\ Cardinality(detached') <= Cardinality(detached)
  BY FS_Subset DEF DetachInv
<1>2. Cardinality(Stopped) <= Cardinality(Stopped')
      /\ Cardinality(Stopped) \in Nat /\ Cardinality(Stopped') \in Nat
  <2>1. Stopped' \in SUBSET Workers
    BY DEF Stopped
  <2> QED
    BY <2>1, StoppedFacts
<1>3. Cardinality(detached) \in Nat /\ Cardinality(detached') \in Nat
  BY <1>1, FS_CardinalityType DEF DetachInv
<1> QED
  BY <1>1, <1>2, <1>3 DEF DetachInv

\* Every step keeps it.
LEMMA DetachStep == TypeOK /\ WorkerInv /\ StartInv /\ DetachInv /\ [Next]_vars => DetachInv'
<1> SUFFICES ASSUME TypeOK, WorkerInv, StartInv, DetachInv, [Next]_vars PROVE DetachInv'
  OBVIOUS
<1> USE DEF closeVars, childVars, recordVars, queueVars
<1>1. ASSUME detached' = detached, live \subseteq live', pc' = pc
      PROVE  DetachInv'
  BY <1>1, DetachShrinks DEF DetachInv, Stopped
<1>2. CASE Start
  <2>1. detached' = detached /\ live' = live
    BY <1>2 DEF Start
  <2>2. Stopped = {}
    BY <1>2 DEF Start, StartInv, Stopped
  <2> QED
    BY <2>1, <2>2, DetachShrinks DEF DetachInv
<1>3. CASE CloseStep
  BY <1>1, <1>3 DEF CloseStep, Close, ResumeClose, DrainTimeout, CancelWorkers, CloseReturns
<1>4. ASSUME NEW r \in Runs, SubmitStep(r) PROVE DetachInv'
  BY <1>1, <1>4 DEF SubmitStep, Refuse, Submit, ResumeSubmit
<1>5. ASSUME NEW r \in Runs, ChildExits(r) PROVE DetachInv'
  <2>1. detached' \subseteq detached /\ detached' \subseteq live' /\ pc' = pc
    BY <1>5 DEF ChildExits, DetachInv
  <2> QED
    BY <2>1, DetachShrinks DEF Stopped
<1>6. ASSUME NEW w \in Workers, WorkerStep(w) PROVE DetachInv'
  <2>1. CASE CancelReaping(w)
    <3>1. /\ detached' = detached \cup ({job[w]} \cap live) /\ live' = live
          /\ w \notin Stopped /\ Stopped' = Stopped \cup {w}
      BY <2>1 DEF CancelReaping, Stopped, TypeOK
    <3>2. IsFiniteSet(Stopped) /\ Cardinality(Stopped) \in Nat
      BY StoppedFacts DEF Stopped
    <3>3. Cardinality(Stopped') = Cardinality(Stopped) + 1
      BY <3>1, <3>2, FS_AddElement
    <3>4. /\ IsFiniteSet(detached \cup {job[w]})
          /\ Cardinality(detached \cup {job[w]}) <= Cardinality(detached) + 1
          /\ Cardinality(detached) \in Nat
      <4>1. IsFiniteSet(detached) /\ Cardinality(detached) \in Nat
        BY FS_CardinalityType DEF DetachInv
      <4> DEFINE j == job[w]
                 D == detached
      <4>2. /\ IsFiniteSet(D \cup {j})
            /\ Cardinality(D \cup {j}) = IF j \in D THEN Cardinality(D) ELSE Cardinality(D) + 1
        <5> HIDE DEF j, D
        <5>1. IsFiniteSet(D)
          BY <4>1 DEF D
        <5> QED
          BY <5>1, FS_AddElement
      <4> QED
        BY <4>1, <4>2
    <3>5. detached' \in SUBSET (detached \cup {job[w]})
      BY <3>1
    <3>6. /\ IsFiniteSet(detached') /\ Cardinality(detached') <= Cardinality(detached \cup {job[w]})
          /\ Cardinality(detached') \in Nat /\ Cardinality(detached \cup {job[w]}) \in Nat
      BY <3>4, <3>5, FS_Subset, FS_CardinalityType
    <3>7. detached' \subseteq live'
      BY <3>1 DEF DetachInv
    <3> QED
      BY <3>2, <3>3, <3>4, <3>6, <3>7 DEF DetachInv
  <2>2. CASE ~CancelReaping(w)
    <3>1. detached' = detached /\ live \subseteq live'
      BY <1>6, <2>2
         DEF WorkerStep, Launch, FailToStart, Crash, Stop, Communicated, TimedOut,
                        Finish, CancelIdle, CancelRunning, CancelSwallowed, FinishCancelled
    <3>2. \A v \in Workers : pc[v] = "stopped" => pc'[v] = "stopped"
      BY <1>6, <2>2 DEF WorkerStep, Launch, FailToStart, Crash, Stop, Takes, Communicated,
                        TimedOut, Finish, CancelIdle, CancelRunning, CancelSwallowed,
                        FinishCancelled, TypeOK
    <3> QED
      BY <3>1, <3>2, DetachShrinks DEF DetachInv, Stopped
  <2> QED
    BY <2>1, <2>2
<1>7. CASE UNCHANGED vars
  BY <1>1, <1>7 DEF vars
<1> QED
  BY <1>2, <1>3, <1>4, <1>5, <1>6, <1>7 DEF Next

\* A child belongs to a busy worker, or to the reap of one that has stopped.
LEMMA BoundFacts ==
    ASSUME TypeOK, WorkerInv, ChildOwned, DetachInv
    PROVE  ConcurrencyBound
<1> DEFINE Owned == {job[w] : w \in Busy}
           f == [w \in Busy |-> job[w]]
<1>1. /\ Busy \in SUBSET Workers /\ Stopped \in SUBSET Workers
      /\ Busy \cap Stopped = {}
  BY DEF Busy, Stopped, WorkerInv
<1>2. /\ IsFiniteSet(Busy) /\ IsFiniteSet(Stopped)
      /\ Cardinality(Busy) \in Nat /\ Cardinality(Stopped) \in Nat
  BY <1>1, StoppedFacts
<1>3. IsFiniteSet(Owned) /\ Cardinality(Owned) <= Cardinality(Busy)
  <2>1. f \in Surjection(Busy, Owned)
    BY DEF Surjection
  <2> HIDE DEF f, Owned
  <2> QED
    BY <1>2, <2>1, FS_Surjection
<1>4. live \in SUBSET (detached \cup Owned)
  BY ItemAssumption DEF ChildOwned, Busy, TypeOK
<1> HIDE DEF Owned
<1>5. /\ IsFiniteSet(detached \cup Owned)
      /\ Cardinality(detached \cup Owned) =
           Cardinality(detached) + Cardinality(Owned) - Cardinality(detached \cap Owned)
  BY <1>3, FS_Union DEF DetachInv
<1>6. /\ Cardinality(detached \cap Owned) \in Nat
      /\ Cardinality(detached) \in Nat /\ Cardinality(Owned) \in Nat
  BY <1>3, FS_Subset, FS_CardinalityType DEF DetachInv
<1>7. /\ Cardinality(live) <= Cardinality(detached \cup Owned)
      /\ Cardinality(live) \in Nat
  BY <1>4, <1>5, FS_Subset, FS_CardinalityType
<1>8. Cardinality(Busy \cup Stopped) = Cardinality(Busy) + Cardinality(Stopped)
  <2>1. Cardinality(Busy \cup Stopped) =
          Cardinality(Busy) + Cardinality(Stopped) - Cardinality(Busy \cap Stopped)
    BY <1>2, FS_Union
  <2>2. Cardinality(Busy \cap Stopped) = 0
    BY <1>1, FS_EmptySet
  <2> QED
    BY <1>2, <2>1, <2>2
<1>9. Cardinality(Busy \cup Stopped) <= Cardinality(Workers) /\ Cardinality(Workers) \in Nat
  BY <1>1, StoppedFacts
<1>10. Cardinality(detached) <= Cardinality(Stopped)
  BY DEF DetachInv
<1> QED
  BY <1>2, <1>3, <1>5, <1>6, <1>7, <1>8, <1>9, <1>10 DEF ConcurrencyBound

\* There are never more processes than workers, the children that a cancelled
\* worker leaves to its shielded reap included.
THEOREM ProcessesAreBounded == Spec => []ConcurrencyBound
<1>1. CountInv => TypeOK /\ WorkerInv
  BY DEF CountInv
<1>2. FullInv => CountInv /\ StartInv
  BY DEF FullInv
<1> QED
  BY <1>1, <1>2, Invariants, NoChildAbandoned, DetachInit, DetachStep, BoundFacts, PTL
     DEF Spec

-----------------------------------------------------------------------------
(* The drain and the commands that end a worker                             *)

MarksIn(q) == {i \in 1 .. Len(q) : q[i] = Shutdown}

\* The runs that have ended their worker.
Fatal(r) == r \in Malformed /\ call[r] = "accepted" /\ \A i \in 1 .. Len(queue) : queue[i] # r
Deadly == {r \in Runs : Fatal(r)}

\* The sentinels that are queued or still to be put, with the workers that have
\* stopped: there is one for every worker, and one too many once a command has
\* ended a worker, so that join() waits for a sentinel nobody will take.
Marks == Cardinality(MarksIn(queue)) + Cardinality(Stopped)

MarkInv ==
    /\ closer = "open" /\ Deadly # {} => Stopped # {}
    /\ closer \in {"putting", "joining"} =>
         /\ Marks + toPut >= Cardinality(Workers)
         /\ Deadly # {} => Marks + toPut > Cardinality(Workers)
    /\ closer = "joining" => toPut = 0
    /\ closer \in {"joined", "gathering", "closed"} /\ ~overrun => early \cap Malformed = {}

\* How many sentinels there are in a queue.
LEMMA MarksFinite ==
    ASSUME NEW q \in Seq(Items)
    PROVE  /\ IsFiniteSet(MarksIn(q)) /\ Cardinality(MarksIn(q)) \in Nat
           /\ q = <<>> => Cardinality(MarksIn(q)) = 0
<1>1. Len(q) \in Nat /\ MarksIn(q) \in SUBSET (1 .. Len(q))
  BY DEF MarksIn
<1>2. IsFiniteSet(MarksIn(q))
  <2>1. IsFiniteSet(1 .. Len(q))
    BY <1>1, FS_Interval
  <2> QED
    BY <1>1, <2>1, FS_Subset
<1>3. q = <<>> => MarksIn(q) = {}
  BY DEF MarksIn
<1> QED
  BY <1>2, <1>3, FS_CardinalityType, FS_EmptySet

\* A get takes one of them or none.
LEMMA MarksTail ==
    ASSUME NEW q \in Seq(Items), q # <<>>
    PROVE  /\ Cardinality(MarksIn(Tail(q))) >= Cardinality(MarksIn(q)) - 1
           /\ q[1] # Shutdown => Cardinality(MarksIn(Tail(q))) >= Cardinality(MarksIn(q))
<1> DEFINE S == MarksIn(q) \ {1}
           T == MarksIn(Tail(q))
           f == [i \in S |-> i - 1]
<1>1. /\ Len(q) \in Nat \ {0} /\ Tail(q) \in Seq(Items) /\ Len(Tail(q)) = Len(q) - 1
      /\ \A i \in 1 .. Len(Tail(q)) : Tail(q)[i] = q[i + 1]
  BY TailFacts
<1>2. f \in Injection(S, T)
  <2>1. ASSUME NEW i \in S PROVE i \in Int /\ f[i] = i - 1 /\ i - 1 \in T
    BY <1>1 DEF MarksIn
  <2> HIDE DEF f, S, T
  <2>2. f \in [S -> T]
    BY <2>1 DEF f
  <2>3. ASSUME NEW i \in S, NEW j \in S, f[i] = f[j] PROVE i = j
    BY <2>1, <2>3
  <2> QED
    BY <2>2, <2>3 DEF Injection, IsInjective, f
<1>3. IsFiniteSet(T) /\ IsFiniteSet(MarksIn(q)) /\ Cardinality(MarksIn(q)) \in Nat
      /\ Cardinality(T) \in Nat
  BY <1>1, MarksFinite
<1>4. Cardinality(S) <= Cardinality(T)
  <2> HIDE DEF f, S, T
  <2> QED
    BY <1>2, <1>3, FS_Injection
<1>5. Cardinality(S) = IF 1 \in MarksIn(q) THEN Cardinality(MarksIn(q)) - 1
                                           ELSE Cardinality(MarksIn(q))
  BY <1>3, FS_RemoveElement
<1>6. q[1] # Shutdown => 1 \notin MarksIn(q)
  BY DEF MarksIn
<1> QED
  BY <1>3, <1>4, <1>5, <1>6

\* What is put behind them leaves them, and adds the sentinels it has.
LEMMA MarksConcat ==
    ASSUME NEW q \in Seq(Items), NEW s \in Seq(Items)
    PROVE  Cardinality(MarksIn(q \o s)) >= Cardinality(MarksIn(q))
<1>1. /\ q \o s \in Seq(Items) /\ Len(q) \in Nat /\ Len(s) \in Nat /\ Len(q \o s) = Len(q) + Len(s)
      /\ \A i \in 1 .. Len(q) : (q \o s)[i] = q[i]
  BY ConcatFacts
<1>2. MarksIn(q) \subseteq MarksIn(q \o s)
  BY <1>1 DEF MarksIn
<1> QED
  BY <1>1, <1>2, MarksFinite, FS_Subset

LEMMA MarksSentinels ==
    ASSUME NEW q \in Seq(Items), NEW k \in Int
    PROVE  Cardinality(MarksIn(q \o Sentinels(k))) >= Cardinality(MarksIn(q)) + k
<1> DEFINE p == q \o Sentinels(k)
<1>1. /\ Sentinels(k) \in Seq(Items)
      /\ \A i \in 1 .. Len(Sentinels(k)) : Sentinels(k)[i] = Shutdown
  BY SentinelFacts
<1>2. /\ p \in Seq(Items) /\ Len(q) \in Nat /\ Len(Sentinels(k)) \in Nat
      /\ Len(p) = Len(q) + Len(Sentinels(k))
      /\ \A i \in 1 .. Len(q) : p[i] = q[i]
      /\ \A i \in 1 .. Len(Sentinels(k)) : p[Len(q) + i] = Shutdown
  BY <1>1, ConcatFacts
<1>3. /\ Cardinality(MarksIn(q)) \in Nat /\ Cardinality(MarksIn(p)) \in Nat
      /\ IsFiniteSet(MarksIn(q)) /\ IsFiniteSet(MarksIn(p))
  BY <1>2, MarksFinite
<1> HIDE DEF p
<1>4. CASE k <= 0
  <2>1. Cardinality(MarksIn(p)) >= Cardinality(MarksIn(q))
    BY <1>1, MarksConcat DEF p
  <2> QED
    BY <1>3, <1>4, <2>1 DEF p
<1>5. CASE k > 0
  <2> DEFINE new == (Len(q) + 1) .. (Len(q) + k)
  <2>1. Len(Sentinels(k)) = k
    BY <1>5 DEF Sentinels
  <2>2. new \subseteq MarksIn(p)
    <3> SUFFICES ASSUME NEW i \in new PROVE i \in MarksIn(p)
      OBVIOUS
    <3>1. i - Len(q) \in 1 .. Len(Sentinels(k)) /\ Len(q) + (i - Len(q)) = i
      BY <1>2, <2>1
    <3>2. p[i] = Shutdown
      BY <1>2, <3>1
    <3> QED
      BY <1>2, <2>1, <3>2 DEF MarksIn
  <2>3. MarksIn(q) \subseteq MarksIn(p)
    BY <1>2 DEF MarksIn
  <2>4. MarksIn(q) \cap new = {}
    BY <1>2 DEF MarksIn
  <2>5. IsFiniteSet(new) /\ Cardinality(new) = k
    <3>1. Len(q) + 1 \in Int /\ Len(q) + k \in Int /\ ~(Len(q) + 1 > Len(q) + k)
          /\ (Len(q) + k) - (Len(q) + 1) + 1 = k
      BY <1>2, <1>5
    <3> QED
      BY <3>1, FS_Interval
  <2> HIDE DEF new
  <2>6. /\ IsFiniteSet(MarksIn(q) \cup new)
        /\ Cardinality(MarksIn(q) \cup new) = Cardinality(MarksIn(q)) + k
    <3>1. Cardinality(MarksIn(q) \cup new)
            = Cardinality(MarksIn(q)) + Cardinality(new) - Cardinality(MarksIn(q) \cap new)
      BY <1>3, <2>5, FS_Union
    <3>2. Cardinality(MarksIn(q) \cap new) = 0
      BY <2>4, FS_EmptySet
    <3> QED
      <4>1. IsFiniteSet(MarksIn(q) \cup new)
        BY <1>3, <2>5, FS_Union
      <4>2. Cardinality(MarksIn(q) \cup new) = Cardinality(MarksIn(q)) + k
        BY <1>3, <1>5, <2>5, <3>1, <3>2
      <4> QED
        BY <4>1, <4>2
  <2>7. Cardinality(MarksIn(q) \cup new) <= Cardinality(MarksIn(p))
    BY <1>3, <2>2, <2>3, FS_Subset
  <2> QED
    BY <1>3, <2>6, <2>7 DEF p
<1> QED
  BY <1>4, <1>5

\* The workers that have stopped can be counted.
LEMMA StoppedCount ==
    ASSUME NEW S \in SUBSET Workers
    PROVE  /\ IsFiniteSet(S) /\ Cardinality(S) \in Nat
           /\ Cardinality(S) <= Cardinality(Workers) /\ Cardinality(Workers) \in Nat
           /\ S # {} => Cardinality(S) > 0
<1>1. /\ IsFiniteSet(S) /\ Cardinality(S) \in Nat
      /\ Cardinality(S) <= Cardinality(Workers) /\ Cardinality(Workers) \in Nat
  BY StoppedFacts
<1>2. S # {} => Cardinality(S) # 0
  BY <1>1, FS_EmptySet
<1> QED
  BY <1>1, <1>2

\* Sentinels and workers, before a step and after it.
LEMMA MarksFacts ==
    ASSUME TypeOK, TypeOK'
    PROVE  /\ Marks \in Nat /\ Cardinality(MarksIn(queue)) \in Nat
           /\ Cardinality(Stopped) \in Nat /\ Cardinality(Stopped) <= Cardinality(Workers)
           /\ Marks' \in Nat /\ Cardinality(MarksIn(queue')) \in Nat
           /\ Marks' = Cardinality(MarksIn(queue')) + Cardinality(Stopped')
           /\ Cardinality(Stopped') \in Nat /\ Cardinality(Stopped') <= Cardinality(Workers)
           /\ Stopped # {} => Cardinality(Stopped) > 0
           /\ Cardinality(Workers) \in Nat /\ toPut \in Nat
<1>1. Cardinality(MarksIn(queue)) \in Nat /\ Cardinality(MarksIn(queue')) \in Nat
  BY MarksFinite DEF TypeOK
<1>2. Stopped \in SUBSET Workers /\ Stopped' \in SUBSET Workers
  BY DEF Stopped
<1>3. /\ Cardinality(Stopped) \in Nat /\ Cardinality(Stopped) <= Cardinality(Workers)
      /\ Cardinality(Stopped') \in Nat /\ Cardinality(Stopped') <= Cardinality(Workers)
      /\ Stopped # {} => Cardinality(Stopped) > 0
      /\ Cardinality(Workers) \in Nat
  BY <1>2, StoppedCount
<1> QED
  BY <1>1, <1>3 DEF Marks, TypeOK

\* A step that takes no sentinel unless a worker stops for it keeps the count; a
\* worker that stops for none makes one too many.
LEMMA MarkKeeps ==
    ASSUME TypeOK, TypeOK', BehindInv, MarkInv,
           UNCHANGED <<toPut, early, overrun>>,
           Marks' >= Marks,
           Stopped \subseteq Stopped',
           Deadly' # {} => Deadly # {} \/ (Stopped' # {} /\ Marks' > Marks),
           \A r \in Runs : call[r] = "accepted" => call'[r] = "accepted",
           closer' = closer \/ (closer = "joining" /\ closer' = "joined" /\ queue' = <<>>)
    PROVE  MarkInv'
<1>1. /\ Marks \in Nat /\ Marks' \in Nat /\ toPut \in Nat /\ Cardinality(Workers) \in Nat
      /\ Marks' = Cardinality(MarksIn(queue')) + Cardinality(Stopped')
      /\ Cardinality(Stopped') \in Nat /\ Cardinality(Stopped') <= Cardinality(Workers)
  BY MarksFacts DEF Marks
<1>2. closer \in {"putting", "joining"} =>
        /\ Marks' + toPut >= Cardinality(Workers)
        /\ Deadly' # {} => Marks' + toPut > Cardinality(Workers)
  BY <1>1 DEF MarkInv
<1>3. CASE closer' = closer
  BY <1>2, <1>3 DEF MarkInv
<1>4. CASE closer = "joining" /\ closer' = "joined" /\ queue' = <<>>
  <2>1. Marks' + toPut <= Cardinality(Workers)
    <3>1. toPut = 0 /\ Cardinality(MarksIn(queue')) = 0
      BY <1>4, MarksFinite DEF MarkInv, TypeOK
    <3> QED
      BY <1>1, <3>1
  <2>2. Deadly' = {}
    BY <1>1, <1>2, <1>4, <2>1
  <2>3. ASSUME NEW r \in early', r \in Malformed PROVE FALSE
    <3>1. r \in Runs /\ call'[r] = "accepted"
      BY <2>3 DEF BehindInv, TypeOK
    <3>2. Len(queue') = 0
      BY <1>4
    <3>3. r \in Deadly'
      BY <2>3, <3>1, <3>2 DEF Deadly, Fatal
    <3> QED
      BY <2>2, <3>3
  <2> QED
    BY <1>4, <2>3 DEF MarkInv
<1> QED
  BY <1>3, <1>4

\* A step that neither takes from the queue nor stops a worker.
LEMMA MarkQuiet ==
    ASSUME TypeOK, TypeOK', BehindInv, MarkInv,
           UNCHANGED <<toPut, early, overrun>>,
           NEW s \in Seq(Items), queue' = queue \o s,
           \A r \in Runs : call[r] = "accepted" => call'[r] = "accepted",
           \A r \in Runs : call'[r] = "accepted" =>
                call[r] = "accepted" \/ \E i \in 1 .. Len(s) : s[i] = r,
           Stopped' = Stopped,
           closer' = closer \/ (closer = "joining" /\ closer' = "joined" /\ queue' = <<>>)
    PROVE  MarkInv'
<1>1. /\ queue \in Seq(Items) /\ Len(queue) \in Nat /\ Len(s) \in Nat
      /\ Len(queue') = Len(queue) + Len(s)
      /\ \A i \in 1 .. Len(queue) : queue'[i] = queue[i]
      /\ \A i \in 1 .. Len(s) : queue'[Len(queue) + i] = s[i]
  BY ConcatFacts DEF TypeOK
<1>2. Marks' >= Marks
  <2>1. Cardinality(MarksIn(queue')) >= Cardinality(MarksIn(queue))
    BY <1>1, MarksConcat
  <2> QED
    BY <2>1, MarksFacts DEF Marks
<1>3. Deadly' \subseteq Deadly
  <2> SUFFICES ASSUME NEW r \in Runs, r \in Malformed, call'[r] = "accepted",
                      \A i \in 1 .. Len(queue') : queue'[i] # r
               PROVE  call[r] = "accepted" /\ \A i \in 1 .. Len(queue) : queue[i] # r
    BY DEF Deadly, Fatal
  <2>1. ASSUME NEW i \in 1 .. Len(s), s[i] = r PROVE FALSE
    <3>1. Len(queue) + i \in 1 .. Len(queue')
      BY <1>1
    <3> QED
      BY <1>1, <2>1, <3>1
  <2>2. \A i \in 1 .. Len(queue) : i \in 1 .. Len(queue')
    BY <1>1
  <2> QED
    BY <1>1, <2>1, <2>2
<1> QED
  BY <1>2, <1>3, MarkKeeps

\* A worker that takes an item: the sentinel stops it, a malformed command ends
\* it, and anything else leaves the count.
LEMMA MarkTakes ==
    ASSUME TypeOK, TypeOK', BehindInv, MarkInv,
           NEW w \in Workers, NEW item, Takes(w, item),
           UNCHANGED <<call, toPut, early, overrun>>,
           \/ item \in Runs \ Malformed /\ Stopped' = Stopped
           \/ item \in Malformed \cup {Shutdown} /\ pc' = [pc EXCEPT ![w] = "stopped"],
           closer' = closer \/ (closer = "joining" /\ closer' = "joined" /\ queue' = <<>>)
    PROVE  MarkInv'
<1>1. /\ queue \in Seq(Items) /\ queue # <<>> /\ queue' = Tail(queue) /\ item = queue[1]
      /\ Len(queue) \in Nat \ {0} /\ Len(queue') = Len(queue) - 1
      /\ \A i \in 1 .. Len(queue') : queue'[i] = queue[i + 1]
  BY TailFacts DEF TypeOK, Takes, Dequeue
<1>2. /\ Cardinality(MarksIn(queue')) >= Cardinality(MarksIn(queue)) - 1
      /\ item # Shutdown => Cardinality(MarksIn(queue')) >= Cardinality(MarksIn(queue))
  BY <1>1, MarksTail
<1>3. ASSUME item \notin Malformed PROVE Deadly' \subseteq Deadly
  <2> SUFFICES ASSUME NEW r \in Runs, r \in Malformed, call[r] = "accepted",
                      \A i \in 1 .. Len(queue') : queue'[i] # r
               PROVE  \A i \in 1 .. Len(queue) : queue[i] # r
    BY DEF Deadly, Fatal
  <2> SUFFICES ASSUME NEW i \in 1 .. Len(queue), queue[i] = r PROVE FALSE
    OBVIOUS
  <2>1. i # 1
    BY <1>1, <1>3
  <2>2. i - 1 \in 1 .. Len(queue') /\ (i - 1) + 1 = i
    BY <1>1, <2>1
  <2> QED
    BY <1>1, <2>2
<1>4. CASE item \in Runs \ Malformed /\ Stopped' = Stopped
  <2>1. Marks' >= Marks
    BY <1>2, <1>4, MarksFacts, ItemAssumption DEF Marks
  <2> QED
    BY <1>3, <1>4, <2>1, MarkKeeps
<1>5. CASE item \in Malformed \cup {Shutdown} /\ pc' = [pc EXCEPT ![w] = "stopped"]
  <2>1. w \notin Stopped /\ Stopped' = Stopped \cup {w}
    BY <1>5 DEF Takes, Stopped, TypeOK
  <2>2. Cardinality(Stopped') = Cardinality(Stopped) + 1
    <3>1. IsFiniteSet(Stopped) /\ Cardinality(Stopped) \in Nat
      <4>1. Stopped \in SUBSET Workers
        BY DEF Stopped
      <4> QED
        BY <4>1, StoppedCount
    <3> QED
      BY <2>1, <3>1, FS_AddElement
  <2>3. Marks' >= Marks
    BY <1>2, <2>2, MarksFacts DEF Marks
  <2>4. item # Shutdown => Marks' > Marks
    BY <1>2, <2>2, MarksFacts DEF Marks
  <2>5. item = Shutdown => item \notin Malformed
    BY ItemAssumption, RunsAssumption
  <2> QED
    BY <1>3, <2>1, <2>3, <2>4, <2>5, MarkKeeps
<1> QED
  BY <1>4, <1>5

\* The join returns when the queue is empty.
LEMMA JoinEmpties ==
    ASSUME CountInv, TaskDone, queue' \in Seq(Items),
           \/ Len(queue') = Len(queue) - 1
           \/ queue' = queue /\ \E w \in Workers : job[w] # NoRun
    PROVE  closer' = closer \/ (closer = "joining" /\ closer' = "joined" /\ queue' = <<>>)
<1>1. CASE unfinished = 1
  <2>1. Len(queue') = 0
    BY <1>1, LastDone
  <2> QED
    BY <1>1, <2>1 DEF TaskDone
<1>2. CASE unfinished # 1
  BY <1>2 DEF TaskDone
<1> QED
  BY <1>1, <1>2

\* While it cancels the workers close() has counted already.
LEMMA MarkGathers ==
    ASSUME MarkInv, UNCHANGED <<early, overrun>>,
           closer \in {"joined", "gathering", "closed"},
           closer' \in {"joined", "gathering", "closed"}
    PROVE  MarkInv'
BY DEF MarkInv

\* Every step of a worker keeps the count.
LEMMA MarkWorker ==
    ASSUME CountInv, TypeOK', BehindInv, EndInv, MarkInv, NEW w \in Workers, WorkerStep(w)
    PROVE  MarkInv'
<1> USE DEF closeVars, childVars, recordVars, queueVars
<1>1. TypeOK /\ WorkerInv
  BY DEF CountInv
<1>2. queue' \in Seq(Items) /\ queue \in Seq(Items)
  BY <1>1 DEF TypeOK
<1>3. ASSUME NEW item, Takes(w, item)
      PROVE  Len(queue') = Len(queue) - 1
  BY <1>3, TakesFacts
<1>4. ASSUME NEW r \in Runs, Launch(w, r) PROVE MarkInv'
  <2>1. Stopped' = Stopped
    BY <1>1, <1>4 DEF Launch, Takes, Stopped, TypeOK
  <2> QED
    BY <1>1, <1>4, <2>1, MarkTakes DEF Launch
<1>5. ASSUME NEW r \in Runs, FailToStart(w, r) PROVE MarkInv'
  <2>1. closer' = closer \/ (closer = "joining" /\ closer' = "joined" /\ queue' = <<>>)
    BY <1>2, <1>3, <1>5, JoinEmpties DEF FailToStart
  <2>2. Stopped' = Stopped
    BY <1>5 DEF FailToStart, Stopped
  <2> QED
    BY <1>1, <1>5, <2>1, <2>2, MarkTakes DEF FailToStart
<1>6. ASSUME NEW r \in Runs, Crash(w, r) PROVE MarkInv'
  <2>1. closer' = closer \/ (closer = "joining" /\ closer' = "joined" /\ queue' = <<>>)
    BY <1>2, <1>3, <1>6, JoinEmpties DEF Crash
  <2> QED
    BY <1>1, <1>6, <2>1, MarkTakes DEF Crash
<1>7. CASE Stop(w)
  <2>1. closer' = closer \/ (closer = "joining" /\ closer' = "joined" /\ queue' = <<>>)
    BY <1>2, <1>3, <1>7, JoinEmpties DEF Stop
  <2> QED
    BY <1>1, <1>7, <2>1, MarkTakes DEF Stop
<1>8. ASSUME UNCHANGED <<call, toPut, early, overrun, queue>>, Stopped' = Stopped,
             closer' = closer \/ (closer = "joining" /\ closer' = "joined" /\ queue' = <<>>)
      PROVE  MarkInv'
  <2>1. queue' = queue \o <<>> /\ <<>> \in Seq(Items)
    BY <1>2, <1>8
  <2> QED
    BY <1>1, <1>8, <2>1, MarkQuiet
<1>9. CASE Communicated(w) \/ TimedOut(w)
  <2>1. Stopped' = Stopped
    BY <1>1, <1>9 DEF Communicated, TimedOut, Stopped, TypeOK
  <2> QED
    BY <1>8, <1>9, <2>1 DEF Communicated, TimedOut
<1>10. CASE Finish(w)
  <2>1. job[w] # NoRun /\ queue' = queue /\ TaskDone
    BY <1>1, <1>10 DEF Finish, WorkerInv
  <2>2. closer' = closer \/ (closer = "joining" /\ closer' = "joined" /\ queue' = <<>>)
    BY <1>2, <2>1, JoinEmpties
  <2>3. Stopped' = Stopped
    BY <1>1, <1>10 DEF Finish, Stopped, TypeOK
  <2> QED
    BY <1>8, <1>10, <2>1, <2>2, <2>3 DEF Finish
<1>11. CASE CancelIdle(w) \/ CancelRunning(w) \/ CancelSwallowed(w) \/ CancelReaping(w)
            \/ FinishCancelled(w)
  <2>1. closer = "gathering"
    BY <1>11 DEF CancelIdle, CancelRunning, CancelSwallowed, CancelReaping, Cancelled,
                 FinishCancelled, EndInv
  <2>2. closer' = "gathering" /\ UNCHANGED <<early, overrun>>
    BY <1>11, <2>1 DEF CancelIdle, CancelRunning, CancelSwallowed, CancelReaping, Cancelled,
                       FinishCancelled, TaskDone
  <2> QED
    BY <2>1, <2>2, MarkGathers
<1> QED
  BY <1>4, <1>5, <1>6, <1>7, <1>9, <1>10, <1>11 DEF WorkerStep

\* The puts of close() turn sentinels to put into sentinels of the queue.
LEMMA MarkPuts ==
    ASSUME TypeOK, TypeOK', NEW n \in Nat, PutSentinels(n), UNCHANGED <<call, pc>>
    PROVE  /\ Marks' + toPut' >= Marks + n
           /\ closer' = "joining" => toPut' = 0
           /\ Stopped' = Stopped /\ Deadly' \subseteq Deadly
           /\ closer' \in {"putting", "joining"}
<1> DEFINE k == IF n <= Room THEN n ELSE Room
<1>1. queue \in Seq(Items) /\ Len(queue) \in Nat /\ k \in Int /\ k <= n
  BY ConstantFacts DEF Room, TypeOK
<1>2. /\ queue' = queue \o Sentinels(k) /\ toPut' = n - k
      /\ closer' = IF k < n THEN "putting" ELSE "joining"
  BY DEF PutSentinels, Enqueue
<1> HIDE DEF k
<1>3. Stopped' = Stopped
  BY DEF Stopped
<1>4. Cardinality(MarksIn(queue')) >= Cardinality(MarksIn(queue)) + k
  BY <1>1, <1>2, MarksSentinels
<1>5. Marks' + toPut' >= Marks + n
  BY <1>1, <1>2, <1>3, <1>4, MarksFacts DEF Marks
<1>6. Deadly' \subseteq Deadly
  <2>1. /\ Sentinels(k) \in Seq(Items) /\ Len(queue') = Len(queue) + Len(Sentinels(k))
        /\ Len(Sentinels(k)) \in Nat /\ \A i \in 1 .. Len(queue) : queue'[i] = queue[i]
    BY <1>1, <1>2, SentinelFacts, ConcatFacts
  <2>2. \A i \in 1 .. Len(queue) : i \in 1 .. Len(queue')
    BY <1>1, <2>1
  <2> QED
    BY <2>1, <2>2 DEF Deadly, Fatal
<1> QED
  BY <1>1, <1>2, <1>3, <1>5, <1>6

\* In the initial state nothing is queued, accepted or counted.
LEMMA MarkInit == Init => MarkInv
BY DEF Init, MarkInv, Deadly, Fatal

\* Every step keeps the count.
LEMMA MarkStep ==
    FullInv /\ TypeOK' /\ MarkInv /\ [Next]_vars => MarkInv'
<1> SUFFICES ASSUME CountInv, TypeOK', StartInv, PlaceInv, BehindInv, CloserInv, EndInv,
                    MarkInv, [Next]_vars
             PROVE  MarkInv'
  BY DEF FullInv
<1> USE DEF closeVars, childVars, recordVars, queueVars
<1>1. TypeOK
  BY DEF CountInv
<1>2. ASSUME NEW s \in Seq(Items), queue' = queue \o s, Stopped' = Stopped,
             UNCHANGED <<closer, toPut, early, overrun>>,
             \A r \in Runs : call[r] = "accepted" => call'[r] = "accepted",
             \A r \in Runs : call'[r] = "accepted" =>
                call[r] = "accepted" \/ \E i \in 1 .. Len(s) : s[i] = r
      PROVE  MarkInv'
  BY <1>1, <1>2, MarkQuiet
<1>3. ASSUME UNCHANGED <<queue, call, closer, toPut, early, overrun>>, Stopped' = Stopped
      PROVE  MarkInv'
  <2>1. queue' = queue \o <<>> /\ <<>> \in Seq(Items)
    BY <1>1, <1>3 DEF TypeOK
  <2> QED
    BY <1>2, <1>3, <2>1
<1>4. CASE Start
  <2>1. Stopped = {} /\ Stopped' = {}
    BY <1>4 DEF Start, StartInv, Stopped
  <2> QED
    BY <1>3, <1>4, <2>1 DEF Start
<1>5. ASSUME NEW r \in Runs, SubmitStep(r) PROVE MarkInv'
  <2>1. Stopped' = Stopped /\ UNCHANGED <<closer, toPut, early, overrun>>
    BY <1>5 DEF SubmitStep, Refuse, Submit, ResumeSubmit, Stopped
  <2>2. CASE Refuse(r)
    <3>1. /\ queue' = queue \o <<>> /\ <<>> \in Seq(Items)
          /\ \A q \in Runs : call'[q] = "accepted" <=> call[q] = "accepted"
      BY <1>1, <2>2 DEF Refuse, TypeOK
    <3> QED
      BY <1>2, <2>1, <3>1
  <2>3. ASSUME Offer(r), call[r] # "accepted" PROVE MarkInv'
    <3>1. CASE Room > 0
      <4>1. queue' = queue \o <<r>> /\ call' = [call EXCEPT ![r] = "accepted"]
        <5>1. Room > 0 => ~(Room <= 0)
          BY <1>1, ConstantFacts DEF Room, TypeOK
        <5> QED
          BY <2>3, <3>1, <5>1 DEF Offer, Enqueue
      <4>2. <<r>> \in Seq(Items) /\ 1 \in 1 .. Len(<<r>>) /\ <<r>>[1] = r
        BY DEF Items
      <4>3. \A q \in Runs : call'[q] = "accepted" <=> call[q] = "accepted" \/ q = r
        BY <1>1, <4>1 DEF TypeOK
      <4> QED
        BY <1>2, <2>1, <4>1, <4>2, <4>3
    <3>2. CASE ~(Room > 0)
      <4>1. queue' = queue /\ call' = [call EXCEPT ![r] = "blocked"]
        BY <2>3, <3>2 DEF Offer, WaitForRoom
      <4>2. /\ queue' = queue \o <<>> /\ <<>> \in Seq(Items)
            /\ \A q \in Runs : call'[q] = "accepted" <=> call[q] = "accepted"
        BY <1>1, <2>3, <4>1 DEF TypeOK
      <4> QED
        BY <1>2, <2>1, <4>2
    <3> QED
      BY <3>1, <3>2
  <2>4. CASE Submit(r)
    BY <2>3, <2>4 DEF Submit
  <2>5. CASE ResumeSubmit(r)
    <3>1. call[r] # "accepted"
      BY <2>5 DEF ResumeSubmit, PlaceInv, WaitInv
    <3> QED
      BY <2>3, <2>5, <3>1 DEF ResumeSubmit
  <2> QED
    BY <1>5, <2>2, <2>4, <2>5 DEF SubmitStep
<1>6. ASSUME NEW r \in Runs, ChildExits(r) PROVE MarkInv'
  BY <1>3, <1>6 DEF ChildExits, Stopped
<1>7. ASSUME NEW w \in Workers, WorkerStep(w) PROVE MarkInv'
  BY <1>7, MarkWorker
<1>8. CASE Close
  <2>1. /\ Marks' + toPut' >= Marks + Cardinality(Workers)
        /\ closer' = "joining" => toPut' = 0
        /\ Stopped' = Stopped /\ Deadly' \subseteq Deadly
        /\ closer' \in {"putting", "joining"}
    BY <1>1, <1>8, MarkPuts, ConstantFacts DEF Close
  <2>2. Deadly # {} => Cardinality(Stopped) > 0
    BY <1>1, <1>8, MarksFacts DEF Close, MarkInv
  <2>3. Marks >= Cardinality(Stopped) /\ Marks \in Nat /\ toPut' \in Nat /\ Marks' \in Nat
        /\ Cardinality(Stopped) \in Nat /\ Cardinality(Workers) \in Nat
    BY <1>1, MarksFacts DEF Marks, TypeOK
  <2>4. /\ Marks' + toPut' >= Cardinality(Workers)
        /\ Deadly' # {} => Marks' + toPut' > Cardinality(Workers)
    BY <2>1, <2>2, <2>3
  <2> QED
    BY <2>1, <2>4 DEF MarkInv
<1>9. CASE ResumeClose
  <2>1. closer = "putting" /\ toPut \in Nat
    BY <1>1, <1>9 DEF ResumeClose, CloserInv, TypeOK
  <2>2. /\ Marks' + toPut' >= Marks + toPut
        /\ closer' = "joining" => toPut' = 0
        /\ Stopped' = Stopped /\ Deadly' \subseteq Deadly
        /\ closer' \in {"putting", "joining"}
    BY <1>1, <1>9, <2>1, MarkPuts DEF ResumeClose
  <2>3. /\ Marks \in Nat /\ Marks' \in Nat /\ Cardinality(Workers) \in Nat
        /\ toPut' \in Nat
    BY <1>1, MarksFacts DEF TypeOK
  <2>4. /\ Marks' + toPut' >= Cardinality(Workers)
        /\ Deadly' # {} => Marks' + toPut' > Cardinality(Workers)
    <3>1. /\ Marks + toPut >= Cardinality(Workers)
          /\ Deadly # {} => Marks + toPut > Cardinality(Workers)
      BY <2>1 DEF MarkInv
    <3> DEFINE before == Marks + toPut
               m == Marks'
               p == toPut'
    <3>2. before \in Nat /\ m \in Nat /\ p \in Nat /\ m + p >= before
      <4>1. m + p >= before
        BY <2>2
      <4>2. before \in Nat
        BY <2>1, <2>3
      <4> QED
        BY <2>3, <4>1, <4>2
    <3>3. before >= Cardinality(Workers) /\ (Deadly # {} => before > Cardinality(Workers))
      BY <3>1
    <3> HIDE DEF before, m, p
    <3>4. m + p >= Cardinality(Workers) /\ (Deadly # {} => m + p > Cardinality(Workers))
      BY <2>3, <3>2, <3>3
    <3>5. Deadly' # {} => Deadly # {}
      BY <2>2
    <3> QED
      BY <3>4, <3>5 DEF m, p
  <2> QED
    BY <2>2, <2>4 DEF MarkInv
<1>10. CASE DrainTimeout
  BY <1>10 DEF DrainTimeout, MarkInv
<1>11. CASE CancelWorkers \/ CloseReturns
  <2>1. /\ closer \in {"joined", "gathering"} /\ closer' \in {"gathering", "closed"}
        /\ UNCHANGED <<early, overrun>>
    BY <1>11 DEF CancelWorkers, CloseReturns
  <2> QED
    BY <2>1, MarkGathers
<1>12. CASE UNCHANGED vars
  BY <1>3, <1>12 DEF vars, Stopped
<1> QED
  BY <1>4, <1>5, <1>6, <1>7, <1>8, <1>9, <1>10, <1>11, <1>12 DEF Next, CloseStep

\* When close() returns without its drain timeout, every run accepted before it
\* has its row (or its recorder failed), whatever commands there are.
THEOREM DrainIsComplete == Spec => []GracefulDrain
<1>1. FullInv /\ FullInv' /\ MarkInv /\ [Next]_vars => MarkInv'
  BY MarkStep DEF FullInv, CountInv
<1>2. FullInv /\ MarkInv => GracefulDrain
  BY DEF FullInv, DrainInv, MarkInv, GracefulDrain
<1> QED
  BY <1>1, <1>2, MarkInit, Invariants, PTL DEF Spec

-----------------------------------------------------------------------------
(* Puts that wait: how many of them have been woken                        *)

\* While close() waits for room it has a sentinel to put.
WakeInv ==
    /\ IsFiniteSet(woken)
    /\ NoLostWakeup
    /\ closer = "putting" => toPut # 0

\* In the initial state.
LEMMA WakeInit == Init => WakeInv
BY FS_EmptySet DEF Init, WakeInv, NoLostWakeup

\* A step that frees no slot and wakes nobody.
LEMMA WakeQuiet ==
    ASSUME WakeInv, UNCHANGED <<queue, putters, woken>>,
           closer' = "putting" => closer = "putting" /\ toPut' = toPut
    PROVE  WakeInv'
BY DEF WakeInv, NoLostWakeup, Room

\* A get frees one slot and wakes one of the puts that wait.
LEMMA WakeTake ==
    ASSUME TypeOK, PlaceInv, CloserInv, WakeInv, Dequeue,
           closer' = "putting" => closer = "putting" /\ toPut' = toPut
    PROVE  WakeInv'
<1>1. /\ Len(queue) \in Nat /\ Len(queue') = Len(queue) - 1 /\ MaxSize \in Nat
      /\ Room' = Room + 1 /\ Room \in Int
  BY DequeueFacts, ConstantFacts DEF Room, TypeOK, MaxSize
<1>2. CASE putters = <<>>
  BY <1>1, <1>2 DEF Dequeue, WakeInv, NoLostWakeup
<1>3. CASE putters # <<>>
  <2>1. /\ woken' = woken \cup {Head(putters)}
        /\ Head(putters) = putters[1] /\ 1 \in 1 .. Len(putters) /\ Head(putters) \in Items
    BY <1>3, TailFacts DEF Dequeue, TypeOK
  <2>2. Head(putters) \notin woken
    BY <2>1 DEF PlaceInv, WaitInv, CloserInv, Items
  <2>3. IsFiniteSet(woken') /\ Cardinality(woken') = Cardinality(woken) + 1
    BY <2>1, <2>2, FS_AddElement DEF WakeInv
  <2>4. Cardinality(woken) \in Nat
    BY FS_CardinalityType DEF WakeInv
  <2> QED
    BY <1>1, <1>3, <2>3, <2>4 DEF WakeInv, NoLostWakeup
<1> QED
  BY <1>2, <1>3

\* A put that resumes takes a slot or waits again.
LEMMA WakeOffer ==
    ASSUME TypeOK, WakeInv, NEW r \in Runs, Offer(r), UNCHANGED <<closer, toPut>>,
           woken' = woken \/ (r \in woken /\ woken' = woken \ {r})
    PROVE  WakeInv'
<1>1. /\ queue \in Seq(Items) /\ r \in Items /\ MaxSize \in Nat
      /\ Room \in Int /\ Len(queue) \in Nat
  BY ConstantFacts DEF TypeOK, Items, Room
<1>2. /\ IsFiniteSet(woken') /\ Cardinality(woken') \in Nat /\ Cardinality(woken) \in Nat
      /\ Cardinality(woken') >= Cardinality(woken) - 1
  <2>1. IsFiniteSet(woken') /\ Cardinality(woken') >= Cardinality(woken) - 1
    <3>1. IsFiniteSet(woken) /\ Cardinality(woken) \in Nat
      BY FS_CardinalityType DEF WakeInv
    <3>2. /\ IsFiniteSet(woken \ {r})
          /\ Cardinality(woken \ {r}) =
               IF r \in woken THEN Cardinality(woken) - 1 ELSE Cardinality(woken)
      BY <3>1, FS_RemoveElement
    <3> QED
      BY <3>1, <3>2
  <2> QED
    BY <2>1, FS_CardinalityType DEF WakeInv
<1>3. CASE Room > 0
  <2>1. queue' = queue \o <<r>> /\ putters' = putters
    <3>1. Room > 0 => ~(Room <= 0)
      BY <1>1
    <3> QED
      BY <1>3, <3>1 DEF Offer, Enqueue
  <2>2. <<r>> \in Seq(Items) /\ Len(<<r>>) = 1
    BY <1>1
  <2>3. Len(queue') = Len(queue) + 1
    BY <1>1, <2>1, <2>2, ConcatFacts
  <2>4. Room' = Room - 1
    BY <1>1, <2>3, ConstantFacts DEF Room, MaxSize
  <2> QED
    BY <1>1, <1>2, <2>1, <2>4 DEF WakeInv, NoLostWakeup
<1>4. CASE ~(Room > 0)
  <2>1. Room' <= 0
    BY <1>1, <1>4 DEF Offer, WaitForRoom, Room, MaxSize
  <2>2. Room' \in Int
    BY <1>1, <1>4 DEF Offer, WaitForRoom, Room, MaxSize
  <2> QED
    BY <1>2, <2>1, <2>2 DEF WakeInv, NoLostWakeup
<1> QED
  BY <1>3, <1>4

\* close() fills the queue, or has put its last sentinel.
LEMMA WakeSentinels ==
    ASSUME TypeOK, WakeInv, NEW n \in Nat, PutSentinels(n),
           \/ woken' = woken
           \/ Shutdown \in woken /\ woken' = woken \ {Shutdown} /\ n # 0
    PROVE  WakeInv'
<1> DEFINE k == IF n <= Room THEN n ELSE Room
<1>1. /\ queue \in Seq(Items) /\ MaxSize \in Nat /\ Room \in Int /\ Len(queue) \in Nat
      /\ k \in Int
  BY ConstantFacts DEF TypeOK, Room
<1>2. /\ IsFiniteSet(woken') /\ Cardinality(woken') \in Nat /\ Cardinality(woken) \in Nat
      /\ woken' = woken \/ (n # 0 /\ Cardinality(woken') = Cardinality(woken) - 1)
  <2>1. /\ IsFiniteSet(woken')
        /\ woken' = woken \/ (n # 0 /\ Cardinality(woken') = Cardinality(woken) - 1)
    BY FS_RemoveElement DEF WakeInv
  <2> QED
    BY <2>1, FS_CardinalityType DEF WakeInv
<1>3. /\ queue' = queue \o Sentinels(k)
      /\ toPut' = n - k
      /\ IF k < n THEN closer' = "putting" ELSE putters' = putters /\ closer' = "joining"
  BY DEF PutSentinels, Enqueue
<1>4. Len(queue') = Len(queue) + Len(Sentinels(k))
  BY <1>1, <1>3, SentinelFacts, ConcatFacts
<1>5. Len(Sentinels(k)) = IF k >= 0 THEN k ELSE 0
  <2>1. CASE k >= 0
    BY <1>1, <2>1 DEF Sentinels
  <2>2. CASE ~(k >= 0)
    <3>1. 1 .. k = {}
      BY <1>1, <2>2
    <3>2. Sentinels(k) = <<>>
      BY <3>1 DEF Sentinels
    <3> QED
      BY <2>2, <3>2
  <2> QED
    BY <2>1, <2>2
<1>6. Room' = Room - (IF k >= 0 THEN k ELSE 0)
  BY <1>1, <1>4, <1>5 DEF Room, MaxSize
<1>7. CASE k < n
  <2>1. k = Room /\ Room' <= 0 /\ Room' \in Int
    BY <1>1, <1>6, <1>7
  <2>2. toPut' # 0
    BY <1>1, <1>3, <1>7
  <2> QED
    BY <1>2, <2>1, <2>2 DEF WakeInv, NoLostWakeup
<1>8. CASE ~(k < n)
  <2>1. k = n /\ Room' = Room - n /\ putters' = putters /\ closer' = "joining"
    BY <1>1, <1>3, <1>6, <1>8
  <2> QED
    BY <1>1, <1>2, <2>1 DEF WakeInv, NoLostWakeup
<1> QED
  BY <1>7, <1>8

\* Every step keeps it.
LEMMA WakeStep == TypeOK /\ PlaceInv /\ CloserInv /\ WakeInv /\ [Next]_vars => WakeInv'
<1> SUFFICES ASSUME TypeOK, PlaceInv, CloserInv, WakeInv, [Next]_vars PROVE WakeInv'
  OBVIOUS
<1> USE DEF closeVars, childVars, recordVars, queueVars
<1>1. CASE Start \/ UNCHANGED vars
  BY <1>1, WakeQuiet DEF Start, vars
<1>2. ASSUME NEW r \in Runs, Refuse(r) \/ ChildExits(r) PROVE WakeInv'
  BY <1>2, WakeQuiet DEF Refuse, ChildExits
<1>3. ASSUME NEW r \in Runs, Submit(r) \/ ResumeSubmit(r) PROVE WakeInv'
  BY <1>3, WakeOffer DEF Submit, ResumeSubmit
<1>4. ASSUME NEW w \in Workers, WorkerStep(w) PROVE WakeInv'
  <2>1. closer' = "putting" => closer = "putting" /\ toPut' = toPut
    BY <1>4
       DEF WorkerStep, Launch, FailToStart, Crash, Stop, TaskDone, Communicated, TimedOut,
                Finish, CancelIdle, CancelRunning, CancelSwallowed, CancelReaping, Cancelled,
                FinishCancelled
  <2>2. ASSUME NEW r \in Runs, Launch(w, r) \/ FailToStart(w, r) \/ Crash(w, r)
        PROVE  WakeInv'
    <3>1. Dequeue
      BY <2>2 DEF Launch, FailToStart, Crash, Takes
    <3> QED
      BY <2>1, <3>1, WakeTake
  <2>3. CASE Stop(w)
    BY <2>1, <2>3, WakeTake DEF Stop, Takes
  <2>4. CASE \/ Communicated(w) \/ TimedOut(w) \/ Finish(w) \/ CancelIdle(w)
             \/ CancelRunning(w) \/ CancelSwallowed(w) \/ CancelReaping(w) \/ FinishCancelled(w)
    <3>1. UNCHANGED <<queue, putters, woken>>
      BY <2>4 DEF Communicated, TimedOut, Finish, CancelIdle, CancelRunning, CancelSwallowed,
                  CancelReaping,
                  FinishCancelled
    <3> QED
      BY <2>1, <3>1, WakeQuiet
  <2> QED
    BY <1>4, <2>2, <2>3, <2>4 DEF WorkerStep
<1>5. CASE Close
  BY <1>5, WakeSentinels, ConstantFacts DEF Close
<1>6. CASE ResumeClose
  <2>1. PutSentinels(toPut) /\ toPut \in Nat /\ toPut # 0
    BY <1>6 DEF ResumeClose, CloserInv, WakeInv, TypeOK
  <2> QED
    BY <1>6, <2>1, WakeSentinels DEF ResumeClose
<1>7. CASE DrainTimeout \/ CancelWorkers \/ CloseReturns
  BY <1>7, WakeQuiet DEF DrainTimeout, CancelWorkers, CloseReturns
<1> QED
  BY <1>1, <1>2, <1>3, <1>4, <1>5, <1>6, <1>7 DEF Next, SubmitStep, CloseStep

\* No put waits while there is room that nobody has been woken for: the puts of
\* submit() and of close(), whatever was cancelled or failed in between.
THEOREM PutsAreWoken == Spec => []NoLostWakeup
<1>1. FullInv => TypeOK /\ PlaceInv /\ CloserInv
  BY DEF FullInv, CountInv
<1>2. WakeInv => NoLostWakeup
  BY DEF WakeInv
<1> QED
  BY <1>1, <1>2, Invariants, WakeInit, WakeStep, PTL DEF Spec


-----------------------------------------------------------------------------
(* RunLifecycle: what the phase of a run depends on                         *)

\* What has become of the result of a run.
Outcome(r) ==
    IF rows[r] > 0 THEN "recorded" ELSE IF r \in lost THEN "lost" ELSE "none"
Held(r) == \E w \in Workers : job[w] = r
Queued(r) == \E i \in 1 .. Len(queue) : queue[i] = r

PhaseFrom(c, outcome, held, queued) ==
    IF c = "blocked" THEN "waiting"
    ELSE IF c # "accepted" THEN c
    ELSE IF outcome # "none" THEN outcome
    ELSE IF held THEN "executing"
    ELSE IF queued THEN "accepted"
    ELSE "abandoned"

\* The phase depends on these four alone.
LEMMA PhaseIs ==
    ASSUME TypeOK, NEW r \in Runs
    PROVE  phaseOf(r) = PhaseFrom(call[r], Outcome(r), Held(r), Queued(r))
<1>1. /\ call[r] \in {"new", "refused", "blocked", "accepted"}
      /\ rows[r] \in Nat
      /\ DOMAIN queue = 1 .. Len(queue)
  BY DEF TypeOK
<1>2. rows[r] > 0 <=> rows[r] # 0
  BY <1>1
<1>3. CASE call[r] # "accepted"
  BY <1>1, <1>3 DEF phaseOf, PhaseFrom
<1>4. CASE call[r] = "accepted" /\ Outcome(r) # "none"
  BY <1>1, <1>2, <1>4 DEF phaseOf, PhaseFrom, Outcome
<1>5. CASE call[r] = "accepted" /\ Outcome(r) = "none"
  BY <1>1, <1>2, <1>5 DEF phaseOf, PhaseFrom, Outcome, Held, Queued
<1> QED
  BY <1>1, <1>3, <1>4, <1>5

\* So it is after a step.
LEMMA PhaseIsNext ==
    ASSUME TypeOK', NEW r \in Runs
    PROVE  phaseOf(r)' = PhaseFrom(call'[r], Outcome(r)', Held(r)', Queued(r)')
<1>1. /\ call'[r] \in {"new", "refused", "blocked", "accepted"}
      /\ rows'[r] \in Nat
      /\ DOMAIN queue' = 1 .. Len(queue')
  BY DEF TypeOK
<1>2. rows'[r] > 0 <=> rows'[r] # 0
  BY <1>1
<1>3. CASE call'[r] # "accepted"
  BY <1>1, <1>3 DEF phaseOf, PhaseFrom
<1>4. CASE call'[r] = "accepted" /\ Outcome(r)' # "none"
  BY <1>1, <1>2, <1>4 DEF phaseOf, PhaseFrom, Outcome
<1>5. CASE call'[r] = "accepted" /\ Outcome(r)' = "none"
  BY <1>1, <1>2, <1>5 DEF phaseOf, PhaseFrom, Outcome, Held, Queued
<1> QED
  BY <1>1, <1>3, <1>4, <1>5

\* Nothing a run depends on has changed.
Same(r) ==
    /\ call'[r] = call[r]
    /\ Outcome(r)' = Outcome(r)
    /\ Held(r)' <=> Held(r)
    /\ Queued(r)' <=> Queued(r)

\* Then its phase is the same.
LEMMA PhaseSame ==
    ASSUME TypeOK, TypeOK', NEW r \in Runs, Same(r)
    PROVE  phaseOf(r)' = phaseOf(r)
BY PhaseIs, PhaseIsNext DEF Same, PhaseFrom

\* One run moves, and the others and the service stay.
LEMMA MoveFacts ==
    ASSUME NEW r \in Runs, NEW from, NEW to,
           phaseOf(r) = from, phaseOf(r)' = to,
           \A q \in Runs : q # r => phaseOf(q)' = phaseOf(q),
           serviceOf' = serviceOf
    PROVE  Lifecycle!Move(r, from, to)
BY DEF Lifecycle!Move

\* No run moves, and the service stays.
LEMMA StutterFacts ==
    ASSUME \A q \in Runs : phaseOf(q)' = phaseOf(q), serviceOf' = serviceOf
    PROVE  UNCHANGED Lifecycle!vars
BY DEF Lifecycle!vars

\* The service moves.
LEMMA AdvanceFacts ==
    ASSUME NEW from, NEW to, serviceOf = from, serviceOf' = to,
           \A q \in Runs : phaseOf(q)' = phaseOf(q)
    PROVE  Lifecycle!Advance(from, to)
BY DEF Lifecycle!Advance

-----------------------------------------------------------------------------
(* RunLifecycle: each step of the runner is one of its runs, or of none     *)

\* A get takes the run at the head, and the other runs stay queued.
LEMMA TakenFacts ==
    ASSUME TypeOK, PlaceInv, Dequeue, call' = call, NEW h, h = Head(queue)
    PROVE  /\ h \in Runs => Queued(h) /\ ~Queued(h)'
           /\ \A r \in Runs : r # h => (Queued(r)' <=> Queued(r))
<1>1. queue \in Seq(Items) /\ queue # <<>> /\ queue' = Tail(queue)
  BY DEF TypeOK, Dequeue
<1>2. /\ h = queue[1] /\ Len(queue) \in Nat \ {0}
      /\ Len(queue') = Len(queue) - 1
      /\ \A i \in 1 .. Len(queue') : queue'[i] = queue[i + 1]
  BY <1>1, TailFacts
<1>3. 1 \in 1 .. Len(queue) /\ \A i \in 1 .. Len(queue') : i + 1 \in 1 .. Len(queue)
  BY <1>2
<1>4. h \in Runs => Queued(h) /\ ~Queued(h)'
  <2>1. \A i \in 1 .. Len(queue') : queue'[i] \in Runs => queue'[i] # h
    BY TakePlaces
  <2>2. Queued(h)
    BY <1>2, <1>3 DEF Queued
  <2> QED
    BY <1>1, <2>1, <2>2 DEF Queued
<1>5. ASSUME NEW r \in Runs, r # h
      PROVE  Queued(r)' <=> Queued(r)
  <2>1. ASSUME NEW i \in 1 .. Len(queue), queue[i] = r
        PROVE  \E k \in 1 .. Len(queue') : queue'[k] = r
    <3>1. i # 1
      BY <1>2, <1>5, <2>1
    <3>2. i - 1 \in 1 .. Len(queue') /\ (i - 1) + 1 = i
      BY <1>2, <3>1
    <3> QED
      BY <1>2, <2>1, <3>2
  <2> QED
    BY <1>2, <1>3, <2>1 DEF Queued
<1> QED
  BY <1>4, <1>5

\* The sentinels of close() are no runs.
LEMMA SentinelsFacts ==
    ASSUME TypeOK, NEW n \in Nat, PutSentinels(n), NEW r \in Runs
    PROVE  Queued(r)' <=> Queued(r)
<1>1. PICK k \in Int : queue' = queue \o Sentinels(k)
  BY PutSentinelsFacts
<1>2. queue \in Seq(Items) /\ Sentinels(k) \in Seq(Items)
  BY SentinelFacts DEF TypeOK
<1>3. /\ Len(queue') = Len(queue) + Len(Sentinels(k))
      /\ Len(queue) \in Nat /\ Len(Sentinels(k)) \in Nat
      /\ \A i \in 1 .. Len(queue) : queue'[i] = queue[i]
      /\ \A i \in 1 .. Len(Sentinels(k)) : queue'[Len(queue) + i] = Sentinels(k)[i]
  BY <1>1, <1>2, ConcatFacts
<1>4. \A i \in 1 .. Len(queue') :
        i \in 1 .. Len(queue) \/ i - Len(queue) \in 1 .. Len(Sentinels(k))
  BY <1>3
<1>5. \A i \in 1 .. Len(queue') : i \notin 1 .. Len(queue) => queue'[i] = Shutdown
  <2> SUFFICES ASSUME NEW i \in 1 .. Len(queue'), i \notin 1 .. Len(queue)
               PROVE  queue'[i] = Shutdown
    OBVIOUS
  <2>1. i - Len(queue) \in 1 .. Len(Sentinels(k)) /\ Len(queue) + (i - Len(queue)) = i
    BY <1>3, <1>4
  <2> QED
    BY <1>3, <2>1, SentinelFacts
<1>6. \A i \in 1 .. Len(queue) : i \in 1 .. Len(queue')
  BY <1>3
<1> QED
  BY <1>3, <1>5, <1>6, ItemAssumption DEF Queued

\* A step that moves no run and no phase of close().
LEMMA QuietStep ==
    ASSUME TypeOK, TypeOK', UNCHANGED <<call, rows, lost, job, queue>>
    PROVE  \A r \in Runs : phaseOf(r)' = phaseOf(r)
<1> SUFFICES ASSUME NEW r \in Runs PROVE phaseOf(r)' = phaseOf(r)
  OBVIOUS
<1>1. Same(r)
  BY DEF Same, Outcome, Held, Queued
<1> QED
  BY <1>1, PhaseSame

\* submit() refuses, accepts, or leaves its caller waiting; who has waited is let
\* in later, or waits on.
LEMMA SubmitLife ==
    ASSUME TypeOK, TypeOK', PlaceInv, NEW r \in Runs, SubmitStep(r)
    PROVE  \/ Lifecycle!Refuse(r) \/ Lifecycle!Wait(r) \/ Lifecycle!Accept(r)
           \/ UNCHANGED Lifecycle!vars
<1> USE DEF closeVars, childVars, recordVars, queueVars
<1>1. UNCHANGED <<rows, lost, job, closer>>
  BY DEF SubmitStep, Refuse, Submit, ResumeSubmit
<1>2. serviceOf' = serviceOf
  BY <1>1 DEF serviceOf
<1>3. call[r] \in {"new", "blocked"}
  BY DEF SubmitStep, Refuse, Submit, ResumeSubmit, PlaceInv, WaitInv
<1>4. Outcome(r) = "none" /\ ~Held(r)
  BY <1>3 DEF PlaceInv, NewInv, Untouched, Outcome, Held
<1>5. Outcome(r)' = "none" /\ ~Held(r)'
  BY <1>1, <1>4 DEF Outcome, Held
<1>6. CASE Refuse(r)
  <2>1. call[r] = "new" /\ call' = [call EXCEPT ![r] = "refused"] /\ queue' = queue
    BY <1>6 DEF Refuse
  <2>2. \A q \in Runs : q # r => Same(q)
    BY <1>1, <2>1 DEF Same, Outcome, Held, Queued, TypeOK
  <2>3. phaseOf(r) = "new" /\ phaseOf(r)' = "refused"
    BY <2>1, PhaseIs, PhaseIsNext DEF PhaseFrom, TypeOK
  <2> QED
    BY <1>2, <2>2, <2>3, PhaseSame, MoveFacts DEF Lifecycle!Refuse
<1>7. CASE Submit(r) \/ ResumeSubmit(r)
  <2>1. Offer(r) /\ queue \in Seq(Items) /\ Room \in Int
    BY <1>7, ConstantFacts DEF Submit, ResumeSubmit, TypeOK, Room
  <2>2. \/ phaseOf(r) = "new" /\ serviceOf = "open"
        \/ phaseOf(r) = "waiting"
    <3>1. (call[r] = "new" /\ closer = "open") \/ call[r] = "blocked"
      BY <1>7 DEF Submit, ResumeSubmit, PlaceInv, WaitInv
    <3> QED
      BY <3>1, PhaseIs DEF PhaseFrom, serviceOf
  <2>3. CASE Room > 0
    <3>1. queue' = queue \o <<r>> /\ call' = [call EXCEPT ![r] = "accepted"]
      BY <2>1, <2>3 DEF Offer, Enqueue
    <3>2. <<r>> \in Seq(Items) /\ Len(<<r>>) = 1 /\ <<r>>[1] = r
      BY DEF Items
    <3>3. /\ Len(queue) \in Nat /\ Len(queue') = Len(queue) + 1
          /\ \A i \in 1 .. Len(queue) : queue'[i] = queue[i]
          /\ queue'[Len(queue) + 1] = r
      BY <2>1, <3>1, <3>2, ConcatFacts
    <3>4. /\ \A i \in 1 .. Len(queue') : i \in 1 .. Len(queue) \/ i = Len(queue) + 1
          /\ \A i \in 1 .. Len(queue) : i \in 1 .. Len(queue')
          /\ Len(queue) + 1 \in 1 .. Len(queue')
      BY <3>3
    <3>5. Queued(r)' /\ \A q \in Runs : q # r => (Queued(q)' <=> Queued(q))
      BY <3>3, <3>4 DEF Queued
    <3>6. \A q \in Runs : q # r => Same(q)
      BY <1>1, <3>1, <3>5 DEF Same, Outcome, Held, TypeOK
    <3>7. phaseOf(r)' = "accepted"
      BY <1>5, <3>1, <3>5, PhaseIsNext DEF PhaseFrom, TypeOK
    <3> QED
      BY <1>2, <2>2, <3>6, <3>7, PhaseSame, MoveFacts DEF Lifecycle!Accept
  <2>4. CASE ~(Room > 0)
    <3>1. queue' = queue /\ call' = [call EXCEPT ![r] = "blocked"]
      BY <2>1, <2>4 DEF Offer, WaitForRoom
    <3>2. \A q \in Runs : q # r => Same(q)
      BY <1>1, <3>1 DEF Same, Outcome, Held, Queued, TypeOK
    <3>3. phaseOf(r)' = "waiting"
      BY <3>1, PhaseIsNext DEF PhaseFrom, TypeOK
    <3>4. CASE phaseOf(r) = "new" /\ serviceOf = "open"
      BY <1>2, <3>2, <3>3, <3>4, PhaseSame, MoveFacts DEF Lifecycle!Wait
    <3>5. CASE phaseOf(r) = "waiting"
      BY <1>2, <3>2, <3>3, <3>5, PhaseSame, StutterFacts
    <3> QED
      BY <2>2, <3>4, <3>5
  <2> QED
    BY <2>3, <2>4
<1> QED
  BY <1>6, <1>7 DEF SubmitStep

\* The recorder writes the row of a run, or fails.
LEMMA RecordIs ==
    ASSUME TypeOK, NEW r \in Runs, Outcome(r) = "none", Record(r)
    PROVE  /\ Outcome(r)' = "recorded" \/ (RecorderMayFail /\ Outcome(r)' = "lost")
           /\ \A q \in Runs : q # r => Outcome(q)' = Outcome(q)
<1>1. rows[r] = 0 /\ r \notin lost
  BY DEF Outcome, TypeOK
<1>2. CASE rows' = [rows EXCEPT ![r] = @ + 1] /\ lost' = lost
  BY <1>1, <1>2 DEF Outcome, TypeOK
<1>3. CASE RecorderMayFail /\ lost' = lost \cup {r} /\ rows' = rows
  BY <1>1, <1>3 DEF Outcome, TypeOK
<1> QED
  BY <1>2, <1>3 DEF Record

\* A worker executes the run it takes, settles it, or loses it with itself.
LEMMA TakeLife ==
    ASSUME FullInv, TypeOK', NEW w \in Workers, NEW r \in Runs,
           Launch(w, r) \/ FailToStart(w, r) \/ Crash(w, r)
    PROVE  \/ Lifecycle!Execute(r) \/ Lifecycle!Record(r) \/ Lifecycle!Lose(r)
           \/ Lifecycle!Abandon(r)
<1> USE DEF closeVars, childVars, recordVars, queueVars
<1>1. /\ TypeOK /\ WorkerInv /\ PlaceInv
      /\ Takes(w, r) /\ Dequeue /\ Head(queue) = r /\ pc[w] = "idle" /\ call' = call
  BY DEF FullInv, CountInv, Launch, FailToStart, Crash, Takes
<1>2. closer \in {"open", "putting", "joining", "joined", "gathering"}
  BY <1>1 DEF FullInv, EndInv, TypeOK
<1>3. serviceOf # "closed"
  BY <1>2 DEF serviceOf
<1>4. serviceOf' = serviceOf
  BY <1>2 DEF Launch, FailToStart, Crash, TaskDone, serviceOf
<1>5. Fresh(r)
  BY <1>1, TakePlaces
<1>6. /\ Queued(r) /\ ~Queued(r)'
      /\ \A q \in Runs : q # r => (Queued(q)' <=> Queued(q))
  BY <1>1, TakenFacts
<1>7. phaseOf(r) = "accepted" /\ Outcome(r) = "none" /\ ~Held(r) /\ call[r] = "accepted"
  BY <1>1, <1>5, <1>6, PhaseIs DEF PhaseFrom, Fresh, Untouched, Outcome, Held
<1>8. CASE Launch(w, r)
  <2>1. rows' = rows /\ lost' = lost /\ job' = [job EXCEPT ![w] = r] /\ job[w] = NoRun
    BY <1>1, <1>8 DEF Launch, WorkerInv
  <2>2. Held(r)' /\ \A q \in Runs : q # r => (Held(q)' <=> Held(q))
    BY <1>1, <2>1, ItemAssumption DEF Held, TypeOK
  <2>3. \A q \in Runs : q # r => Same(q)
    BY <1>1, <1>6, <2>1, <2>2 DEF Same, Outcome
  <2>4. Outcome(r)' = "none"
    BY <1>7, <2>1 DEF Outcome
  <2>5. phaseOf(r)' = "executing"
    BY <1>1, <1>7, <2>2, <2>4, PhaseIsNext DEF PhaseFrom
  <2> QED
    BY <1>1, <1>3, <1>4, <1>7, <2>3, <2>5, PhaseSame, MoveFacts DEF Lifecycle!Execute
<1>9. CASE FailToStart(w, r)
  <2>1. Record(r) /\ job' = job
    BY <1>9 DEF FailToStart
  <2>2. /\ Outcome(r)' = "recorded" \/ (RecorderMayFail /\ Outcome(r)' = "lost")
        /\ \A q \in Runs : q # r => Outcome(q)' = Outcome(q)
    BY <1>1, <1>7, <2>1, RecordIs
  <2>3. \A q \in Runs : q # r => Same(q)
    BY <1>1, <1>6, <2>1, <2>2 DEF Same, Held
  <2>4. phaseOf(r)' = Outcome(r)'
    BY <1>1, <1>7, <2>2, PhaseIsNext DEF PhaseFrom
  <2>5. \/ phaseOf(r)' = "recorded"
        \/ RecorderMayFail /\ phaseOf(r)' = "lost"
    BY <2>2, <2>4
  <2> QED
    BY <1>1, <1>3, <1>4, <1>7, <2>3, <2>5, PhaseSame, MoveFacts
       DEF Lifecycle!Record, Lifecycle!Lose, Lifecycle!Settle
<1>10. CASE Crash(w, r)
  <2>1. rows' = rows /\ lost' = lost /\ job' = job /\ r \in Malformed
    BY <1>10 DEF Crash
  <2>2. \A q \in Runs : q # r => Same(q)
    BY <1>1, <1>6, <2>1 DEF Same, Held, Outcome
  <2>3. Outcome(r)' = "none" /\ ~Held(r)'
    BY <1>7, <2>1 DEF Outcome, Held
  <2>4. phaseOf(r)' = "abandoned"
    BY <1>1, <1>6, <1>7, <2>3, PhaseIsNext DEF PhaseFrom
  <2> QED
    BY <1>1, <1>3, <1>4, <1>7, <2>1, <2>2, <2>4, PhaseSame, MoveFacts DEF Lifecycle!Abandon
<1> QED
  BY <1>8, <1>9, <1>10

\* A worker that stops has taken no run.
LEMMA StopLife ==
    ASSUME FullInv, TypeOK', NEW w \in Workers, Stop(w)
    PROVE  UNCHANGED Lifecycle!vars
<1> USE DEF closeVars, childVars, recordVars, queueVars
<1>1. /\ TypeOK /\ PlaceInv /\ Dequeue /\ Head(queue) = Shutdown
      /\ UNCHANGED <<call, rows, lost, job>>
  BY DEF FullInv, CountInv, Stop, Takes
<1>2. serviceOf' = serviceOf
  BY DEF Stop, TaskDone, serviceOf
<1>3. \A r \in Runs : Queued(r)' <=> Queued(r)
  BY <1>1, TakenFacts, ItemAssumption
<1>4. \A r \in Runs : Same(r)
  BY <1>1, <1>3 DEF Same, Outcome, Held
<1> QED
  BY <1>1, <1>2, <1>4, PhaseSame, StutterFacts

\* A worker that ends its run settles it, or abandons it when it is cancelled.
LEMMA ReleaseLife ==
    ASSUME FullInv, TypeOK', NEW w \in Workers,
           Finish(w) \/ CancelReaping(w) \/ FinishCancelled(w)
    PROVE  \E r \in Runs : Lifecycle!Record(r) \/ Lifecycle!Lose(r) \/ Lifecycle!Abandon(r)
<1> USE DEF closeVars, childVars, recordVars, queueVars
<1> DEFINE r == job[w]
<1>1. /\ TypeOK /\ WorkerInv /\ PlaceInv
      /\ r \in Runs
      /\ call' = call /\ queue' = queue /\ job' = [job EXCEPT ![w] = NoRun]
  BY DEF FullInv, CountInv, WorkerInv, TypeOK, Finish, CancelReaping, FinishCancelled
<1>2. call[r] = "accepted" /\ Outcome(r) = "none" /\ Held(r) /\ ~Queued(r)
  <2>1. call[r] = "accepted" /\ rows[r] = 0 /\ r \notin lost
    BY <1>1 DEF PlaceInv, JobInv
  <2>2. \A i \in 1 .. Len(queue) : queue[i] # r
    BY <1>1 DEF PlaceInv, QueueInv, Fresh
  <2> QED
    BY <1>1, <2>1, <2>2 DEF Outcome, Held, Queued
<1>3. phaseOf(r) = "executing"
  BY <1>1, <1>2, PhaseIs DEF PhaseFrom
<1>4. \A q \in Runs : Queued(q)' <=> Queued(q)
  BY <1>1 DEF Queued
<1>5. PICK h \in Runs : h = r
  BY <1>1
<1>6. \A q \in Runs : Held(q)' <=> Held(q) /\ q # h
  BY <1>1, <1>5, ItemAssumption DEF Held, TypeOK, PlaceInv, JobInv
<1> HIDE DEF r
<1>7. CASE Finish(w)
  <2>1. Record(h)
    BY <1>5, <1>7 DEF Finish, r
  <2>2. /\ Outcome(h)' = "recorded" \/ (RecorderMayFail /\ Outcome(h)' = "lost")
        /\ \A q \in Runs : q # h => Outcome(q)' = Outcome(q)
    BY <1>1, <1>2, <1>5, <2>1, RecordIs
  <2>3. \A q \in Runs : q # h => Same(q)
    BY <1>1, <1>4, <1>6, <2>2 DEF Same
  <2>4. \/ phaseOf(h)' = "recorded"
        \/ RecorderMayFail /\ phaseOf(h)' = "lost"
    <3>1. phaseOf(h)' = Outcome(h)'
      BY <1>1, <1>2, <1>5, <2>2, PhaseIsNext DEF PhaseFrom
    <3> QED
      BY <2>2, <3>1
  <2>5. serviceOf # "closed" /\ serviceOf' = serviceOf
    <3>1. closer # "closed"
      BY <1>7 DEF Finish, FullInv, EndInv
    <3> QED
      BY <1>1, <1>7, <3>1 DEF Finish, TaskDone, serviceOf, TypeOK
  <2> QED
    BY <1>1, <1>3, <1>5, <2>3, <2>4, <2>5, PhaseSame, MoveFacts
       DEF Lifecycle!Record, Lifecycle!Lose, Lifecycle!Settle
<1>8. CASE CancelReaping(w) \/ FinishCancelled(w)
  <2>1. rows' = rows /\ lost' = lost /\ closer = "gathering" /\ closer' = closer
    BY <1>8 DEF CancelReaping, Cancelled, FinishCancelled, TaskDone, FullInv, EndInv
  <2>2. \A q \in Runs : q # h => Same(q)
    BY <1>1, <1>4, <1>6, <2>1 DEF Same, Outcome
  <2>3. Outcome(h)' = "none" /\ ~Held(h)' /\ ~Queued(h)'
    BY <1>2, <1>4, <1>5, <1>6, <2>1 DEF Outcome
  <2>4. phaseOf(h)' = "abandoned"
    BY <1>1, <1>2, <1>5, <2>3, PhaseIsNext DEF PhaseFrom
  <2>5. serviceOf = "cancelling" /\ serviceOf' = serviceOf
    BY <2>1 DEF serviceOf
  <2> QED
    BY <1>1, <1>3, <1>5, <2>2, <2>4, <2>5, PhaseSame, MoveFacts DEF Lifecycle!Abandon
<1> QED
  BY <1>7, <1>8

\* close() drains, cancels and returns, in this order.
LEMMA CloseLife ==
    ASSUME FullInv, TypeOK', CloseStep
    PROVE  \/ Lifecycle!Drain \/ Lifecycle!Cancel \/ Lifecycle!Return
           \/ UNCHANGED Lifecycle!vars
<1> USE DEF closeVars, childVars, recordVars, queueVars
<1>1. TypeOK /\ UNCHANGED <<call, rows, lost, job>>
  BY
     DEF FullInv, CountInv, CloseStep, Close, ResumeClose, DrainTimeout, CancelWorkers,
         CloseReturns
<1>2. ASSUME NEW n \in Nat, PutSentinels(n)
      PROVE  \A r \in Runs : phaseOf(r)' = phaseOf(r)
  <2>1. \A r \in Runs : Same(r)
    BY <1>1, <1>2, SentinelsFacts DEF Same, Outcome, Held
  <2> QED
    BY <1>1, <2>1, PhaseSame
<1>3. CASE Close
  <2>1. PutSentinels(Cardinality(Workers)) /\ closer = "open"
    BY <1>3 DEF Close
  <2>2. closer' \in {"putting", "joining"}
    BY <1>1, <2>1, ConstantFacts, PutSentinelsFacts
  <2>3. serviceOf = "open" /\ serviceOf' = "draining"
    BY <2>1, <2>2 DEF serviceOf
  <2> QED
    BY <1>2, <2>1, <2>3, ConstantFacts, AdvanceFacts DEF Lifecycle!Drain
<1>4. CASE ResumeClose
  <2>1. PutSentinels(toPut) /\ toPut \in Nat /\ closer = "putting"
    BY <1>1, <1>4 DEF ResumeClose, FullInv, CloserInv, TypeOK
  <2>2. closer' \in {"putting", "joining"}
    BY <1>1, <2>1, PutSentinelsFacts
  <2>3. serviceOf' = serviceOf
    BY <2>1, <2>2 DEF serviceOf
  <2> QED
    BY <1>2, <2>1, <2>3, StutterFacts
<1>5. CASE DrainTimeout \/ CancelWorkers
  <2>1. queue' = queue /\ closer \in {"joining", "joined"} /\ closer' = "gathering"
    BY <1>5 DEF DrainTimeout, CancelWorkers
  <2>2. serviceOf = "draining" /\ serviceOf' = "cancelling"
    BY <2>1 DEF serviceOf
  <2> QED
    BY <1>1, <2>1, <2>2, QuietStep, AdvanceFacts DEF Lifecycle!Cancel
<1>6. CASE CloseReturns
  <2>1. queue' = queue /\ closer = "gathering" /\ closer' = "closed"
    BY <1>6 DEF CloseReturns
  <2>2. serviceOf = "cancelling" /\ serviceOf' = "closed"
    BY <2>1 DEF serviceOf
  <2>3. \A r \in Runs : ~Held(r)
    BY <1>6, ItemAssumption DEF CloseReturns, FullInv, CountInv, WorkerInv, Held
  <2>4. ASSUME NEW r \in Runs PROVE phaseOf(r) # "executing"
    <3>1. call[r] \in {"new", "refused", "blocked", "accepted"}
      BY <1>1 DEF FullInv, CountInv, TypeOK
    <3>2. Outcome(r) \in {"none", "recorded", "lost"}
      BY DEF Outcome
    <3>3. phaseOf(r) = PhaseFrom(call[r], Outcome(r), FALSE, Queued(r))
      <4>1. Held(r) = FALSE
        BY <2>3 DEF Held
      <4> QED
        BY <4>1, <1>1, PhaseIs DEF FullInv, CountInv
    <3> QED
      BY <3>1, <3>2, <3>3 DEF PhaseFrom
  <2> QED
    BY <1>1, <2>1, <2>2, <2>4, QuietStep, AdvanceFacts DEF Lifecycle!Return
<1> QED
  BY <1>3, <1>4, <1>5, <1>6 DEF CloseStep

\* Every step of the runner is a step of its runs' lives.
LEMMA LifeStep == FullInv /\ [Next]_vars => [Lifecycle!Next]_(Lifecycle!vars)
<1> SUFFICES ASSUME FullInv, [Next]_vars PROVE Lifecycle!Next \/ UNCHANGED Lifecycle!vars
  OBVIOUS
<1> USE DEF closeVars, childVars, recordVars, queueVars
<1>1. TypeOK /\ PlaceInv /\ TypeOK'
  BY CountStep DEF FullInv, CountInv
<1>2. ASSUME UNCHANGED <<call, rows, lost, job, queue, closer>>
      PROVE  UNCHANGED Lifecycle!vars
  <2>1. serviceOf' = serviceOf
    BY <1>2 DEF serviceOf
  <2> QED
    BY <1>1, <1>2, <2>1, QuietStep, StutterFacts
<1>3. CASE Start
  BY <1>2, <1>3 DEF Start
<1>4. ASSUME NEW r \in Runs, ChildExits(r)
      PROVE  UNCHANGED Lifecycle!vars
  BY <1>2, <1>4 DEF ChildExits
<1>5. ASSUME NEW r \in Runs, SubmitStep(r)
      PROVE  Lifecycle!Next \/ UNCHANGED Lifecycle!vars
  BY <1>1, <1>5, SubmitLife DEF Lifecycle!Next
<1>6. ASSUME NEW w \in Workers, WorkerStep(w)
      PROVE  Lifecycle!Next \/ UNCHANGED Lifecycle!vars
  <2>1. ASSUME NEW r \in Runs, Launch(w, r) \/ FailToStart(w, r) \/ Crash(w, r)
        PROVE  Lifecycle!Next
    BY <1>1, <2>1, TakeLife DEF Lifecycle!Next
  <2>2. CASE Stop(w)
    BY <1>1, <2>2, StopLife
  <2>3. CASE Finish(w) \/ CancelReaping(w) \/ FinishCancelled(w)
    BY <1>1, <2>3, ReleaseLife DEF Lifecycle!Next
  <2>4. CASE Communicated(w) \/ TimedOut(w) \/ CancelIdle(w) \/ CancelRunning(w)
             \/ CancelSwallowed(w)
    BY <1>2, <2>4 DEF Communicated, TimedOut, CancelIdle, CancelRunning, CancelSwallowed
  <2> QED
    BY <1>6, <2>1, <2>2, <2>3, <2>4 DEF WorkerStep
<1>7. CASE CloseStep
  BY <1>1, <1>7, CloseLife DEF Lifecycle!Next
<1>8. CASE UNCHANGED vars
  BY <1>2, <1>8 DEF vars
<1> QED
  BY <1>3, <1>4, <1>5, <1>6, <1>7, <1>8 DEF Next

-----------------------------------------------------------------------------
(* RunLifecycle: the refinement                                             *)

\* Every behaviour of the runner is a life of its runs as documented, for any
\* number of callers and workers, any bound of the queue and any scheduling.
THEOREM RunnerImplementsLifecycle == Spec => ImplementsLifecycle
<1>1. Init => Lifecycle!Init
  <2> SUFFICES ASSUME Init PROVE Lifecycle!Init
    OBVIOUS
  <2>1. TypeOK /\ \A r \in Runs : call[r] = "new"
    BY CountInit DEF Init, CountInv
  <2>2. \A r \in Runs : phaseOf(r) = "new"
    BY <2>1, PhaseIs DEF PhaseFrom
  <2>3. serviceOf = "open"
    BY DEF Init, serviceOf
  <2> QED
    BY <2>2, <2>3 DEF Lifecycle!Init
<1> QED
  BY <1>1, Invariants, LifeStep, PTL DEF Spec, ImplementsLifecycle, Lifecycle!Spec
=============================================================================

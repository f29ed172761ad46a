----------------------------- MODULE ApiProofs -----------------------------
(***************************************************************************)
(* Proofs about Api for every finite set of requests and keys, any stored  *)
(* tasks, names and scopes, and a bucket of any size.                      *)
(***************************************************************************)
EXTENDS Api, FiniteSetTheorems, TLAPS

-----------------------------------------------------------------------------
(* Facts about the data                                                     *)

\* What a call may ask for.
LEMMA CallFacts ==
    ASSUME NEW c \in Calls
    PROVE  /\ c.op \in {"create", "list", "get", "run", "delete", "metrics"}
           /\ c.key \in Keys \cup {NoKey}
           /\ c.op \in {"get", "run", "delete"} => c.task \in Tasks
           /\ c.op \in {"create", "list", "metrics"} => c.task = NoTask
           /\ c # NoCall
BY DEF Calls, CallOf, NoCall

\* What is answered, of whom.
LEMMA StatusFacts ==
    /\ SuccessOf["create"] = 201 /\ SuccessOf["run"] = 202 /\ SuccessOf["delete"] = 204
    /\ SuccessOf["list"] = 200 /\ SuccessOf["get"] = 200 /\ SuccessOf["metrics"] = 200
    /\ DOMAIN StatusOf =
         {"Unauthenticated", "Forbidden", "NotFound", "Conflict", "RateLimited", "NotReady",
          "Malformed", "Validation", "Authentication", "Database", "TaskRepo", "TypeError"}
    /\ \A e \in DOMAIN StatusOf : StatusOf[e] \in {401, 403, 404, 409, 429, 503, 422, 500}
    /\ "none" \notin DOMAIN StatusOf
BY DEF SuccessOf, StatusOf

\* Every answer is a status.
LEMMA StatusTypes ==
    /\ \A e \in DOMAIN StatusOf : StatusOf[e] \in Statuses
    /\ \A o \in {"create", "list", "get", "run", "delete", "metrics"} : SuccessOf[o] \in Statuses
BY DEF Statuses, SuccessOf

\* There are finitely many requests and buckets.
LEMMA CountFacts ==
    /\ \A B \in SUBSET Requests : IsFiniteSet(B) /\ Cardinality(B) \in Nat
    /\ \A B \in SUBSET Keys : Cardinality(B) \in Nat
BY TasksAssumption, KeysAssumption, FS_Subset, FS_CardinalityType

-----------------------------------------------------------------------------
(* The inductive invariant                                                  *)

\* The handler has succeeded; its transaction may still fail.
Through(q) == pc[q] \in {"working", "done"} \/ (pc[q] = "answered" /\ error[q] = "none")

\* Its transaction has been committed.
Committed(q) == pc[q] = "done" \/ (pc[q] = "answered" /\ error[q] = "none")

Gate == {"none", "NotFound", "TypeError", "Conflict", "TaskRepo", "NotReady", "Database"}
Outside == {"Malformed", "Authentication", "Unauthenticated", "RateLimited"}

\* What a request has, and who it is, at each stage.
StageInv ==
    \A q \in Requests :
        /\ pc[q] = "new" => call[q] = NoCall /\ past[q] = "nothing"
        /\ pc[q] # "new" => call[q] \in Calls
        /\ pc[q] # "answered" => error[q] = "none" /\ answer[q] = 0
        /\ pc[q] = "answered" =>
             answer[q] = IF error[q] = "none" THEN SuccessOf[call[q].op] ELSE StatusOf[error[q]]
        /\ \/ pc[q] \in {"admitted", "authorised", "working", "done"}
           \/ pc[q] = "answered" /\ error[q] \notin Outside
           => call[q].key \in Keys
        /\ \/ pc[q] \in {"authorised", "working", "done"}
           \/ pc[q] = "answered" /\ error[q] \in Gate
           => Satisfies(q)

\* A printed key is committed, and only printed keys are sent.
KeyInv ==
    /\ \A k \in printed : key[k] \in {"active", "revoked"}
    /\ \A q \in Requests : call[q].key \in Keys => call[q].key \in printed
    /\ PrintedKeyWorks

\* What is stored and queued is the effect of calls that succeeded.
EffectInv ==
    /\ \A q \in Requests :
         /\ q \in tasks => call[q].op = "create" /\ Committed(q)
         /\ q \in queued => /\ call[q].op = "run"
                            /\ Through(q) \/ error[q] = "Database"
         /\ call[q].op = "run" /\ Through(q) => q \in queued
         /\ call[q].op = "create" /\ Committed(q) => q \in tasks \/ Deleted(q)
         /\ call[q].op = "delete" /\ Committed(q) => call[q].task \notin tasks
         /\ call[q].task \in Requests => Committed(call[q].task)
    /\ \A t \in Stored : t \in tasks \/ Deleted(t)

\* What was answered when a request was sent is still so when it is answered.
PastInv ==
    \A q \in Requests :
        /\ past[q] = "gone" =>
             \E r \in Requests :
                call[r].op = "delete" /\ call[r].task = call[q].task /\ Committed(r)
        /\ past[q] = "there" =>
             \/ call[q].task \in tasks
             \/ \E r \in Requests : call[r].op = "delete" /\ call[r].task = call[q].task
        /\ call[q].op \in {"get", "run"} /\ Through(q) => past[q] # "gone"
        /\ error[q] \in {"NotFound", "TypeError"} /\ past[q] = "there" =>
             \E r \in Requests : call[r].op = "delete" /\ call[r].task = call[q].task

-----------------------------------------------------------------------------
(* Every step preserves it                                                  *)

\* The types.
LEMMA TypeNext ==
    TypeOK /\ StageInv /\ [Next]_vars => TypeOK'
<1> SUFFICES ASSUME TypeOK, StageInv, [Next]_vars PROVE TypeOK'
  OBVIOUS
<1> USE DEF TypeOK, StageInv, keyVars, runnerVars, requestVars, historyVars
<1>1. ASSUME NEW k \in Keys, KeyInsert(k)
      PROVE  TypeOK'
  BY <1>1, CallFacts, StatusFacts, StatusTypes, BurstAssumption DEF KeyInsert
<1>2. ASSUME NEW k \in Keys, KeyCommit(k)
      PROVE  TypeOK'
  BY <1>2, CallFacts, StatusFacts, StatusTypes, BurstAssumption DEF KeyCommit
<1>3. ASSUME NEW k \in Keys, KeyPrint(k)
      PROVE  TypeOK'
  BY <1>3, CallFacts, StatusFacts, StatusTypes, BurstAssumption DEF KeyPrint
<1>4. ASSUME NEW k \in Keys, Revoke(k)
      PROVE  TypeOK'
  BY <1>4, CallFacts, StatusFacts, StatusTypes, BurstAssumption DEF Revoke
<1>5. ASSUME Lifespan
      PROVE  TypeOK'
  BY <1>5, CallFacts, StatusFacts, StatusTypes, BurstAssumption DEF Lifespan, Advance
<1>6. ASSUME NEW q \in Requests, NEW c \in Calls, Send(q, c)
      PROVE  TypeOK'
  BY <1>6, CallFacts, StatusFacts, StatusTypes, BurstAssumption DEF Send, Fail, Go, Told
<1>7. ASSUME NEW q \in Requests, Admit(q)
      PROVE  TypeOK'
  BY <1>7, CallFacts, StatusFacts, StatusTypes, BurstAssumption DEF Admit, Active, Fail, Go
<1>8. ASSUME NEW q \in Requests, Authorise(q)
      PROVE  TypeOK'
  BY <1>8, CallFacts, StatusFacts, StatusTypes, BurstAssumption DEF Authorise, Fail, Go
<1>9. ASSUME NEW q \in Requests, Create(q)
      PROVE  TypeOK'
  BY <1>9, CallFacts, StatusFacts, StatusTypes, BurstAssumption
     DEF Create, Looks, Fail, Work, Go
<1>10. ASSUME NEW q \in Requests, List(q)
      PROVE  TypeOK'
  BY <1>10, CallFacts, StatusFacts, StatusTypes, BurstAssumption
     DEF List, Looks, Fail, Work, Go
<1>11. ASSUME NEW q \in Requests, Get(q)
      PROVE  TypeOK'
  BY <1>11, CallFacts, StatusFacts, StatusTypes, BurstAssumption
     DEF Get, Looks, Fail, Work, Go
<1>12. ASSUME NEW q \in Requests, Delete(q)
      PROVE  TypeOK'
  BY <1>12, CallFacts, StatusFacts, StatusTypes, BurstAssumption DEF Delete, Looks, Work, Go
<1>13. ASSUME NEW q \in Requests, Run(q)
      PROVE  TypeOK'
  BY <1>13, CallFacts, StatusFacts, StatusTypes, BurstAssumption
     DEF Run, Looks, Fail, Work, Go
<1>14. ASSUME NEW q \in Requests, Metrics(q)
      PROVE  TypeOK'
  BY <1>14, CallFacts, StatusFacts, StatusTypes, BurstAssumption, CountFacts
     DEF Metrics, Looks, Work, Go
<1>15. ASSUME NEW q \in Requests, RollBack(q)
      PROVE  TypeOK'
  BY <1>15, CallFacts, StatusFacts, StatusTypes, BurstAssumption DEF RollBack, Fail, Go
<1>16. ASSUME NEW q \in Requests, Commit(q)
      PROVE  TypeOK'
  BY <1>16, CallFacts, StatusFacts, StatusTypes, BurstAssumption DEF Commit, Go, Tasks
<1>17. ASSUME NEW q \in Requests, Respond(q)
      PROVE  TypeOK'
  BY <1>17, CallFacts, StatusFacts, StatusTypes, BurstAssumption DEF Respond, Go
<1>18. ASSUME UNCHANGED vars
      PROVE  TypeOK'
  BY <1>18 DEF vars
<1> QED
  BY <1>1, <1>2, <1>3, <1>4, <1>5, <1>6, <1>7, <1>8, <1>9, <1>10, <1>11, <1>12, <1>13,
     <1>14, <1>15, <1>16, <1>17, <1>18
     DEF Next, RequestStep, KeyStep, Handler

\* The stages of a request.
LEMMA StageNext ==
    TypeOK /\ TypeOK' /\ StageInv /\ [Next]_vars => StageInv'
<1> SUFFICES ASSUME TypeOK, TypeOK', StageInv, [Next]_vars PROVE StageInv'
  OBVIOUS
<1> USE DEF TypeOK, StageInv, Satisfies, Gate, Outside, keyVars, runnerVars, requestVars,
            historyVars
<1>1. ASSUME NEW k \in Keys, KeyInsert(k)
      PROVE  StageInv'
  BY <1>1, CallFacts, StatusFacts DEF KeyInsert
<1>2. ASSUME NEW k \in Keys, KeyCommit(k)
      PROVE  StageInv'
  BY <1>2, CallFacts, StatusFacts DEF KeyCommit
<1>3. ASSUME NEW k \in Keys, KeyPrint(k)
      PROVE  StageInv'
  BY <1>3, CallFacts, StatusFacts DEF KeyPrint
<1>4. ASSUME NEW k \in Keys, Revoke(k)
      PROVE  StageInv'
  BY <1>4, CallFacts, StatusFacts DEF Revoke
<1>5. ASSUME Lifespan
      PROVE  StageInv'
  BY <1>5, CallFacts, StatusFacts DEF Lifespan, Advance
<1>6. ASSUME NEW q \in Requests, NEW c \in Calls, Send(q, c)
      PROVE  StageInv'
  BY <1>6, CallFacts, StatusFacts DEF Send, Fail, Go
<1>7. ASSUME NEW q \in Requests, Admit(q)
      PROVE  StageInv'
  BY <1>7, CallFacts, StatusFacts DEF Admit, Active, Fail, Go
<1>8. ASSUME NEW q \in Requests, Authorise(q)
      PROVE  StageInv'
  BY <1>8, CallFacts, StatusFacts DEF Authorise, Fail, Go
<1>9. ASSUME NEW q \in Requests, Create(q)
      PROVE  StageInv'
  BY <1>9, CallFacts, StatusFacts DEF Create, Looks, Fail, Work, Go
<1>10. ASSUME NEW q \in Requests, List(q)
      PROVE  StageInv'
  BY <1>10, CallFacts, StatusFacts DEF List, Looks, Fail, Work, Go
<1>11. ASSUME NEW q \in Requests, Get(q)
      PROVE  StageInv'
  BY <1>11, CallFacts, StatusFacts DEF Get, Looks, Fail, Work, Go
<1>12. ASSUME NEW q \in Requests, Delete(q)
      PROVE  StageInv'
  BY <1>12, CallFacts, StatusFacts DEF Delete, Looks, Work, Go
<1>13. ASSUME NEW q \in Requests, Run(q)
      PROVE  StageInv'
  BY <1>13, CallFacts, StatusFacts DEF Run, Looks, Fail, Work, Go
<1>14. ASSUME NEW q \in Requests, Metrics(q)
      PROVE  StageInv'
  BY <1>14, CallFacts, StatusFacts DEF Metrics, Looks, Work, Go
<1>15. ASSUME NEW q \in Requests, RollBack(q)
      PROVE  StageInv'
  BY <1>15, CallFacts, StatusFacts DEF RollBack, Fail, Go
<1>16. ASSUME NEW q \in Requests, Commit(q)
      PROVE  StageInv'
  BY <1>16, CallFacts, StatusFacts DEF Commit, Go
<1>17. ASSUME NEW q \in Requests, Respond(q)
      PROVE  StageInv'
  BY <1>17, CallFacts, StatusFacts DEF Respond, Go
<1>18. ASSUME UNCHANGED vars
      PROVE  StageInv'
  BY <1>18 DEF vars
<1> QED
  BY <1>1, <1>2, <1>3, <1>4, <1>5, <1>6, <1>7, <1>8, <1>9, <1>10, <1>11, <1>12, <1>13,
     <1>14, <1>15, <1>16, <1>17, <1>18
     DEF Next, RequestStep, KeyStep, Handler

\* Keys and who knows them.
LEMMA KeyNext ==
    TypeOK /\ TypeOK' /\ StageInv /\ KeyInv /\ [Next]_vars => KeyInv'
<1> SUFFICES ASSUME TypeOK, TypeOK', StageInv, KeyInv, [Next]_vars PROVE KeyInv'
  OBVIOUS
<1> USE DEF TypeOK, StageInv, KeyInv, PrintedKeyWorks, keyVars, runnerVars, requestVars,
            historyVars
<1>1. ASSUME NEW k \in Keys, KeyInsert(k)
      PROVE  KeyInv'
  BY <1>1, KeysAssumption, CallFacts DEF KeyInsert
<1>2. ASSUME NEW k \in Keys, KeyCommit(k)
      PROVE  KeyInv'
  BY <1>2, KeysAssumption, CallFacts DEF KeyCommit
<1>3. ASSUME NEW k \in Keys, KeyPrint(k)
      PROVE  KeyInv'
  BY <1>3, KeysAssumption, CallFacts DEF KeyPrint
<1>4. ASSUME NEW k \in Keys, Revoke(k)
      PROVE  KeyInv'
  BY <1>4, KeysAssumption, CallFacts DEF Revoke
<1>5. ASSUME Lifespan
      PROVE  KeyInv'
  BY <1>5, KeysAssumption, CallFacts DEF Lifespan, Advance
<1>6. ASSUME NEW q \in Requests, NEW c \in Calls, Send(q, c)
      PROVE  KeyInv'
  BY <1>6, KeysAssumption, CallFacts DEF Send, Fail, Go
<1>7. ASSUME NEW q \in Requests, Admit(q)
      PROVE  KeyInv'
  BY <1>7, KeysAssumption, CallFacts DEF Admit, Active, Fail, Go
<1>8. ASSUME NEW q \in Requests, Authorise(q)
      PROVE  KeyInv'
  BY <1>8, KeysAssumption, CallFacts DEF Authorise, Fail, Go
<1>9. ASSUME NEW q \in Requests, Create(q)
      PROVE  KeyInv'
  BY <1>9, KeysAssumption, CallFacts DEF Create, Looks, Fail, Work, Go
<1>10. ASSUME NEW q \in Requests, List(q)
      PROVE  KeyInv'
  BY <1>10, KeysAssumption, CallFacts DEF List, Looks, Fail, Work, Go
<1>11. ASSUME NEW q \in Requests, Get(q)
      PROVE  KeyInv'
  BY <1>11, KeysAssumption, CallFacts DEF Get, Looks, Fail, Work, Go
<1>12. ASSUME NEW q \in Requests, Delete(q)
      PROVE  KeyInv'
  BY <1>12, KeysAssumption, CallFacts DEF Delete, Looks, Work, Go
<1>13. ASSUME NEW q \in Requests, Run(q)
      PROVE  KeyInv'
  BY <1>13, KeysAssumption, CallFacts DEF Run, Looks, Fail, Work, Go
<1>14. ASSUME NEW q \in Requests, Metrics(q)
      PROVE  KeyInv'
  BY <1>14, KeysAssumption, CallFacts DEF Metrics, Looks, Work, Go
<1>15. ASSUME NEW q \in Requests, RollBack(q)
      PROVE  KeyInv'
  BY <1>15, KeysAssumption, CallFacts DEF RollBack, Fail, Go
<1>16. ASSUME NEW q \in Requests, Commit(q)
      PROVE  KeyInv'
  BY <1>16, KeysAssumption, CallFacts DEF Commit, Go
<1>17. ASSUME NEW q \in Requests, Respond(q)
      PROVE  KeyInv'
  BY <1>17, KeysAssumption, CallFacts DEF Respond, Go
<1>18. ASSUME UNCHANGED vars
      PROVE  KeyInv'
  BY <1>18 DEF vars
<1> QED
  BY <1>1, <1>2, <1>3, <1>4, <1>5, <1>6, <1>7, <1>8, <1>9, <1>10, <1>11, <1>12, <1>13,
     <1>14, <1>15, <1>16, <1>17, <1>18
     DEF Next, RequestStep, KeyStep, Handler

\* Effects and the calls that had them.
LEMMA EffectNext ==
    TypeOK /\ TypeOK' /\ StageInv /\ StageInv' /\ EffectInv /\ [Next]_vars => EffectInv'
<1> SUFFICES ASSUME TypeOK, TypeOK', StageInv, StageInv', EffectInv, [Next]_vars
             PROVE  EffectInv'
  OBVIOUS
<1> USE DEF TypeOK, StageInv, EffectInv, Through, Committed, Deleted, Tasks, keyVars,
            runnerVars, requestVars, historyVars
<1>1. ASSUME NEW k \in Keys, KeyInsert(k)
      PROVE  EffectInv'
  BY <1>1, TasksAssumption, CallFacts, StatusFacts DEF KeyInsert
<1>2. ASSUME NEW k \in Keys, KeyCommit(k)
      PROVE  EffectInv'
  BY <1>2, TasksAssumption, CallFacts, StatusFacts DEF KeyCommit
<1>3. ASSUME NEW k \in Keys, KeyPrint(k)
      PROVE  EffectInv'
  BY <1>3, TasksAssumption, CallFacts, StatusFacts DEF KeyPrint
<1>4. ASSUME NEW k \in Keys, Revoke(k)
      PROVE  EffectInv'
  BY <1>4, TasksAssumption, CallFacts, StatusFacts DEF Revoke
<1>5. ASSUME Lifespan
      PROVE  EffectInv'
  BY <1>5, TasksAssumption, CallFacts, StatusFacts DEF Lifespan, Advance
<1>6. ASSUME NEW q \in Requests, NEW c \in Calls, Send(q, c)
      PROVE  EffectInv'
  <2>1. pc[q] = "new" /\ call[q] = NoCall /\ call' = [call EXCEPT ![q] = c]
    BY <1>6, StatusFacts DEF Send, Fail, Go
  <2>2. \A r \in Requests \ {q} :
          /\ call'[r] = call[r] /\ pc'[r] = pc[r] /\ past'[r] = past[r]
          /\ error'[r] = error[r] /\ answer'[r] = answer[r]
    BY <1>6, StatusFacts DEF Send, Fail, Go
  <2>3. ~Through(q)' /\ ~Committed(q)' /\ ~Through(q) /\ ~Committed(q)
    BY <1>6, StatusFacts DEF Send, Fail, Go
  <2>4. \A r \in Requests : Committed(r)' = Committed(r) /\ Through(r)' = Through(r)
    BY <2>2, <2>3
  <2>5. NoCall.op = "none" /\ NoCall.task = NoTask
    BY DEF NoCall
  <2>6. \A r \in Requests : answer[r] \in {201, 204} => Committed(r)
    BY StatusFacts
  <2>7. c.task \in Requests => Committed(c.task)
    <3>1. CASE c.task \in tasks
      BY <3>1
    <3>2. CASE Told(c.task) # "nothing"
      BY <2>6, <3>2 DEF Told
    <3> QED
      BY <1>6, <3>1, <3>2, TasksAssumption DEF Send
  <2>8. \A t \in Tasks : Deleted(t) => Deleted(t)'
    BY <2>1, <2>2, <2>5 DEF Deleted
  <2>9. tasks' = tasks /\ queued' = queued
    BY <1>6, StatusFacts DEF Send, Fail, Go
  <2>10. q \notin tasks /\ q \notin queued /\ call'[q] = c
    BY <2>1, <2>5
  <2>11. \A t \in Stored : t \in tasks' \/ Deleted(t)'
    BY <2>8, <2>9
  <2> HIDE DEF Deleted, Committed, Through
  <2> QED
    BY <2>2, <2>3, <2>4, <2>7, <2>8, <2>9, <2>10, <2>11, TasksAssumption
<1>7. ASSUME NEW q \in Requests, Admit(q)
      PROVE  EffectInv'
  BY <1>7, TasksAssumption, CallFacts, StatusFacts DEF Admit, Active, Fail, Go
<1>8. ASSUME NEW q \in Requests, Authorise(q)
      PROVE  EffectInv'
  BY <1>8, TasksAssumption, CallFacts, StatusFacts DEF Authorise, Fail, Go
<1>9. ASSUME NEW q \in Requests, Create(q)
      PROVE  EffectInv'
  BY <1>9, TasksAssumption, CallFacts, StatusFacts DEF Create, Looks, Fail, Work, Go
<1>10. ASSUME NEW q \in Requests, List(q)
      PROVE  EffectInv'
  BY <1>10, TasksAssumption, CallFacts, StatusFacts DEF List, Looks, Fail, Work, Go
<1>11. ASSUME NEW q \in Requests, Get(q)
      PROVE  EffectInv'
  BY <1>11, TasksAssumption, CallFacts, StatusFacts DEF Get, Looks, Fail, Work, Go
<1>12. ASSUME NEW q \in Requests, Delete(q)
      PROVE  EffectInv'
  BY <1>12, TasksAssumption, CallFacts, StatusFacts DEF Delete, Looks, Work, Go
<1>13. ASSUME NEW q \in Requests, Run(q)
      PROVE  EffectInv'
  BY <1>13, TasksAssumption, CallFacts, StatusFacts DEF Run, Looks, Fail, Work, Go
<1>14. ASSUME NEW q \in Requests, Metrics(q)
      PROVE  EffectInv'
  BY <1>14, TasksAssumption, CallFacts, StatusFacts DEF Metrics, Looks, Work, Go
<1>15. ASSUME NEW q \in Requests, RollBack(q)
      PROVE  EffectInv'
  BY <1>15, TasksAssumption, CallFacts, StatusFacts DEF RollBack, Fail, Go
<1>16. ASSUME NEW q \in Requests, Commit(q)
      PROVE  EffectInv'
  BY <1>16, TasksAssumption, CallFacts, StatusFacts DEF Commit, Go
<1>17. ASSUME NEW q \in Requests, Respond(q)
      PROVE  EffectInv'
  BY <1>17, TasksAssumption, CallFacts, StatusFacts DEF Respond, Go
<1>18. ASSUME UNCHANGED vars
      PROVE  EffectInv'
  BY <1>18 DEF vars
<1> QED
  BY <1>1, <1>2, <1>3, <1>4, <1>5, <1>6, <1>7, <1>8, <1>9, <1>10, <1>11, <1>12, <1>13,
     <1>14, <1>15, <1>16, <1>17, <1>18
     DEF Next, RequestStep, KeyStep, Handler

\* Earlier answers and the ones that follow them.
LEMMA PastNext ==
    TypeOK /\ TypeOK' /\ StageInv /\ StageInv' /\ EffectInv /\ PastInv /\ [Next]_vars => PastInv'
<1> SUFFICES ASSUME TypeOK, TypeOK', StageInv, StageInv', EffectInv, PastInv, [Next]_vars
             PROVE  PastInv'
  OBVIOUS
<1> USE DEF TypeOK, StageInv, EffectInv, PastInv, Through, Committed, Deleted, Tasks,
            keyVars, runnerVars, requestVars, historyVars
<1>1. ASSUME NEW k \in Keys, KeyInsert(k)
      PROVE  PastInv'
  BY <1>1, TasksAssumption, CallFacts, StatusFacts DEF KeyInsert
<1>2. ASSUME NEW k \in Keys, KeyCommit(k)
      PROVE  PastInv'
  BY <1>2, TasksAssumption, CallFacts, StatusFacts DEF KeyCommit
<1>3. ASSUME NEW k \in Keys, KeyPrint(k)
      PROVE  PastInv'
  BY <1>3, TasksAssumption, CallFacts, StatusFacts DEF KeyPrint
<1>4. ASSUME NEW k \in Keys, Revoke(k)
      PROVE  PastInv'
  BY <1>4, TasksAssumption, CallFacts, StatusFacts DEF Revoke
<1>5. ASSUME Lifespan
      PROVE  PastInv'
  BY <1>5, TasksAssumption, CallFacts, StatusFacts DEF Lifespan, Advance
<1>6. ASSUME NEW q \in Requests, NEW c \in Calls, Send(q, c)
      PROVE  PastInv'
  <2>1. pc[q] = "new" /\ call[q] = NoCall /\ call' = [call EXCEPT ![q] = c]
    BY <1>6, StatusFacts DEF Send, Fail, Go
  <2>2. \A r \in Requests \ {q} :
          /\ call'[r] = call[r] /\ pc'[r] = pc[r] /\ past'[r] = past[r]
          /\ error'[r] = error[r] /\ answer'[r] = answer[r]
    BY <1>6, StatusFacts DEF Send, Fail, Go
  <2>3. ~Through(q)' /\ ~Committed(q)' /\ ~Through(q) /\ ~Committed(q)
    BY <1>6, StatusFacts DEF Send, Fail, Go
  <2>4. \A r \in Requests : Committed(r)' = Committed(r) /\ Through(r)' = Through(r)
    BY <2>2, <2>3
  <2>5. NoCall.op = "none" /\ NoCall.task = NoTask
    BY DEF NoCall
  <2>6. \A r \in Requests : answer[r] \in {201, 204} => Committed(r)
    BY StatusFacts
  <2>7. past' = [past EXCEPT ![q] = Told(c.task)] /\ tasks' = tasks
    BY <1>6, StatusFacts DEF Send, Fail, Go
  <2>8. error'[q] \notin {"NotFound", "TypeError"}
    BY <1>6, StatusFacts DEF Send, Fail, Go
  <2>9. Told(c.task) = "gone" =>
          \E r \in Requests \ {q} : call[r].op = "delete" /\ call[r].task = c.task /\ Committed(r)
    BY <2>1, <2>5, <2>6 DEF Told
  <2>10. Told(c.task) = "there" =>
           \/ c.task \in tasks
           \/ \E r \in Requests \ {q} : call[r].op = "delete" /\ call[r].task = c.task
    <3>1. SUFFICES ASSUME Told(c.task) = "there"
                   PROVE  c.task \in tasks \/ Deleted(c.task)
      BY <2>1, <2>5 DEF Deleted
    <3>2. CASE c.task \in Stored
      BY <3>2
    <3>3. CASE c.task \in Requests /\ answer[c.task] = 201
      <4>1. Committed(c.task) /\ call[c.task].op = "create"
        <5>1. Committed(c.task) /\ pc[c.task] = "answered" /\ error[c.task] = "none"
          BY <3>3, <2>6, StatusFacts
        <5>2. call[c.task] \in Calls /\ answer[c.task] = SuccessOf[call[c.task].op]
          BY <3>3, <5>1
        <5>3. call[c.task].op \in {"create", "list", "get", "run", "delete", "metrics"}
          BY <5>2, CallFacts
        <5> QED
          BY <3>3, <5>1, <5>2, <5>3, StatusFacts
      <4> QED
        BY <3>3, <4>1
    <3> QED
      BY <3>1, <3>2, <3>3 DEF Told
  <2>11. \A r \in Requests \ {q} : call[r].op = "delete" => call'[r] = call[r]
    BY <2>2
  <2>12. call'[q] = c /\ past'[q] = Told(c.task)
    BY <2>1, <2>7
  <2> HIDE DEF Deleted, Committed, Through
  <2> QED
    BY <2>1, <2>2, <2>3, <2>4, <2>5, <2>7, <2>8, <2>9, <2>10, <2>12
<1>7. ASSUME NEW q \in Requests, Admit(q)
      PROVE  PastInv'
  BY <1>7, TasksAssumption, CallFacts, StatusFacts DEF Admit, Active, Fail, Go
<1>8. ASSUME NEW q \in Requests, Authorise(q)
      PROVE  PastInv'
  BY <1>8, TasksAssumption, CallFacts, StatusFacts DEF Authorise, Fail, Go
<1>9. ASSUME NEW q \in Requests, Create(q)
      PROVE  PastInv'
  BY <1>9, TasksAssumption, CallFacts, StatusFacts DEF Create, Looks, Fail, Work, Go
<1>10. ASSUME NEW q \in Requests, List(q)
      PROVE  PastInv'
  BY <1>10, TasksAssumption, CallFacts, StatusFacts DEF List, Looks, Fail, Work, Go
<1>11. ASSUME NEW q \in Requests, Get(q)
      PROVE  PastInv'
  BY <1>11, TasksAssumption, CallFacts, StatusFacts DEF Get, Looks, Fail, Work, Go
<1>12. ASSUME NEW q \in Requests, Delete(q)
      PROVE  PastInv'
  BY <1>12, TasksAssumption, CallFacts, StatusFacts DEF Delete, Looks, Work, Go
<1>13. ASSUME NEW q \in Requests, Run(q)
      PROVE  PastInv'
  BY <1>13, TasksAssumption, CallFacts, StatusFacts DEF Run, Looks, Fail, Work, Go
<1>14. ASSUME NEW q \in Requests, Metrics(q)
      PROVE  PastInv'
  BY <1>14, TasksAssumption, CallFacts, StatusFacts DEF Metrics, Looks, Work, Go
<1>15. ASSUME NEW q \in Requests, RollBack(q)
      PROVE  PastInv'
  BY <1>15, TasksAssumption, CallFacts, StatusFacts DEF RollBack, Fail, Go
<1>16. ASSUME NEW q \in Requests, Commit(q)
      PROVE  PastInv'
  BY <1>16, TasksAssumption, CallFacts, StatusFacts DEF Commit, Go
<1>17. ASSUME NEW q \in Requests, Respond(q)
      PROVE  PastInv'
  BY <1>17, TasksAssumption, CallFacts, StatusFacts DEF Respond, Go
<1>18. ASSUME UNCHANGED vars
      PROVE  PastInv'
  BY <1>18 DEF vars
<1> QED
  BY <1>1, <1>2, <1>3, <1>4, <1>5, <1>6, <1>7, <1>8, <1>9, <1>10, <1>11, <1>12, <1>13,
     <1>14, <1>15, <1>16, <1>17, <1>18
     DEF Next, RequestStep, KeyStep, Handler

-----------------------------------------------------------------------------
(* Charges                                                                  *)

\* Every key that is not revoked has paid one token for each request that passed.
LEMMA ChargeNext ==
    TypeOK /\ TypeOK' /\ StageInv /\ StageInv' /\ ChargedOnce /\ [Next]_vars => ChargedOnce'
<1> SUFFICES ASSUME TypeOK, TypeOK', StageInv, StageInv', ChargedOnce, [Next]_vars
             PROVE  ChargedOnce'
  OBVIOUS
<1> USE DEF keyVars, runnerVars, requestVars, historyVars
<1>1. ASSUME NEW k \in Keys, KeyInsert(k)
      PROVE  ChargedOnce'
  <2>1. ASSUME NEW j \in Keys PROVE Passed(j)' = Passed(j)
    BY <1>1, CallFacts DEF KeyInsert, Passed, StageInv, TypeOK, Outside
  <2> QED
    BY <1>1, <2>1 DEF ChargedOnce, TypeOK, KeyInsert
<1>2. ASSUME NEW k \in Keys, KeyCommit(k)
      PROVE  ChargedOnce'
  <2>1. ASSUME NEW j \in Keys PROVE Passed(j)' = Passed(j)
    BY <1>2, CallFacts DEF KeyCommit, Passed, StageInv, TypeOK, Outside
  <2> QED
    BY <1>2, <2>1 DEF ChargedOnce, TypeOK, KeyCommit
<1>3. ASSUME NEW k \in Keys, KeyPrint(k)
      PROVE  ChargedOnce'
  <2>1. ASSUME NEW j \in Keys PROVE Passed(j)' = Passed(j)
    BY <1>3, CallFacts DEF KeyPrint, Passed, StageInv, TypeOK, Outside
  <2> QED
    BY <1>3, <2>1 DEF ChargedOnce, TypeOK, KeyPrint
<1>4. ASSUME NEW k \in Keys, Revoke(k)
      PROVE  ChargedOnce'
  <2>1. ASSUME NEW j \in Keys PROVE Passed(j)' = Passed(j)
    BY <1>4, CallFacts DEF Revoke, Passed, StageInv, TypeOK, Outside
  <2> QED
    BY <1>4, <2>1 DEF ChargedOnce, TypeOK, Revoke
<1>5. ASSUME Lifespan
      PROVE  ChargedOnce'
  <2>1. ASSUME NEW j \in Keys PROVE Passed(j)' = Passed(j)
    BY <1>5, CallFacts DEF Lifespan, Advance, Passed, StageInv, TypeOK, Outside
  <2> QED
    BY <1>5, <2>1 DEF ChargedOnce, TypeOK, Lifespan, Advance
<1>6. ASSUME NEW q \in Requests, NEW c \in Calls, Send(q, c)
      PROVE  ChargedOnce'
  <2>1. ASSUME NEW j \in Keys PROVE Passed(j)' = Passed(j)
    BY <1>6, CallFacts DEF Send, Fail, Go, Passed, StageInv, TypeOK, Outside
  <2> QED
    BY <1>6, <2>1 DEF ChargedOnce, TypeOK, Send, Fail, Go
<1>7. ASSUME NEW q \in Requests, Admit(q)
      PROVE  ChargedOnce'
  <2> DEFINE k == call[q].key
  <2>1. ASSUME NEW j \in Keys, ~(j = k /\ pc'[q] = "admitted")
        PROVE  Passed(j)' = Passed(j)
    BY <1>7, <2>1 DEF Admit, Active, Fail, Go, Passed, StageInv, TypeOK
  <2>2. CASE pc'[q] = "admitted"
    <3>1. /\ k \in Keys /\ tokens[k] > 0 /\ tokens' = [tokens EXCEPT ![k] = @ - 1]
          /\ key' = key /\ call' = call /\ error' = error /\ pc' = [pc EXCEPT ![q] = "admitted"]
          /\ pc[q] = "sent"
      BY <1>7, <2>2 DEF Admit, Active, Fail, Go, TypeOK
    <3>2. Passed(k)' = Passed(k) \cup {q} /\ q \notin Passed(k)
      BY <3>1 DEF Passed, StageInv, TypeOK
    <3>3. IsFiniteSet(Passed(k)) /\ Cardinality(Passed(k)) \in Nat
      BY CountFacts DEF Passed
    <3>4. Cardinality(Passed(k) \cup {q}) = Cardinality(Passed(k)) + 1
      BY <3>2, <3>3, FS_AddElement
    <3>5. ASSUME NEW j \in Keys, key'[j] # "revoked"
          PROVE  tokens'[j] + Cardinality(Passed(j)') = Burst
      <4>1. tokens[j] + Cardinality(Passed(j)) = Burst
        BY <3>1, <3>5 DEF ChargedOnce
      <4>2. CASE j = k
        BY <4>1, <4>2, <3>1, <3>2, <3>3, <3>4, BurstAssumption DEF TypeOK
      <4>3. CASE j # k
        BY <4>1, <4>3, <3>1, <2>1 DEF TypeOK
      <4> QED
        BY <4>2, <4>3
    <3> QED
      BY <3>5 DEF ChargedOnce
  <2>3. CASE pc'[q] # "admitted"
    <3>1. tokens' = tokens /\ key' = key
      BY <1>7, <2>3 DEF Admit, Active, Fail, Go, TypeOK
    <3> QED
      BY <2>1, <2>3, <3>1 DEF ChargedOnce
  <2> QED
    BY <2>2, <2>3
<1>8. ASSUME NEW q \in Requests, Authorise(q)
      PROVE  ChargedOnce'
  <2>1. ASSUME NEW j \in Keys PROVE Passed(j)' = Passed(j)
    BY <1>8, CallFacts DEF Authorise, Fail, Go, Passed, StageInv, TypeOK, Outside
  <2> QED
    BY <1>8, <2>1 DEF ChargedOnce, TypeOK, Authorise, Fail, Go
<1>9. ASSUME NEW q \in Requests, Create(q)
      PROVE  ChargedOnce'
  <2>1. ASSUME NEW j \in Keys PROVE Passed(j)' = Passed(j)
    BY <1>9, CallFacts DEF Create, Looks, Fail, Work, Go, Passed, StageInv, TypeOK, Outside
  <2> QED
    BY <1>9, <2>1 DEF ChargedOnce, TypeOK, Create, Looks, Fail, Work, Go
<1>10. ASSUME NEW q \in Requests, List(q)
      PROVE  ChargedOnce'
  <2>1. ASSUME NEW j \in Keys PROVE Passed(j)' = Passed(j)
    BY <1>10, CallFacts DEF List, Looks, Fail, Work, Go, Passed, StageInv, TypeOK, Outside
  <2> QED
    BY <1>10, <2>1 DEF ChargedOnce, TypeOK, List, Looks, Fail, Work, Go
<1>11. ASSUME NEW q \in Requests, Get(q)
      PROVE  ChargedOnce'
  <2>1. ASSUME NEW j \in Keys PROVE Passed(j)' = Passed(j)
    BY <1>11, CallFacts DEF Get, Looks, Fail, Work, Go, Passed, StageInv, TypeOK, Outside
  <2> QED
    BY <1>11, <2>1 DEF ChargedOnce, TypeOK, Get, Looks, Fail, Work, Go
<1>12. ASSUME NEW q \in Requests, Delete(q)
      PROVE  ChargedOnce'
  <2>1. ASSUME NEW j \in Keys PROVE Passed(j)' = Passed(j)
    BY <1>12, CallFacts DEF Delete, Looks, Work, Go, Passed, StageInv, TypeOK, Outside
  <2> QED
    BY <1>12, <2>1 DEF ChargedOnce, TypeOK, Delete, Looks, Work, Go
<1>13. ASSUME NEW q \in Requests, Run(q)
      PROVE  ChargedOnce'
  <2>1. ASSUME NEW j \in Keys PROVE Passed(j)' = Passed(j)
    BY <1>13, CallFacts DEF Run, Looks, Fail, Work, Go, Passed, StageInv, TypeOK, Outside
  <2> QED
    BY <1>13, <2>1 DEF ChargedOnce, TypeOK, Run, Looks, Fail, Work, Go
<1>14. ASSUME NEW q \in Requests, Metrics(q)
      PROVE  ChargedOnce'
  <2>1. ASSUME NEW j \in Keys PROVE Passed(j)' = Passed(j)
    BY <1>14, CallFacts DEF Metrics, Looks, Work, Go, Passed, StageInv, TypeOK, Outside
  <2> QED
    BY <1>14, <2>1 DEF ChargedOnce, TypeOK, Metrics, Looks, Work, Go
<1>15. ASSUME NEW q \in Requests, RollBack(q)
      PROVE  ChargedOnce'
  <2>1. ASSUME NEW j \in Keys PROVE Passed(j)' = Passed(j)
    BY <1>15, CallFacts DEF RollBack, Fail, Go, Passed, StageInv, TypeOK, Outside
  <2> QED
    BY <1>15, <2>1 DEF ChargedOnce, TypeOK, RollBack, Fail, Go
<1>16. ASSUME NEW q \in Requests, Commit(q)
      PROVE  ChargedOnce'
  <2>1. ASSUME NEW j \in Keys PROVE Passed(j)' = Passed(j)
    BY <1>16, CallFacts DEF Commit, Go, Passed, StageInv, TypeOK, Outside
  <2> QED
    BY <1>16, <2>1 DEF ChargedOnce, TypeOK, Commit, Go
<1>17. ASSUME NEW q \in Requests, Respond(q)
      PROVE  ChargedOnce'
  <2>1. ASSUME NEW j \in Keys PROVE Passed(j)' = Passed(j)
    BY <1>17, CallFacts DEF Respond, Go, Passed, StageInv, TypeOK, Outside
  <2> QED
    BY <1>17, <2>1 DEF ChargedOnce, TypeOK, Respond, Go
<1>18. ASSUME UNCHANGED vars
      PROVE  ChargedOnce'
  BY <1>18 DEF vars, ChargedOnce, Passed
<1> QED
  BY <1>1, <1>2, <1>3, <1>4, <1>5, <1>6, <1>7, <1>8, <1>9, <1>10, <1>11, <1>12, <1>13,
     <1>14, <1>15, <1>16, <1>17, <1>18
     DEF Next, RequestStep, KeyStep, Handler

-----------------------------------------------------------------------------
(* Theorems                                                                 *)

IInv == TypeOK /\ StageInv /\ KeyInv /\ EffectInv /\ PastInv /\ ChargedOnce

\* In the initial state nothing was sent or stored by a request.
LEMMA InitIInv == Init => IInv
<1> SUFFICES ASSUME Init PROVE IInv
  OBVIOUS
<1> USE KeysAssumption, TasksAssumption, BurstAssumption, CallFacts, StatusFacts DEF Init
<1>1. NoCall.op = "none" /\ NoCall.key = NoKey /\ NoCall.task = NoTask
  BY DEF NoCall
<1>2. TypeOK
  BY DEF TypeOK, Tasks
<1>3. StageInv
  BY DEF StageInv, Outside, Gate
<1>4. KeyInv
  BY <1>1 DEF KeyInv, PrintedKeyWorks
<1>5. EffectInv
  BY <1>1 DEF EffectInv, Committed, Through, Deleted
<1>6. PastInv
  BY <1>1 DEF PastInv
<1>7. ChargedOnce
  <2>1. \A k \in Keys : Passed(k) = {}
    BY DEF Passed
  <2>2. Cardinality({}) = 0
    BY FS_EmptySet
  <2>3. SUFFICES ASSUME NEW k \in Keys PROVE tokens[k] + Cardinality(Passed(k)) = Burst
    BY DEF ChargedOnce
  <2>4. Passed(k) = {}
    BY <2>1
  <2>5. Cardinality(Passed(k)) = 0
    BY ONLY <2>2, <2>4
  <2>6. tokens[k] = Burst
    OBVIOUS
  <2> QED
    BY <2>5, <2>6
<1> QED
  BY <1>2, <1>3, <1>4, <1>5, <1>6, <1>7 DEF IInv

\* The inductive invariant of the API, which the theorems below are read off from.
THEOREM Invariants == Spec => []IInv
<1>1. IInv /\ [Next]_vars => IInv'
  BY TypeNext, StageNext, KeyNext, EffectNext, PastNext, ChargeNext DEF IInv
<1> QED
  BY InitIInv, <1>1, PTL DEF Spec

\* Every reachable state is well typed.
THEOREM TypeCorrect == Spec => []TypeOK
<1>1. IInv => TypeOK
  BY DEF IInv
<1> QED
  BY Invariants, <1>1, PTL

\* Nothing that depends on what is stored is answered to a key without the scope,
\* nor has such a request an effect.
THEOREM NoLeak == Spec => []ExistenceHidden
<1>1. IInv => ExistenceHidden
  <2> SUFFICES ASSUME IInv, NEW q \in Requests,
                      \/ error[q] \in Gate \ {"none"}
                      \/ answer[q] \in {200, 201, 202, 204}
                      \/ q \in tasks \cup queued
               PROVE  call[q].key \in Keys /\ Satisfies(q)
    BY DEF ExistenceHidden, Gate
  <2>1. CASE error[q] \in Gate \ {"none"}
    BY <2>1, StatusFacts DEF IInv, TypeOK, StageInv, Gate, Outside
  <2>2. CASE answer[q] \in {200, 201, 202, 204}
    BY <2>2, StatusFacts DEF IInv, TypeOK, StageInv, Gate, Outside
  <2>3. CASE q \in tasks \cup queued
    BY <2>3 DEF IInv, TypeOK, StageInv, EffectInv, Committed, Through, Gate, Outside
  <2> QED
    BY <2>1, <2>2, <2>3
<1> QED
  BY Invariants, <1>1, PTL

\* A printed key is refused only after it was revoked.
THEOREM PrintedIsUsable == Spec => []PrintedKeyWorks
<1>1. IInv => PrintedKeyWorks
  BY DEF IInv, KeyInv
<1> QED
  BY Invariants, <1>1, PTL

\* A request costs its key one token, whatever becomes of it.
THEOREM OneTokenEach == Spec => []ChargedOnce
<1>1. IInv => ChargedOnce
  BY DEF IInv
<1> QED
  BY Invariants, <1>1, PTL

\* No answer contradicts one that was given before the request was sent.
THEOREM AnswersStand == Spec => []AnswersHold
<1>1. IInv => AnswersHold
  <2> SUFFICES ASSUME IInv, NEW q \in Requests
               PROVE  /\ answer[q] \in {200, 202} => past[q] # "gone"
                      /\ error[q] \in {"NotFound", "TypeError"} /\ past[q] = "there" =>
                           \E r \in Requests :
                              call[r].op = "delete" /\ call[r].task = call[q].task
    BY DEF AnswersHold
  <2>1. ASSUME answer[q] \in {200, 202}, past[q] = "gone"
        PROVE  FALSE
    <3>1. /\ pc[q] = "answered" /\ error[q] = "none" /\ call[q] \in Calls
          /\ answer[q] = SuccessOf[call[q].op]
      BY <2>1, StatusFacts DEF IInv, TypeOK, StageInv
    <3>2. call[q].task \in Tasks
      BY <2>1, CallFacts DEF IInv, PastInv, StageInv, NoCall
    <3>3. call[q].op \in {"get", "run", "delete"}
      BY <3>1, <3>2, CallFacts, TasksAssumption DEF Tasks
    <3> QED
      BY <2>1, <3>1, <3>3, StatusFacts DEF IInv, PastInv, Through
  <2> QED
    BY <2>1 DEF IInv, PastInv
<1> QED
  BY Invariants, <1>1, PTL

\* A create, a delete and an accepted run have their effect exactly when they are
\* answered with success.
THEOREM AnswersAreTrue == Spec => []EffectMatchesAnswer
<1>1. IInv => EffectMatchesAnswer
  <2> SUFFICES ASSUME IInv PROVE EffectMatchesAnswer
    OBVIOUS
  <2> USE StatusFacts, CallFacts DEF IInv, StageInv, EffectInv, Committed, Through
  <2>1. ASSUME NEW q \in Requests, answer[q] \in {201, 202, 204}
        PROVE  /\ pc[q] = "answered" /\ error[q] = "none"
               /\ answer[q] = 201 => call[q].op = "create"
               /\ answer[q] = 202 => call[q].op = "run"
               /\ answer[q] = 204 => call[q].op = "delete"
    <3>1. /\ pc[q] = "answered" /\ error[q] = "none" /\ call[q] \in Calls
          /\ answer[q] = SuccessOf[call[q].op]
      BY <2>1 DEF TypeOK
    <3>2. call[q].op \in {"create", "list", "get", "run", "delete", "metrics"}
      BY <3>1
    <3> QED
      BY <2>1, <3>1, <3>2
  <2>2. ASSUME NEW q \in Requests
        PROVE  /\ q \in tasks => answer[q] \in {0, 201}
               /\ answer[q] = 201 => q \in tasks \/ Deleted(q)
               /\ answer[q] = 202 => q \in queued
               /\ q \in queued => answer[q] \in {0, 202} \/ error[q] = "Database"
               /\ answer[q] = 204 => call[q].task \notin tasks
    BY <2>1
  <2>3. \A t \in Stored \ tasks : Deleted(t)
    OBVIOUS
  <2> QED
    BY <2>2, <2>3 DEF EffectMatchesAnswer
<1> QED
  BY Invariants, <1>1, PTL
=============================================================================

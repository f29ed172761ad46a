------------------------- MODULE EngineConfigProofs -------------------------
(***************************************************************************)
(* Proofs about EngineConfig for every set of threads, engines and URLs    *)
(* and any number of calls.                                                *)
(***************************************************************************)
EXTENDS EngineConfig, TLAPS

-----------------------------------------------------------------------------
(* The inductive invariant                                                  *)

\* What a thread has resolved, built or been given when it is at a place.
PlaceInv ==
    /\ engine \in Built \cup {None}
    /\ \A t \in Threads :
         /\ pc[t] = "acquireSet" => entry[t] = "set" /\ mine[t] \in Built
         /\ pc[t] \in {"acquire", "build"} =>
              entry[t] \in {"engine", "maker", "configure"} /\ want[t] \in Urls
         /\ pc[t] = "resolve" => entry[t] \in {"engine", "maker"}
         /\ pc[t] = "publish" =>
              /\ mine[t] \in Built /\ engine = mine[t]
              /\ entry[t] = "set" \/ want[t] = urlOf[mine[t]]
         /\ pc[t] = "clear" => engine = None

\* The globals belong together until a thread is between two assignments to them.
Together ==
    /\ maker = engine
    /\ IF engine = None
       THEN urlInUse = None
       ELSE urlInUse \in {urlOf[engine], Shown(urlOf[engine])}

AgreeInv == (\A t \in Threads : pc[t] \notin {"publish", "clear"}) => Together

\* A thread is about to replace an engine because it has another URL, or a masked one.
CauseInv ==
    \A t \in Threads : pc[t] = "build" /\ engine # None =>
        want[t] # urlOf[engine] \/ urlOf[engine] \in Secret

\* The engine that is about to be replaced is disposed already.
DisposedInv ==
    /\ \A e \in Built :
         \/ e \in disposed \cup {engine}
         \/ \E t \in Threads : pc[t] = "acquireSet" /\ mine[t] = e
    /\ \A t \in Threads : pc[t] = "build" => engine \in disposed \cup {None}

\* A thread that has seen the global set finds it gone only after a reset.
SeenInv ==
    /\ NoneOnlyAfterReset
    /\ \A t \in Threads :
         /\ pc[t] = "engine" /\ engine = None => t \in reset
         /\ pc[t] \in {"check", "maker"} /\ maker = None => t \in reset

-----------------------------------------------------------------------------
(* Every step preserves it                                                  *)

\* The types, and who holds the lock.
LEMMA TypeNext ==
    TypeOK /\ PlaceInv /\ [Next]_vars => TypeOK'
<1> SUFFICES ASSUME TypeOK, PlaceInv, [Next]_vars PROVE TypeOK'
  OBVIOUS
<1> USE DEF TypeOK, PlaceInv, Built, Holding, Places, globals, locals
<1>1. ASSUME NEW t \in Threads, GetEngine(t)
      PROVE  TypeOK'
  BY <1>1, EngineAssumption, UrlAssumption, CallsAssumption DEF GetEngine, Call, Go
<1>2. ASSUME NEW t \in Threads, ReturnEngine(t)
      PROVE  TypeOK'
  BY <1>2, EngineAssumption, UrlAssumption, CallsAssumption DEF ReturnEngine, Return, Go
<1>3. ASSUME NEW t \in Threads, GetSessionmaker(t)
      PROVE  TypeOK'
  BY <1>3, EngineAssumption, UrlAssumption, CallsAssumption DEF GetSessionmaker, Call, Go
<1>4. ASSUME NEW t \in Threads, CheckMaker(t)
      PROVE  TypeOK'
  BY <1>4, EngineAssumption, UrlAssumption, CallsAssumption DEF CheckMaker, Return, Go
<1>5. ASSUME NEW t \in Threads, ReturnMaker(t)
      PROVE  TypeOK'
  BY <1>5, EngineAssumption, UrlAssumption, CallsAssumption DEF ReturnMaker, Return, Go
<1>6. ASSUME NEW t \in Threads, NEW u \in Urls, Configure(t, u)
      PROVE  TypeOK'
  BY <1>6, EngineAssumption, UrlAssumption, CallsAssumption DEF Configure, Call, Go
<1>7. ASSUME NEW t \in Threads, Resolve(t)
      PROVE  TypeOK'
  BY <1>7, EngineAssumption, UrlAssumption, CallsAssumption DEF Resolve, Go
<1>8. ASSUME NEW t \in Threads, Acquire(t)
      PROVE  TypeOK'
  BY <1>8, EngineAssumption, UrlAssumption, CallsAssumption
     DEF Acquire, Configured, Return, Go, Dispose
<1>9. ASSUME NEW t \in Threads, NEW e \in Engines, Build(t, e)
      PROVE  TypeOK'
  BY <1>9, EngineAssumption, UrlAssumption, CallsAssumption DEF Build, Go, Built
<1>10. ASSUME NEW t \in Threads, BuildFails(t)
      PROVE  TypeOK'
  BY <1>10, EngineAssumption, UrlAssumption, CallsAssumption DEF BuildFails, Return, Go
<1>11. ASSUME NEW t \in Threads, Publish(t)
      PROVE  TypeOK'
  BY <1>11, EngineAssumption, UrlAssumption, CallsAssumption
     DEF Publish, Configured, Return, Go, Shown
<1>12. ASSUME NEW t \in Threads, NEW e \in Engines, NEW u \in Urls, SetEngine(t, e, u)
      PROVE  TypeOK'
  BY <1>12, EngineAssumption, UrlAssumption, CallsAssumption DEF SetEngine, Call, Go
<1>13. ASSUME NEW t \in Threads, AcquireSet(t)
      PROVE  TypeOK'
  BY <1>13, EngineAssumption, UrlAssumption, CallsAssumption DEF AcquireSet, Go, Dispose
<1>14. ASSUME NEW t \in Threads, ResetEngine(t)
      PROVE  TypeOK'
  BY <1>14, EngineAssumption, UrlAssumption, CallsAssumption DEF ResetEngine, Call, Go
<1>15. ASSUME NEW t \in Threads, AcquireReset(t)
      PROVE  TypeOK'
  BY <1>15, EngineAssumption, UrlAssumption, CallsAssumption
     DEF AcquireReset, Go, Dispose, InCall
<1>16. ASSUME NEW t \in Threads, Clear(t)
      PROVE  TypeOK'
  BY <1>16, EngineAssumption, UrlAssumption, CallsAssumption DEF Clear, Return, Go, InCall
<1>17. ASSUME NEW u \in Urls, ChangeSettings(u)
      PROVE  TypeOK'
  BY <1>17, EngineAssumption, UrlAssumption, CallsAssumption DEF ChangeSettings
<1>18. ASSUME UNCHANGED vars
      PROVE  TypeOK'
  BY <1>18 DEF vars
<1> QED
  BY <1>1, <1>2, <1>3, <1>4, <1>5, <1>6, <1>7, <1>8, <1>9, <1>10, <1>11, <1>12, <1>13,
     <1>14, <1>15, <1>16, <1>17, <1>18
     DEF Next, Begin, Step

\* Places and what belongs to them.
LEMMA PlaceNext ==
    TypeOK /\ TypeOK' /\ PlaceInv /\ [Next]_vars => PlaceInv'
<1> SUFFICES ASSUME TypeOK, TypeOK', PlaceInv, [Next]_vars PROVE PlaceInv'
  OBVIOUS
<1> USE DEF TypeOK, PlaceInv, Holding, Built, globals, locals
<1>1. ASSUME NEW t \in Threads, GetEngine(t)
      PROVE  PlaceInv'
  BY <1>1, EngineAssumption, UrlAssumption DEF GetEngine, Call, Go
<1>2. ASSUME NEW t \in Threads, ReturnEngine(t)
      PROVE  PlaceInv'
  BY <1>2, EngineAssumption, UrlAssumption DEF ReturnEngine, Return, Go
<1>3. ASSUME NEW t \in Threads, GetSessionmaker(t)
      PROVE  PlaceInv'
  BY <1>3, EngineAssumption, UrlAssumption DEF GetSessionmaker, Call, Go
<1>4. ASSUME NEW t \in Threads, CheckMaker(t)
      PROVE  PlaceInv'
  BY <1>4, EngineAssumption, UrlAssumption DEF CheckMaker, Return, Go
<1>5. ASSUME NEW t \in Threads, ReturnMaker(t)
      PROVE  PlaceInv'
  BY <1>5, EngineAssumption, UrlAssumption DEF ReturnMaker, Return, Go
<1>6. ASSUME NEW t \in Threads, NEW u \in Urls, Configure(t, u)
      PROVE  PlaceInv'
  BY <1>6, EngineAssumption, UrlAssumption DEF Configure, Call, Go
<1>7. ASSUME NEW t \in Threads, Resolve(t)
      PROVE  PlaceInv'
  BY <1>7, EngineAssumption, UrlAssumption DEF Resolve, Go
<1>8. ASSUME NEW t \in Threads, Acquire(t)
      PROVE  PlaceInv'
  BY <1>8, EngineAssumption, UrlAssumption DEF Acquire, Configured, Return, Go, Dispose
<1>9. ASSUME NEW t \in Threads, NEW e \in Engines, Build(t, e)
      PROVE  PlaceInv'
  BY <1>9, EngineAssumption, UrlAssumption DEF Build, Go, Built
<1>10. ASSUME NEW t \in Threads, BuildFails(t)
      PROVE  PlaceInv'
  BY <1>10, EngineAssumption, UrlAssumption DEF BuildFails, Return, Go
<1>11. ASSUME NEW t \in Threads, Publish(t)
      PROVE  PlaceInv'
  BY <1>11, EngineAssumption, UrlAssumption DEF Publish, Configured, Return, Go, Shown
<1>12. ASSUME NEW t \in Threads, NEW e \in Engines, NEW u \in Urls, SetEngine(t, e, u)
      PROVE  PlaceInv'
  BY <1>12, EngineAssumption, UrlAssumption DEF SetEngine, Call, Go
<1>13. ASSUME NEW t \in Threads, AcquireSet(t)
      PROVE  PlaceInv'
  BY <1>13, EngineAssumption, UrlAssumption DEF AcquireSet, Go, Dispose
<1>14. ASSUME NEW t \in Threads, ResetEngine(t)
      PROVE  PlaceInv'
  BY <1>14, EngineAssumption, UrlAssumption DEF ResetEngine, Call, Go
<1>15. ASSUME NEW t \in Threads, AcquireReset(t)
      PROVE  PlaceInv'
  BY <1>15, EngineAssumption, UrlAssumption DEF AcquireReset, Go, Dispose, InCall
<1>16. ASSUME NEW t \in Threads, Clear(t)
      PROVE  PlaceInv'
  BY <1>16, EngineAssumption, UrlAssumption DEF Clear, Return, Go, InCall
<1>17. ASSUME NEW u \in Urls, ChangeSettings(u)
      PROVE  PlaceInv'
  BY <1>17, EngineAssumption, UrlAssumption DEF ChangeSettings
<1>18. ASSUME UNCHANGED vars
      PROVE  PlaceInv'
  BY <1>18 DEF vars
<1> QED
  BY <1>1, <1>2, <1>3, <1>4, <1>5, <1>6, <1>7, <1>8, <1>9, <1>10, <1>11, <1>12, <1>13,
     <1>14, <1>15, <1>16, <1>17, <1>18
     DEF Next, Begin, Step

\* The globals are changed by one thread at a time, and belong together when it is done.
LEMMA AgreeNext ==
    TypeOK /\ TypeOK' /\ PlaceInv /\ AgreeInv /\ [Next]_vars => AgreeInv'
<1> SUFFICES ASSUME TypeOK, TypeOK', PlaceInv, AgreeInv, [Next]_vars PROVE AgreeInv'
  OBVIOUS
<1> USE DEF TypeOK, PlaceInv, AgreeInv, Together, Shown, Holding, Built, globals, locals
<1>1. ASSUME NEW t \in Threads, GetEngine(t)
      PROVE  AgreeInv'
  BY <1>1, EngineAssumption, UrlAssumption DEF GetEngine, Call, Go
<1>2. ASSUME NEW t \in Threads, ReturnEngine(t)
      PROVE  AgreeInv'
  BY <1>2, EngineAssumption, UrlAssumption DEF ReturnEngine, Return, Go
<1>3. ASSUME NEW t \in Threads, GetSessionmaker(t)
      PROVE  AgreeInv'
  BY <1>3, EngineAssumption, UrlAssumption DEF GetSessionmaker, Call, Go
<1>4. ASSUME NEW t \in Threads, CheckMaker(t)
      PROVE  AgreeInv'
  BY <1>4, EngineAssumption, UrlAssumption DEF CheckMaker, Return, Go
<1>5. ASSUME NEW t \in Threads, ReturnMaker(t)
      PROVE  AgreeInv'
  BY <1>5, EngineAssumption, UrlAssumption DEF ReturnMaker, Return, Go
<1>6. ASSUME NEW t \in Threads, NEW u \in Urls, Configure(t, u)
      PROVE  AgreeInv'
  BY <1>6, EngineAssumption, UrlAssumption DEF Configure, Call, Go
<1>7. ASSUME NEW t \in Threads, Resolve(t)
      PROVE  AgreeInv'
  BY <1>7, EngineAssumption, UrlAssumption DEF Resolve, Go
<1>8. ASSUME NEW t \in Threads, Acquire(t)
      PROVE  AgreeInv'
  BY <1>8, EngineAssumption, UrlAssumption DEF Acquire, Configured, Return, Go, Dispose
<1>9. ASSUME NEW t \in Threads, NEW e \in Engines, Build(t, e)
      PROVE  AgreeInv'
  BY <1>9, EngineAssumption, UrlAssumption DEF Build, Go, Built
<1>10. ASSUME NEW t \in Threads, BuildFails(t)
      PROVE  AgreeInv'
  BY <1>10, EngineAssumption, UrlAssumption DEF BuildFails, Return, Go
<1>11. ASSUME NEW t \in Threads, Publish(t)
      PROVE  AgreeInv'
  BY <1>11, EngineAssumption, UrlAssumption DEF Publish, Configured, Return, Go, Shown
<1>12. ASSUME NEW t \in Threads, NEW e \in Engines, NEW u \in Urls, SetEngine(t, e, u)
      PROVE  AgreeInv'
  BY <1>12, EngineAssumption, UrlAssumption DEF SetEngine, Call, Go
<1>13. ASSUME NEW t \in Threads, AcquireSet(t)
      PROVE  AgreeInv'
  BY <1>13, EngineAssumption, UrlAssumption DEF AcquireSet, Go, Dispose
<1>14. ASSUME NEW t \in Threads, ResetEngine(t)
      PROVE  AgreeInv'
  BY <1>14, EngineAssumption, UrlAssumption DEF ResetEngine, Call, Go
<1>15. ASSUME NEW t \in Threads, AcquireReset(t)
      PROVE  AgreeInv'
  BY <1>15, EngineAssumption, UrlAssumption DEF AcquireReset, Go, Dispose, InCall
<1>16. ASSUME NEW t \in Threads, Clear(t)
      PROVE  AgreeInv'
  BY <1>16, EngineAssumption, UrlAssumption DEF Clear, Return, Go, InCall
<1>17. ASSUME NEW u \in Urls, ChangeSettings(u)
      PROVE  AgreeInv'
  BY <1>17, EngineAssumption, UrlAssumption DEF ChangeSettings
<1>18. ASSUME UNCHANGED vars
      PROVE  AgreeInv'
  BY <1>18 DEF vars
<1> QED
  BY <1>1, <1>2, <1>3, <1>4, <1>5, <1>6, <1>7, <1>8, <1>9, <1>10, <1>11, <1>12, <1>13,
     <1>14, <1>15, <1>16, <1>17, <1>18
     DEF Next, Begin, Step

\* No thread comes to replace an engine of the URL it wants.
LEMMA CauseNext ==
    TypeOK /\ TypeOK' /\ PlaceInv /\ AgreeInv /\ CauseInv /\ [Next]_vars => CauseInv'
<1> SUFFICES ASSUME TypeOK, TypeOK', PlaceInv, AgreeInv, CauseInv, [Next]_vars
             PROVE  CauseInv'
  OBVIOUS
<1> USE DEF TypeOK, PlaceInv, AgreeInv, Together, Shown, CauseInv, Holding, Built, globals,
            locals
<1>1. ASSUME NEW t \in Threads, GetEngine(t)
      PROVE  CauseInv'
  BY <1>1, EngineAssumption, UrlAssumption DEF GetEngine, Call, Go
<1>2. ASSUME NEW t \in Threads, ReturnEngine(t)
      PROVE  CauseInv'
  BY <1>2, EngineAssumption, UrlAssumption DEF ReturnEngine, Return, Go
<1>3. ASSUME NEW t \in Threads, GetSessionmaker(t)
      PROVE  CauseInv'
  BY <1>3, EngineAssumption, UrlAssumption DEF GetSessionmaker, Call, Go
<1>4. ASSUME NEW t \in Threads, CheckMaker(t)
      PROVE  CauseInv'
  BY <1>4, EngineAssumption, UrlAssumption DEF CheckMaker, Return, Go
<1>5. ASSUME NEW t \in Threads, ReturnMaker(t)
      PROVE  CauseInv'
  BY <1>5, EngineAssumption, UrlAssumption DEF ReturnMaker, Return, Go
<1>6. ASSUME NEW t \in Threads, NEW u \in Urls, Configure(t, u)
      PROVE  CauseInv'
  BY <1>6, EngineAssumption, UrlAssumption DEF Configure, Call, Go
<1>7. ASSUME NEW t \in Threads, Resolve(t)
      PROVE  CauseInv'
  BY <1>7, EngineAssumption, UrlAssumption DEF Resolve, Go
<1>8. ASSUME NEW t \in Threads, Acquire(t)
      PROVE  CauseInv'
  BY <1>8, EngineAssumption, UrlAssumption DEF Acquire, Configured, Return, Go, Dispose
<1>9. ASSUME NEW t \in Threads, NEW e \in Engines, Build(t, e)
      PROVE  CauseInv'
  BY <1>9, EngineAssumption, UrlAssumption DEF Build, Go, Built
<1>10. ASSUME NEW t \in Threads, BuildFails(t)
      PROVE  CauseInv'
  BY <1>10, EngineAssumption, UrlAssumption DEF BuildFails, Return, Go
<1>11. ASSUME NEW t \in Threads, Publish(t)
      PROVE  CauseInv'
  BY <1>11, EngineAssumption, UrlAssumption DEF Publish, Configured, Return, Go, Shown
<1>12. ASSUME NEW t \in Threads, NEW e \in Engines, NEW u \in Urls, SetEngine(t, e, u)
      PROVE  CauseInv'
  BY <1>12, EngineAssumption, UrlAssumption DEF SetEngine, Call, Go
<1>13. ASSUME NEW t \in Threads, AcquireSet(t)
      PROVE  CauseInv'
  BY <1>13, EngineAssumption, UrlAssumption DEF AcquireSet, Go, Dispose
<1>14. ASSUME NEW t \in Threads, ResetEngine(t)
      PROVE  CauseInv'
  BY <1>14, EngineAssumption, UrlAssumption DEF ResetEngine, Call, Go
<1>15. ASSUME NEW t \in Threads, AcquireReset(t)
      PROVE  CauseInv'
  BY <1>15, EngineAssumption, UrlAssumption DEF AcquireReset, Go, Dispose, InCall
<1>16. ASSUME NEW t \in Threads, Clear(t)
      PROVE  CauseInv'
  BY <1>16, EngineAssumption, UrlAssumption DEF Clear, Return, Go, InCall
<1>17. ASSUME NEW u \in Urls, ChangeSettings(u)
      PROVE  CauseInv'
  BY <1>17, EngineAssumption, UrlAssumption DEF ChangeSettings
<1>18. ASSUME UNCHANGED vars
      PROVE  CauseInv'
  BY <1>18 DEF vars
<1> QED
  BY <1>1, <1>2, <1>3, <1>4, <1>5, <1>6, <1>7, <1>8, <1>9, <1>10, <1>11, <1>12, <1>13,
     <1>14, <1>15, <1>16, <1>17, <1>18
     DEF Next, Begin, Step

\* An engine is disposed before it is replaced.
LEMMA DisposedNext ==
    TypeOK /\ TypeOK' /\ PlaceInv /\ DisposedInv /\ [Next]_vars => DisposedInv'
<1> SUFFICES ASSUME TypeOK, TypeOK', PlaceInv, DisposedInv, [Next]_vars PROVE DisposedInv'
  OBVIOUS
<1> USE DEF TypeOK, PlaceInv, DisposedInv, Holding, Built, globals, locals
<1>1. ASSUME NEW t \in Threads, GetEngine(t)
      PROVE  DisposedInv'
  BY <1>1, EngineAssumption, UrlAssumption DEF GetEngine, Call, Go
<1>2. ASSUME NEW t \in Threads, ReturnEngine(t)
      PROVE  DisposedInv'
  BY <1>2, EngineAssumption, UrlAssumption DEF ReturnEngine, Return, Go
<1>3. ASSUME NEW t \in Threads, GetSessionmaker(t)
      PROVE  DisposedInv'
  BY <1>3, EngineAssumption, UrlAssumption DEF GetSessionmaker, Call, Go
<1>4. ASSUME NEW t \in Threads, CheckMaker(t)
      PROVE  DisposedInv'
  BY <1>4, EngineAssumption, UrlAssumption DEF CheckMaker, Return, Go
<1>5. ASSUME NEW t \in Threads, ReturnMaker(t)
      PROVE  DisposedInv'
  BY <1>5, EngineAssumption, UrlAssumption DEF ReturnMaker, Return, Go
<1>6. ASSUME NEW t \in Threads, NEW u \in Urls, Configure(t, u)
      PROVE  DisposedInv'
  BY <1>6, EngineAssumption, UrlAssumption DEF Configure, Call, Go
<1>7. ASSUME NEW t \in Threads, Resolve(t)
      PROVE  DisposedInv'
  BY <1>7, EngineAssumption, UrlAssumption DEF Resolve, Go
<1>8. ASSUME NEW t \in Threads, Acquire(t)
      PROVE  DisposedInv'
  BY <1>8, EngineAssumption, UrlAssumption DEF Acquire, Configured, Return, Go, Dispose
<1>9. ASSUME NEW t \in Threads, NEW e \in Engines, Build(t, e)
      PROVE  DisposedInv'
  BY <1>9, EngineAssumption, UrlAssumption DEF Build, Go, Built
<1>10. ASSUME NEW t \in Threads, BuildFails(t)
      PROVE  DisposedInv'
  BY <1>10, EngineAssumption, UrlAssumption DEF BuildFails, Return, Go
<1>11. ASSUME NEW t \in Threads, Publish(t)
      PROVE  DisposedInv'
  BY <1>11, EngineAssumption, UrlAssumption DEF Publish, Configured, Return, Go, Shown
<1>12. ASSUME NEW t \in Threads, NEW e \in Engines, NEW u \in Urls, SetEngine(t, e, u)
      PROVE  DisposedInv'
  BY <1>12, EngineAssumption, UrlAssumption DEF SetEngine, Call, Go
<1>13. ASSUME NEW t \in Threads, AcquireSet(t)
      PROVE  DisposedInv'
  BY <1>13, EngineAssumption, UrlAssumption DEF AcquireSet, Go, Dispose
<1>14. ASSUME NEW t \in Threads, ResetEngine(t)
      PROVE  DisposedInv'
  BY <1>14, EngineAssumption, UrlAssumption DEF ResetEngine, Call, Go
<1>15. ASSUME NEW t \in Threads, AcquireReset(t)
      PROVE  DisposedInv'
  BY <1>15, EngineAssumption, UrlAssumption DEF AcquireReset, Go, Dispose, InCall
<1>16. ASSUME NEW t \in Threads, Clear(t)
      PROVE  DisposedInv'
  BY <1>16, EngineAssumption, UrlAssumption DEF Clear, Return, Go, InCall
<1>17. ASSUME NEW u \in Urls, ChangeSettings(u)
      PROVE  DisposedInv'
  BY <1>17, EngineAssumption, UrlAssumption DEF ChangeSettings
<1>18. ASSUME UNCHANGED vars
      PROVE  DisposedInv'
  BY <1>18 DEF vars
<1> QED
  BY <1>1, <1>2, <1>3, <1>4, <1>5, <1>6, <1>7, <1>8, <1>9, <1>10, <1>11, <1>12, <1>13,
     <1>14, <1>15, <1>16, <1>17, <1>18
     DEF Next, Begin, Step

\* Nothing but a reset takes away what a thread has seen.
LEMMA SeenNext ==
    TypeOK /\ TypeOK' /\ PlaceInv /\ AgreeInv /\ SeenInv /\ [Next]_vars => SeenInv'
<1> SUFFICES ASSUME TypeOK, TypeOK', PlaceInv, AgreeInv, SeenInv, [Next]_vars PROVE SeenInv'
  OBVIOUS
<1> USE DEF TypeOK, PlaceInv, AgreeInv, Together, SeenInv, NoneOnlyAfterReset, Holding,
            Built, globals, locals
<1>1. ASSUME NEW t \in Threads, GetEngine(t)
      PROVE  SeenInv'
  BY <1>1, EngineAssumption, UrlAssumption DEF GetEngine, Call, Go
<1>2. ASSUME NEW t \in Threads, ReturnEngine(t)
      PROVE  SeenInv'
  BY <1>2, EngineAssumption, UrlAssumption DEF ReturnEngine, Return, Go
<1>3. ASSUME NEW t \in Threads, GetSessionmaker(t)
      PROVE  SeenInv'
  BY <1>3, EngineAssumption, UrlAssumption DEF GetSessionmaker, Call, Go
<1>4. ASSUME NEW t \in Threads, CheckMaker(t)
      PROVE  SeenInv'
  BY <1>4, EngineAssumption, UrlAssumption DEF CheckMaker, Return, Go
<1>5. ASSUME NEW t \in Threads, ReturnMaker(t)
      PROVE  SeenInv'
  BY <1>5, EngineAssumption, UrlAssumption DEF ReturnMaker, Return, Go
<1>6. ASSUME NEW t \in Threads, NEW u \in Urls, Configure(t, u)
      PROVE  SeenInv'
  BY <1>6, EngineAssumption, UrlAssumption DEF Configure, Call, Go
<1>7. ASSUME NEW t \in Threads, Resolve(t)
      PROVE  SeenInv'
  BY <1>7, EngineAssumption, UrlAssumption DEF Resolve, Go
<1>8. ASSUME NEW t \in Threads, Acquire(t)
      PROVE  SeenInv'
  BY <1>8, EngineAssumption, UrlAssumption DEF Acquire, Configured, Return, Go, Dispose
<1>9. ASSUME NEW t \in Threads, NEW e \in Engines, Build(t, e)
      PROVE  SeenInv'
  BY <1>9, EngineAssumption, UrlAssumption DEF Build, Go, Built
<1>10. ASSUME NEW t \in Threads, BuildFails(t)
      PROVE  SeenInv'
  BY <1>10, EngineAssumption, UrlAssumption DEF BuildFails, Return, Go
<1>11. ASSUME NEW t \in Threads, Publish(t)
      PROVE  SeenInv'
  BY <1>11, EngineAssumption, UrlAssumption DEF Publish, Configured, Return, Go, Shown
<1>12. ASSUME NEW t \in Threads, NEW e \in Engines, NEW u \in Urls, SetEngine(t, e, u)
      PROVE  SeenInv'
  BY <1>12, EngineAssumption, UrlAssumption DEF SetEngine, Call, Go
<1>13. ASSUME NEW t \in Threads, AcquireSet(t)
      PROVE  SeenInv'
  BY <1>13, EngineAssumption, UrlAssumption DEF AcquireSet, Go, Dispose
<1>14. ASSUME NEW t \in Threads, ResetEngine(t)
      PROVE  SeenInv'
  BY <1>14, EngineAssumption, UrlAssumption DEF ResetEngine, Call, Go
<1>15. ASSUME NEW t \in Threads, AcquireReset(t)
      PROVE  SeenInv'
  BY <1>15, EngineAssumption, UrlAssumption DEF AcquireReset, Go, Dispose, InCall
<1>16. ASSUME NEW t \in Threads, Clear(t)
      PROVE  SeenInv'
  BY <1>16, EngineAssumption, UrlAssumption DEF Clear, Return, Go, InCall
<1>17. ASSUME NEW u \in Urls, ChangeSettings(u)
      PROVE  SeenInv'
  BY <1>17, EngineAssumption, UrlAssumption DEF ChangeSettings
<1>18. ASSUME UNCHANGED vars
      PROVE  SeenInv'
  BY <1>18 DEF vars
<1> QED
  BY <1>1, <1>2, <1>3, <1>4, <1>5, <1>6, <1>7, <1>8, <1>9, <1>10, <1>11, <1>12, <1>13,
     <1>14, <1>15, <1>16, <1>17, <1>18
     DEF Next, Begin, Step

-----------------------------------------------------------------------------
(* Theorems                                                                 *)

IInv == TypeOK /\ PlaceInv /\ AgreeInv /\ CauseInv /\ DisposedInv /\ SeenInv

\* In the initial state there is no engine and no call.
LEMMA InitIInv == Init => IInv
<1> SUFFICES ASSUME Init PROVE IInv
  OBVIOUS
<1> USE EngineAssumption, UrlAssumption DEF Init
<1>1. Built = {}
  BY DEF Built
<1>2. TypeOK
  BY CallsAssumption DEF TypeOK, Holding, Places
<1>3. PlaceInv /\ AgreeInv /\ CauseInv
  BY DEF PlaceInv, AgreeInv, Together, CauseInv
<1>4. DisposedInv /\ SeenInv
  BY <1>1 DEF DisposedInv, SeenInv, NoneOnlyAfterReset
<1> QED
  BY <1>2, <1>3, <1>4 DEF IInv

\* The inductive invariant of the engine, which the theorems below are read off from.
THEOREM Invariants == Spec => []IInv
<1>1. IInv /\ [Next]_vars => IInv'
  BY TypeNext, PlaceNext, AgreeNext, CauseNext, DisposedNext, SeenNext DEF IInv
<1> QED
  BY InitIInv, <1>1, PTL DEF Spec

\* Every reachable state is well typed, and the lock is held by the thread that is
\* in a critical section of configure_engine(), set_engine() or reset_engine().
THEOREM TypeCorrect == Spec => []TypeOK
<1>1. IInv => TypeOK
  BY DEF IInv
<1> QED
  BY Invariants, <1>1, PTL

\* Whenever the lock is free, the engine, the sessionmaker and the URL that
\* configure_engine() compares with belong together.
THEOREM GlobalsBelongTogether == Spec => []GlobalsAgree
<1>1. IInv => GlobalsAgree
  BY EngineAssumption DEF IInv, TypeOK, AgreeInv, Together, GlobalsAgree, Holding
<1> QED
  BY Invariants, <1>1, PTL

\* get_engine() and get_sessionmaker() come back empty-handed only to a caller
\* that was overtaken by reset_engine().
THEOREM NoneMeansReset == Spec => []NoneOnlyAfterReset
<1>1. IInv => NoneOnlyAfterReset
  BY DEF IInv, SeenInv
<1> QED
  BY Invariants, <1>1, PTL

\* No engine is replaced or dropped without closing its pool.
THEOREM NoEngineLeaks == Spec => []ReplacedIsDisposed
<1>1. IInv => ReplacedIsDisposed
  BY DEF IInv, DisposedInv, ReplacedIsDisposed
<1> QED
  BY Invariants, <1>1, PTL

\* Of callers that race to configure the engine none replaces the engine of
\* another for the same URL.
THEOREM ReplacementHasCause == Spec => ReplacedForCause
<1> DEFINE Cause ==
      engine # None /\ engine' # None /\ engine' # engine =>
         \E t \in Threads :
            \/ pc[t] = "acquireSet"
            \/ pc[t] = "build" /\ (want[t] # urlOf[engine] \/ urlOf[engine] \in Secret)
<1>1. ASSUME IInv, [Next]_vars
      PROVE  [Cause]_vars
  <2> USE DEF globals, locals
  <2>1. ASSUME NEW t \in Threads, GetEngine(t)
        PROVE  Cause
    BY <2>1 DEF GetEngine
  <2>2. ASSUME NEW t \in Threads, ReturnEngine(t)
        PROVE  Cause
    BY <2>2 DEF ReturnEngine
  <2>3. ASSUME NEW t \in Threads, GetSessionmaker(t)
        PROVE  Cause
    BY <2>3 DEF GetSessionmaker
  <2>4. ASSUME NEW t \in Threads, CheckMaker(t)
        PROVE  Cause
    BY <2>4 DEF CheckMaker
  <2>5. ASSUME NEW t \in Threads, ReturnMaker(t)
        PROVE  Cause
    BY <2>5 DEF ReturnMaker
  <2>6. ASSUME NEW t \in Threads, NEW u \in Urls, Configure(t, u)
        PROVE  Cause
    BY <2>6 DEF Configure
  <2>7. ASSUME NEW t \in Threads, Resolve(t)
        PROVE  Cause
    BY <2>7 DEF Resolve
  <2>8. ASSUME NEW t \in Threads, Acquire(t)
        PROVE  Cause
    BY <2>8 DEF Acquire
  <2>9. ASSUME NEW t \in Threads, NEW e \in Engines, Build(t, e)
        PROVE  Cause
    BY <1>1, <2>9 DEF Build, IInv, CauseInv
  <2>10. ASSUME NEW t \in Threads, BuildFails(t)
        PROVE  Cause
    BY <2>10 DEF BuildFails
  <2>11. ASSUME NEW t \in Threads, Publish(t)
        PROVE  Cause
    BY <2>11 DEF Publish
  <2>12. ASSUME NEW t \in Threads, NEW e \in Engines, NEW u \in Urls, SetEngine(t, e, u)
        PROVE  Cause
    BY <2>12 DEF SetEngine
  <2>13. ASSUME NEW t \in Threads, AcquireSet(t)
        PROVE  Cause
    BY <2>13 DEF AcquireSet
  <2>14. ASSUME NEW t \in Threads, ResetEngine(t)
        PROVE  Cause
    BY <2>14 DEF ResetEngine
  <2>15. ASSUME NEW t \in Threads, AcquireReset(t)
        PROVE  Cause
    BY <2>15 DEF AcquireReset
  <2>16. ASSUME NEW t \in Threads, Clear(t)
        PROVE  Cause
    BY <2>16 DEF Clear
  <2>17. ASSUME NEW u \in Urls, ChangeSettings(u)
        PROVE  Cause
    BY <2>17 DEF ChangeSettings
  <2>18. ASSUME UNCHANGED vars
        PROVE  Cause
    BY <2>18 DEF vars
  <2> QED
    BY <1>1, <2>1, <2>2, <2>3, <2>4, <2>5, <2>6, <2>7, <2>8, <2>9, <2>10, <2>11, <2>12,
       <2>13, <2>14, <2>15, <2>16, <2>17, <2>18
       DEF Next, Begin, Step
<1> QED
  BY Invariants, <1>1, PTL DEF Spec, ReplacedForCause
=============================================================================

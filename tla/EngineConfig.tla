---------------------------- MODULE EngineConfig ----------------------------
(***************************************************************************)
(* The process-wide engine of repository/session.py: get_engine() and      *)
(* get_sessionmaker() read the globals without the lock and fall back to   *)
(* configure_engine(), which, like set_engine() and reset_engine(),        *)
(* replaces them under it.  The callers are threads; between two accesses  *)
(* to a global that others can see, another thread may run.                *)
(***************************************************************************)
EXTENDS Naturals, FiniteSets

CONSTANTS
    Threads,
    Engines,   \* the engines there are to build
    Urls,      \* database URLs
    Secret,    \* those with a password, which str(url) masks
    Masked,    \* what it makes of them
    MaxCalls,  \* bound: calls of all threads
    Nobody, None

ASSUME UrlAssumption == Secret \subseteq Urls /\ Masked \notin Urls /\ None \notin Urls \cup {Masked}
ASSUME EngineAssumption ==
    /\ Engines \cap {None, "failed", "raised", "nothing"} = {}
    /\ None \notin {"failed", "raised", "nothing"}
    /\ Nobody \notin Threads
ASSUME CallsAssumption == MaxCalls \in Nat

VARIABLES
    settings,  \* the URL in the Settings that get_settings() has cached
    engine,    \* _engine
    maker,     \* the engine _sessionmaker is bound to
    urlInUse,  \* _url_in_use
    lock,      \* who holds _lock
    urlOf,     \* the URL of each engine that was built
    disposed,  \* the engines whose pools were closed
    pc,        \* where each thread is
    entry,     \* the function it called
    want,      \* the URL configure_engine() resolved
    mine,      \* the engine it built or was given
    got,       \* what the last call returned
    calls,     \* calls so far
    reset      \* history: the threads during whose call reset_engine() ran

globals == <<engine, maker, urlInUse>>
locals == <<entry, want, mine>>
vars == <<settings, globals, lock, urlOf, disposed, pc, locals, got, calls, reset>>

Built == {e \in Engines : urlOf[e] # None}

Holding == {"build", "publish", "clear"}
Places == Holding \cup
    {"idle", "engine", "check", "maker", "resolve", "acquire", "acquireSet", "acquireReset"}

\* The types; the lock is held by the thread in a critical section.
TypeOK ==
    /\ settings \in Urls
    /\ engine \in Engines \cup {None} /\ maker \in Engines \cup {None}
    /\ urlInUse \in Urls \cup {Masked, None}
    /\ lock \in Threads \cup {Nobody}
    /\ urlOf \in [Engines -> Urls \cup {None}]
    /\ disposed \subseteq Engines
    /\ pc \in [Threads -> Places]
    /\ entry \in [Threads -> {"none", "engine", "maker", "configure", "set", "reset"}]
    /\ want \in [Threads -> Urls \cup {None}]
    /\ mine \in [Threads -> Engines \cup {None}]
    /\ got \in [Threads -> Engines \cup {None, "failed", "raised", "nothing"}]
    /\ calls \in 0 .. MaxCalls
    /\ reset \subseteq Threads
    /\ \A t \in Threads : lock = t <=> pc[t] \in Holding

Init ==
    /\ settings \in Urls
    /\ engine = None /\ maker = None /\ urlInUse = None
    /\ lock = Nobody
    /\ urlOf = [e \in Engines |-> None]
    /\ disposed = {}
    /\ pc = [t \in Threads |-> "idle"]
    /\ entry = [t \in Threads |-> "none"]
    /\ want = [t \in Threads |-> None]
    /\ mine = [t \in Threads |-> None]
    /\ got = [t \in Threads |-> "nothing"]
    /\ calls = 0
    /\ reset = {}

-----------------------------------------------------------------------------
(* A call of a thread                                                       *)

Go(t, to) == pc' = [pc EXCEPT ![t] = to]

Call(t, function, to) ==
    /\ pc[t] = "idle"
    /\ calls < MaxCalls
    /\ calls' = calls + 1
    /\ entry' = [entry EXCEPT ![t] = function]
    /\ got' = [got EXCEPT ![t] = "nothing"]
    /\ reset' = reset \ {t}
    /\ Go(t, to)

InCall == {t \in Threads : pc[t] # "idle"}

\* The result is there, and what was local to the call is gone.
Return(t, value) ==
    /\ got' = [got EXCEPT ![t] = value]
    /\ entry' = [entry EXCEPT ![t] = "none"]
    /\ want' = [want EXCEPT ![t] = None]
    /\ mine' = [mine EXCEPT ![t] = None]
    /\ Go(t, "idle")

\* The environment changes and the cache of the settings is dropped.
ChangeSettings(u) ==
    /\ u # settings
    /\ settings' = u
    /\ UNCHANGED <<globals, lock, urlOf, disposed, pc, locals, calls, got, reset>>

\* Closing the pool of the engine that is replaced.
Dispose == disposed' = IF engine = None THEN disposed ELSE disposed \cup {engine}

-----------------------------------------------------------------------------
(* get_engine() and get_sessionmaker(): every mention of a global is a read. *)

GetEngine(t) ==
    /\ Call(t, "engine", IF engine = None THEN "resolve" ELSE "engine")
    /\ UNCHANGED <<settings, globals, lock, urlOf, disposed, want, mine>>

ReturnEngine(t) ==
    /\ pc[t] = "engine"
    /\ Return(t, engine)
    /\ UNCHANGED <<settings, globals, lock, urlOf, disposed, calls, reset>>

GetSessionmaker(t) ==
    /\ Call(t, "maker", IF maker = None THEN "resolve" ELSE "check")
    /\ UNCHANGED <<settings, globals, lock, urlOf, disposed, want, mine>>

CheckMaker(t) ==
    /\ pc[t] = "check"
    /\ IF maker = None THEN Return(t, "raised") ELSE Go(t, "maker") /\ UNCHANGED <<got, locals>>
    /\ UNCHANGED <<settings, globals, lock, urlOf, disposed, calls, reset>>

ReturnMaker(t) ==
    /\ pc[t] = "maker"
    /\ Return(t, maker)
    /\ UNCHANGED <<settings, globals, lock, urlOf, disposed, calls, reset>>

-----------------------------------------------------------------------------
(* configure_engine()                                                       *)

\* With settings of the caller, or with those of get_settings().
Configure(t, u) ==
    /\ Call(t, "configure", "acquire")
    /\ want' = [want EXCEPT ![t] = u]
    /\ UNCHANGED <<settings, globals, lock, urlOf, disposed, mine>>

Resolve(t) ==
    /\ pc[t] = "resolve"
    /\ want' = [want EXCEPT ![t] = settings]
    /\ Go(t, "acquire")
    /\ UNCHANGED <<settings, globals, lock, urlOf, disposed, entry, mine, calls, got, reset>>

\* What configure_engine() returns is the result of its caller, unless that
\* wants the sessionmaker.
Configured(t, e) ==
    IF entry[t] = "maker" THEN Go(t, "check") /\ UNCHANGED <<got, locals>> ELSE Return(t, e)

\* mutant: no second look at the engine under the lock
AcquireUnchecked(t) ==
    /\ pc[t] = "acquire"
    /\ lock = Nobody
    /\ lock' = t
    /\ Dispose
    /\ Go(t, "build")
    /\ UNCHANGED <<settings, globals, urlOf, locals, calls, got, reset>>

\* mutant: the old engine is dropped before the new one is built
AcquireDrops(t) ==
    /\ pc[t] = "acquire"
    /\ lock = Nobody
    /\ IF engine # None /\ urlInUse = want[t]
       THEN Configured(t, engine) /\ UNCHANGED <<engine, lock, disposed>>
       ELSE Dispose /\ engine' = None /\ lock' = t /\ Go(t, "build") /\ UNCHANGED <<got, locals>>
    /\ UNCHANGED <<settings, maker, urlInUse, urlOf, calls, reset>>

\* The lock is taken; with the same URL the engine stays, else it is disposed.
Acquire(t) ==
    /\ pc[t] = "acquire"
    /\ lock = Nobody
    /\ IF engine # None /\ urlInUse = want[t]
       THEN Configured(t, engine) /\ UNCHANGED <<lock, disposed>>
       ELSE Dispose /\ lock' = t /\ Go(t, "build") /\ UNCHANGED <<got, locals>>
    /\ UNCHANGED <<settings, globals, urlOf, calls, reset>>

Build(t, e) ==
    /\ pc[t] = "build"
    /\ e \notin Built
    /\ urlOf' = [urlOf EXCEPT ![e] = want[t]]
    /\ mine' = [mine EXCEPT ![t] = e]
    /\ engine' = e
    /\ Go(t, "publish")
    /\ UNCHANGED <<settings, maker, urlInUse, lock, disposed, entry, want, calls, got, reset>>

\* create_engine() raises: a URL or a driver that does not exist.
BuildFails(t) ==
    /\ pc[t] = "build"
    /\ lock' = Nobody
    /\ Return(t, "failed")
    /\ UNCHANGED <<settings, globals, urlOf, disposed, calls, reset>>

\* str(engine.url) masks the password.
Shown(u) == IF u \in Secret THEN Masked ELSE u

\* mutant: the sessionmaker of the engine before stays
PublishUrl(t) ==
    /\ pc[t] = "publish"
    /\ maker' = IF maker = None THEN mine[t] ELSE maker
    /\ urlInUse' = IF entry[t] = "set" THEN Shown(urlOf[mine[t]]) ELSE want[t]
    /\ lock' = Nobody
    /\ Configured(t, engine)
    /\ UNCHANGED <<settings, engine, urlOf, disposed, calls, reset>>

\* The sessionmaker follows the engine; _url_in_use is read under the lock only.
Publish(t) ==
    /\ pc[t] = "publish"
    /\ maker' = mine[t]
    /\ urlInUse' = IF entry[t] = "set" THEN Shown(urlOf[mine[t]]) ELSE want[t]
    /\ lock' = Nobody
    /\ Configured(t, engine)
    /\ UNCHANGED <<settings, engine, urlOf, disposed, calls, reset>>

-----------------------------------------------------------------------------
(* set_engine() and reset_engine()                                          *)

\* The caller has built the engine itself, or sets one it has had before.
SetEngine(t, e, u) ==
    /\ Call(t, "set", "acquireSet")
    /\ urlOf[e] \in {None, u}
    /\ urlOf' = [urlOf EXCEPT ![e] = u]
    /\ mine' = [mine EXCEPT ![t] = e]
    /\ UNCHANGED <<settings, globals, lock, disposed, want>>

AcquireSet(t) ==
    /\ pc[t] = "acquireSet"
    /\ lock = Nobody
    /\ lock' = t
    /\ IF engine = mine[t] THEN UNCHANGED disposed ELSE Dispose
    /\ engine' = mine[t]
    /\ Go(t, "publish")
    /\ UNCHANGED <<settings, maker, urlInUse, urlOf, locals, calls, got, reset>>

ResetEngine(t) ==
    /\ Call(t, "reset", "acquireReset")
    /\ UNCHANGED <<settings, globals, lock, urlOf, disposed, want, mine>>

\* mutant: the engine is dropped with its pool open
AcquireResetOpen(t) ==
    /\ pc[t] = "acquireReset"
    /\ lock = Nobody
    /\ lock' = t
    /\ engine' = None
    /\ reset' = reset \cup InCall
    /\ Go(t, "clear")
    /\ UNCHANGED <<settings, maker, urlInUse, urlOf, disposed, locals, calls, got>>

AcquireReset(t) ==
    /\ pc[t] = "acquireReset"
    /\ lock = Nobody
    /\ lock' = t
    /\ Dispose
    /\ engine' = None
    /\ reset' = reset \cup InCall
    /\ Go(t, "clear")
    /\ UNCHANGED <<settings, maker, urlInUse, urlOf, locals, calls, got>>

Clear(t) ==
    /\ pc[t] = "clear"
    /\ maker' = None
    /\ urlInUse' = None
    /\ lock' = Nobody
    /\ reset' = reset \cup InCall
    /\ Return(t, "nothing")
    /\ UNCHANGED <<settings, engine, urlOf, disposed, calls>>

-----------------------------------------------------------------------------
Begin(t) ==
    \/ GetEngine(t) \/ GetSessionmaker(t) \/ ResetEngine(t)
    \/ \E u \in Urls : Configure(t, u)
    \/ \E e \in Engines, u \in Urls : SetEngine(t, e, u)

Step(t) ==
    \/ ReturnEngine(t) \/ CheckMaker(t) \/ ReturnMaker(t)
    \/ Resolve(t) \/ Acquire(t) \/ BuildFails(t) \/ Publish(t)
    \/ \E e \in Engines : Build(t, e)
    \/ AcquireSet(t) \/ AcquireReset(t) \/ Clear(t)

Next ==
    \/ \E t \in Threads : Begin(t) \/ Step(t)
    \/ \E u \in Urls : ChangeSettings(u)

Spec == Init /\ [][Next]_vars

-----------------------------------------------------------------------------
(* Properties                                                               *)

\* Whenever the lock is free the three globals belong together: sessions are
\* made for the engine that get_engine() returns, also after a build failed
\* half-way through configure_engine().
GlobalsAgree ==
    lock = Nobody =>
        /\ maker = engine
        /\ IF engine = None
           THEN urlInUse = None
           ELSE urlInUse \in {urlOf[engine], Shown(urlOf[engine])}

\* get_engine() returns None, and get_sessionmaker() returns None or raises its
\* "could not be initialised", only to a caller that was overtaken by a
\* reset_engine(): an engine that is being replaced is never missing.
NoneOnlyAfterReset == \A t \in Threads : got[t] \in {None, "raised"} => t \in reset

\* An engine that was replaced or dropped has had its pool closed, whatever the
\* order of the calls ("closing the previous engine"): none leaks its connections.
ReplacedIsDisposed ==
    lock = Nobody => \A e \in Built :
        \/ e \in disposed \cup {engine}
        \/ \E t \in Threads : pc[t] = "acquireSet" /\ mine[t] = e

\* Callers that race for the first engine get one and the same: an engine is
\* replaced by set_engine(), or for another URL, and for nothing else.  Only a
\* URL that set_engine() has masked looks different from itself.
ReplacedForCause ==
    [][engine # None /\ engine' # None /\ engine' # engine =>
         \E t \in Threads :
            \/ pc[t] = "acquireSet"
            \/ pc[t] = "build" /\ (want[t] # urlOf[engine] \/ urlOf[engine] \in Secret)]_vars
=============================================================================

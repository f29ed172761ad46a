-------------------------------- MODULE Api --------------------------------
(***************************************************************************)
(* A request of the HTTP API from its arrival to its answer, beside other  *)
(* requests, the command line that issues keys, a revocation, the start    *)
(* and the end of the background runner, and a database whose transactions *)
(* may fail.  A request has two transactions: that of its dependency       *)
(* get_principal(), which authenticates and charges it, and that of its    *)
(* handler.  What ends either, or comes between them, is an exception that *)
(* the handlers of errors.py turn into the answer.                         *)
(*                                                                         *)
(* The statements of the first transaction are in RateLimit, those of a    *)
(* create in TaskCreate, the queue and the pool in TaskRuns; here a        *)
(* transaction is its reads, with the locks PostgreSQL gives it, and its   *)
(* commit.                                                                 *)
(***************************************************************************)
EXTENDS Naturals, FiniteSets

CONSTANTS
    Requests,  \* a create stands for the task it makes, a run for its run id
    Stored,    \* the tasks there are at first
    Keys,
    Issued,    \* the keys there are at first
    ScopeOf,   \* the scope of each key
    Names,     \* names of tasks that are created
    Burst,     \* tokens of a full bucket; nothing is refilled
    NoKey, NoTask, NoName

ASSUME KeysAssumption ==
    /\ IsFiniteSet(Keys) /\ Issued \subseteq Keys /\ NoKey \notin Keys
    /\ ScopeOf \in [Keys -> {"read", "write", "admin"}]
ASSUME TasksAssumption ==
    /\ IsFiniteSet(Requests)
    /\ Stored \cap Requests = {} /\ NoTask \notin Stored \cup Requests /\ NoName \notin Names
ASSUME BurstAssumption == Burst \in Nat \ {0}

Tasks == Stored \cup Requests

VARIABLES
    key,       \* the api_keys row of each key: absent, inserted, active or revoked
    printed,   \* the keys whose plaintext was printed
    tokens,    \* the rate_buckets rows
    tasks,     \* the committed tasks
    runner,    \* the runner of the lifespan
    queued,    \* the runs submitted to it
    pc,        \* where each request is
    call,      \* what it asks for
    error,     \* the exception it ended with
    answer,    \* the HTTP status of its answer, or 0
    reported,  \* the rejections that a metrics request was told
    past       \* history: what the answers before it had said of its task

keyVars == <<key, printed>>
runnerVars == <<runner, queued>>
requestVars == <<pc, error, answer>>
historyVars == <<call, past>>
vars == <<keyVars, tokens, tasks, runnerVars, requestVars, reported, historyVars>>

\* GET /v1/tasks/{id}/runs is a get too: it has its scope, lookup and answers.
CallOf(op, tasksOf, names, forms) ==
    [op : {op}, key : Keys \cup {NoKey}, task : tasksOf, name : names, form : forms]

Calls ==
    UNION {CallOf("create", {NoTask}, Names, {"malformed", "invalid", "valid"}),
           CallOf("list", {NoTask}, {NoName}, {"invalid", "badCursor", "valid"}),
           CallOf("get", Tasks, {NoName}, {"valid"}),
           CallOf("run", Tasks, {NoName}, {"valid"}),
           CallOf("delete", Tasks, {NoName}, {"valid"}),
           CallOf("metrics", {NoTask}, {NoName}, {"valid"})}

NoCall == [op |-> "none", key |-> NoKey, task |-> NoTask, name |-> NoName, form |-> "valid"]

\* The subclasses of APIError carry their status; what none of them is becomes
\* 422 if it is FastAPI's own validation error, and 500 otherwise.
StatusOf ==
    [Unauthenticated |-> 401, Forbidden |-> 403, NotFound |-> 404, Conflict |-> 409,
     RateLimited |-> 429, NotReady |-> 503, Malformed |-> 422, Validation |-> 422,
     Authentication |-> 500, Database |-> 500, TaskRepo |-> 500, TypeError |-> 500]

SuccessOf == [create |-> 201, run |-> 202, delete |-> 204, list |-> 200, get |-> 200,
              metrics |-> 200]

Needed == [create |-> "write", run |-> "write", delete |-> "admin", list |-> "read",
           get |-> "read", metrics |-> "admin"]

Order == [read |-> 0, write |-> 1, admin |-> 2]

\* scope_satisfies() of the key and the scope that the handler requires.
Satisfies(q) == Order[ScopeOf[call[q].key]] >= Order[Needed[call[q].op]]

Statuses == {StatusOf[e] : e \in DOMAIN StatusOf} \cup {SuccessOf[o] : o \in DOMAIN SuccessOf}

TypeOK ==
    /\ key \in [Keys -> {"absent", "inserted", "active", "revoked"}]
    /\ printed \subseteq Keys
    /\ tokens \in [Keys -> 0 .. Burst]
    /\ tasks \subseteq Tasks
    /\ runner \in {"none", "open", "closing"}
    /\ queued \subseteq Requests
    /\ pc \in [Requests -> {"new", "sent", "admitted", "authorised", "working", "done",
                            "answered"}]
    /\ call \in [Requests -> Calls \cup {NoCall}]
    /\ error \in [Requests -> DOMAIN StatusOf \cup {"none"}]
    /\ answer \in [Requests -> Statuses \cup {0}]
    /\ reported \in [Requests -> Nat]
    /\ past \in [Requests -> {"nothing", "there", "gone"}]

Init ==
    /\ key = [k \in Keys |-> IF k \in Issued THEN "active" ELSE "absent"]
    /\ printed = Issued
    /\ tokens = [k \in Keys |-> Burst]
    /\ tasks = Stored
    /\ runner \in {"none", "open"}
    /\ queued = {}
    /\ pc = [q \in Requests |-> "new"]
    /\ call = [q \in Requests |-> NoCall]
    /\ error = [q \in Requests |-> "none"]
    /\ answer = [q \in Requests |-> 0]
    /\ reported = [q \in Requests |-> 0]
    /\ past = [q \in Requests |-> "nothing"]

Go(q, to) == pc' = [pc EXCEPT ![q] = to]

-----------------------------------------------------------------------------
(* Keys: python -m taskq_api key create, and revoke_api_key()               *)

KeyInsert(k) ==
    /\ key[k] = "absent"
    /\ key' = [key EXCEPT ![k] = "inserted"]
    /\ UNCHANGED <<printed, tokens, tasks, runnerVars, requestVars, reported, historyVars>>

\* The transaction commits, or rolls back and the command ends.
KeyCommit(k) ==
    /\ key[k] = "inserted"
    /\ \E end \in {"active", "absent"} : key' = [key EXCEPT ![k] = end]
    /\ UNCHANGED <<printed, tokens, tasks, runnerVars, requestVars, reported, historyVars>>

\* mutant: the key is printed inside the transaction
KeyPrintEarly(k) ==
    /\ key[k] # "absent"
    /\ k \notin printed
    /\ printed' = printed \cup {k}
    /\ UNCHANGED <<key, tokens, tasks, runnerVars, requestVars, reported, historyVars>>

\* cmd_key_create() prints the plaintext after its transaction.
KeyPrint(k) ==
    /\ key[k] \in {"active", "revoked"}
    /\ k \notin printed
    /\ printed' = printed \cup {k}
    /\ UNCHANGED <<key, tokens, tasks, runnerVars, requestVars, reported, historyVars>>

Revoke(k) ==
    /\ key[k] = "active"
    /\ key' = [key EXCEPT ![k] = "revoked"]
    /\ tokens' = [tokens EXCEPT ![k] = 0]
    /\ UNCHANGED <<printed, tasks, runnerVars, requestVars, reported, historyVars>>

-----------------------------------------------------------------------------
(* The lifespan: requests are served when the runner has started, or without *)
(* one where there is no lifespan; it refuses runs from the beginning of     *)
(* close(), and is withdrawn at its end.                                     *)

Advance(from, to) ==
    /\ runner = from
    /\ runner' = to
    /\ UNCHANGED <<keyVars, tokens, tasks, queued, requestVars, reported, historyVars>>

Lifespan == Advance("open", "closing") \/ Advance("closing", "none")

-----------------------------------------------------------------------------
(* A request                                                                *)

\* mutant: one transaction for the dependency and the handler
FailRefunds(q, e) ==
    /\ error' = [error EXCEPT ![q] = e]
    /\ answer' = [answer EXCEPT ![q] = StatusOf[e]]
    /\ tokens' = IF pc[q] \in {"admitted", "authorised", "working"} /\ tokens[call[q].key] < Burst
                 THEN [tokens EXCEPT ![call[q].key] = @ + 1] ELSE tokens
    /\ Go(q, "answered")

\* An exception ends the transaction it is raised in, and is answered.
Fail(q, e) ==
    /\ error' = [error EXCEPT ![q] = e]
    /\ answer' = [answer EXCEPT ![q] = StatusOf[e]]
    /\ UNCHANGED tokens
    /\ Go(q, "answered")

\* What a client knows of a task by the answers so far.
Told(t) ==
    IF \E r \in Requests : call[r].op = "delete" /\ call[r].task = t /\ answer[r] = 204
    THEN "gone"
    ELSE IF t \in Stored \/ (t \in Requests /\ answer[t] = 201) THEN "there" ELSE "nothing"

\* A client names tasks and keys that it can know of.  The body is parsed before
\* any dependency is called.
Send(q, c) ==
    /\ pc[q] = "new"
    /\ c.key \in printed \cup {NoKey}
    /\ c.task \in tasks \cup {NoTask} \/ Told(c.task) # "nothing"
    /\ call' = [call EXCEPT ![q] = c]
    /\ past' = [past EXCEPT ![q] = Told(c.task)]
    /\ IF c.form = "malformed"
       THEN Fail(q, "Malformed")
       ELSE Go(q, "sent") /\ UNCHANGED <<tokens, error, answer>>
    /\ UNCHANGED <<keyVars, tasks, runnerVars, reported>>

\* fetch_active_api_key() finds the row of the key that was sent.
Active(k) == k \in Keys /\ key[k] = "active"

\* get_principal(): nobody but an active key is charged, in a transaction of
\* its own.
Admit(q) ==
    LET k == call[q].key
    IN  /\ pc[q] = "sent"
        /\ \/ Fail(q, "Authentication")
           \/ /\ ~Active(k)
              /\ Fail(q, "Unauthenticated")
           \/ /\ Active(k)
              /\ tokens[k] = 0
              /\ Fail(q, "RateLimited")
           \/ /\ Active(k)
              /\ tokens[k] > 0
              /\ tokens' = [tokens EXCEPT ![k] = @ - 1]
              /\ Go(q, "admitted")
              /\ UNCHANGED <<error, answer>>
        /\ UNCHANGED <<keyVars, tasks, runnerVars, reported, historyVars>>

\* mutant: the scope is checked by the transaction of the handler
AuthoriseLate(q) ==
    /\ pc[q] = "admitted"
    /\ IF call[q].form = "invalid" THEN Fail(q, "Validation")
       ELSE IF call[q].task \notin tasks \cup {NoTask} THEN Fail(q, "NotFound")
       ELSE IF ~Satisfies(q) THEN Fail(q, "Forbidden")
       ELSE IF call[q].op = "run" /\ runner = "none" THEN Fail(q, "NotReady")
       ELSE Go(q, "authorised") /\ UNCHANGED <<tokens, error, answer>>
    /\ UNCHANGED <<keyVars, tasks, runnerVars, reported, historyVars>>

\* The parameters and the body are validated, the handler requires its scope,
\* and a run asks for the runner.
Authorise(q) ==
    /\ pc[q] = "admitted"
    /\ IF call[q].form = "invalid" THEN Fail(q, "Validation")
       ELSE IF ~Satisfies(q) THEN Fail(q, "Forbidden")
       ELSE IF call[q].op = "run" /\ runner = "none" THEN Fail(q, "NotReady")
       ELSE Go(q, "authorised") /\ UNCHANGED <<tokens, error, answer>>
    /\ UNCHANGED <<keyVars, tasks, runnerVars, reported, historyVars>>

-----------------------------------------------------------------------------
(* The handlers, up to the commit of their transaction                      *)

Looks(q, op) == pc[q] = "authorised" /\ call[q].op = op

\* mutant: the answer is sent inside the transaction
WorkAnswered(q) ==
    /\ Go(q, "working")
    /\ answer' = [answer EXCEPT ![q] = SuccessOf[call[q].op]]
    /\ UNCHANGED <<tokens, error>>

Work(q) == Go(q, "working") /\ UNCHANGED <<tokens, error, answer>>

Working(op) == {r \in Requests : pc[r] = "working" /\ call[r].op = op}

\* An insert waits for the transaction that has inserted the same name.
Create(q) ==
    /\ Looks(q, "create")
    /\ \A r \in Working("create") : call[r].name # call[q].name
    /\ IF \E t \in tasks \cap Requests : call[t].name = call[q].name
       THEN Fail(q, "Conflict")
       ELSE Work(q)
    /\ UNCHANGED <<keyVars, tasks, runnerVars, reported, historyVars>>

\* A cursor that cannot be decoded is a TaskRepoError, which no handler knows.
List(q) ==
    /\ Looks(q, "list")
    /\ IF call[q].form = "badCursor" THEN Fail(q, "TaskRepo") ELSE Work(q)
    /\ UNCHANGED <<keyVars, tasks, runnerVars, reported, historyVars>>

Get(q) ==
    /\ Looks(q, "get")
    /\ IF call[q].task \in tasks THEN Work(q) ELSE Fail(q, "NotFound")
    /\ UNCHANGED <<keyVars, tasks, runnerVars, reported, historyVars>>

\* delete_task() is silent about a task that is not there.
Delete(q) ==
    /\ Looks(q, "delete")
    /\ Work(q)
    /\ UNCHANGED <<keyVars, tasks, runnerVars, reported, historyVars>>

Locked(t) == \E r \in Working("run") : call[r].task = t

\* The task is locked, its run submitted; submit() refuses it once close() began.
\* TaskNotFoundError takes no detail: to raise it with one is a TypeError.
Run(q) ==
    /\ Looks(q, "run")
    /\ ~Locked(call[q].task)
    /\ IF call[q].task \notin tasks THEN Fail(q, "TypeError") /\ UNCHANGED queued
       ELSE IF runner # "open" THEN Fail(q, "NotReady") /\ UNCHANGED queued
       ELSE Work(q) /\ queued' = queued \cup {q}
    /\ UNCHANGED <<keyVars, tasks, runner, reported, historyVars>>

\* The rejections are counted by the buckets that hold less than a token.
Metrics(q) ==
    /\ Looks(q, "metrics")
    /\ reported' = [reported EXCEPT ![q] = Cardinality({k \in Keys : tokens[k] = 0})]
    /\ Work(q)
    /\ UNCHANGED <<keyVars, tasks, runnerVars, historyVars>>

\* mutant: the context manager commits and swallows what the commit raises
RollBackSilently(q) ==
    /\ pc[q] \in {"authorised", "working"}
    /\ Go(q, "done")
    /\ UNCHANGED <<keyVars, tokens, tasks, runnerVars, error, answer, reported, historyVars>>

\* A statement or the commit raises.
RollBack(q) ==
    /\ pc[q] \in {"authorised", "working"}
    /\ Fail(q, "Database")
    /\ UNCHANGED <<keyVars, tasks, runnerVars, reported, historyVars>>

\* The rows of a delete are waited for at the end of its transaction.
Commit(q) ==
    /\ pc[q] = "working"
    /\ call[q].op = "delete" => ~Locked(call[q].task)
    /\ tasks' = CASE call[q].op = "create" -> tasks \cup {q}
                  [] call[q].op = "delete" -> tasks \ {call[q].task}
                  [] OTHER -> tasks
    /\ Go(q, "done")
    /\ UNCHANGED <<keyVars, tokens, runnerVars, error, answer, reported, historyVars>>

Respond(q) ==
    /\ pc[q] = "done"
    /\ answer' = [answer EXCEPT ![q] = SuccessOf[call[q].op]]
    /\ Go(q, "answered")
    /\ UNCHANGED <<keyVars, tokens, tasks, runnerVars, error, reported, historyVars>>

-----------------------------------------------------------------------------
Handler(q) == Create(q) \/ List(q) \/ Get(q) \/ Delete(q) \/ Run(q) \/ Metrics(q)

RequestStep(q) ==
    \/ \E c \in Calls : Send(q, c)
    \/ Admit(q) \/ Authorise(q) \/ Handler(q) \/ RollBack(q) \/ Commit(q) \/ Respond(q)

KeyStep(k) == KeyInsert(k) \/ KeyCommit(k) \/ KeyPrint(k) \/ Revoke(k)

Next ==
    \/ \E q \in Requests : RequestStep(q)
    \/ \E k \in Keys : KeyStep(k)
    \/ Lifespan

Spec == Init /\ [][Next]_vars

-----------------------------------------------------------------------------
(* Properties                                                               *)

\* "Scope checks happen before the resource is fetched so 403 responses do not
\* leak existence" (deps.py): an answer that depends on what is stored, and any
\* effect, is for a key that has the scope; whoever lacks it is told the same
\* whether the task is there or not.
ExistenceHidden ==
    \A q \in Requests :
        \/ error[q] \in {"NotFound", "TypeError", "Conflict", "TaskRepo", "NotReady", "Database"}
        \/ answer[q] \in {200, 201, 202, 204}
        \/ q \in tasks \cup queued
        => call[q].key \in Keys /\ Satisfies(q)

\* The requests that got past get_principal().
Passed(k) ==
    {q \in Requests : call[q].key = k /\ pc[q] \notin {"new", "sent"}
        /\ error[q] \notin {"Malformed", "Authentication", "Unauthenticated", "RateLimited"}}

\* A request costs its key one token, whatever becomes of it: it is neither
\* charged twice nor given the token back when its handler fails and rolls back.
ChargedOnce ==
    \A k \in Keys : key[k] # "revoked" => tokens[k] + Cardinality(Passed(k)) = Burst

\* A key that was printed works until it is revoked: the plaintext is never shown
\* of a key whose insertion may still fail.
PrintedKeyWorks ==
    \A q \in Requests :
        error[q] = "Unauthenticated" /\ call[q].key # NoKey => key[call[q].key] = "revoked"

\* What has been answered holds for every later request: a task that was deleted
\* is not found or run again, and one that was created is found unless a DELETE
\* of it has been sent.
AnswersHold ==
    \A q \in Requests :
        /\ answer[q] \in {200, 202} => past[q] # "gone"
        /\ error[q] \in {"NotFound", "TypeError"} /\ past[q] = "there" =>
             \E r \in Requests : call[r].op = "delete" /\ call[r].task = call[q].task

Deleted(t) ==
    \E r \in Requests : call[r].op = "delete" /\ call[r].task = t
                          /\ (pc[r] = "done" \/ answer[r] = 204)

\* "commit() on success and rollback() on any exception" (session.py), as the
\* client sees it: a create or a delete has its effect exactly when it succeeds,
\* and a run that was refused was not queued, unless its own commit failed.
EffectMatchesAnswer ==
    /\ \A q \in Requests :
         /\ q \in tasks => answer[q] \in {0, 201}
         /\ answer[q] = 201 => q \in tasks \/ Deleted(q)
         /\ answer[q] = 202 => q \in queued
         /\ q \in queued => answer[q] \in {0, 202} \/ error[q] = "Database"
    /\ \A t \in Stored \ tasks : Deleted(t)
    /\ \A q \in Requests : answer[q] = 204 => call[q].task \notin tasks

\* "The runner.submit returns a run_id that the same transaction commits"
\* (run_task_endpoint): a run is executed only if its request is accepted.
RefusedIsNotRun == \A q \in queued : answer[q] \in {0, 202}

\* "Unknown task id: HTTP 404" (SPEC FR-01 and section 7): whoever reads or runs a
\* task after its deletion was answered is told 404, or 500 by a database that fails.
UnknownIs404 ==
    \A q \in Requests :
        past[q] = "gone" /\ call[q].op \in {"get", "run"} /\ answer[q] = 500 =>
            error[q] \in {"Authentication", "Database"}

\* "rate-limit rejections" (metrics): what is reported is the number of requests
\* that were answered 429.
RejectionsReported ==
    \A q \in Requests : answer[q] = 200 /\ call[q].op = "metrics" =>
        reported[q] <= Cardinality({r \in Requests : answer[r] = 429})
=============================================================================

# taskq-api in TLA+

A model of the task queue service in `03-development/src/taskq_api` and of its
Alembic migrations: TLA+ modules translated from the Python source, TLC
configurations that check them on small instances, and TLAPS proofs about all of
them for every number of runs, workers, requests, threads or tasks.

`PROJECT.json` lists the components, the runs with their properties, the source
lines of every definition, the mutants that show that each property can fail,
the hazards, the findings and the theorems.

## 1. The system

| Component | State | Operations | Talks to |
|---|---|---|---|
| Background runner, `service/runner.py` | bounded `asyncio.Queue`, worker tasks, child processes, `_started`, `_closed` | `start`, `submit`, `close`; worker loop, dispatch, subprocess with timeout and shielded reap | the run endpoint (await of `submit`), the recorder (callback), the operating system |
| Rate limiter, `service/ratelimit.py`, `repository/rate_repo.py` | `rate_buckets` rows | `take_token`, `init_rate_bucket`, `_reset_bucket_for_key` | every `/v1` route through `get_principal` |
| API keys, `repository/key_repo.py`, `service/auth.py` | `api_keys` rows | create, authenticate, list, revoke (which empties the bucket) | rate limiter |
| Tasks, `api/tasks.py`, `service/tasks.py`, `repository/task_repo.py` | `tasks`, `tags`, `task_tags`, `task_results` | create, get, list, delete, run, record, list runs | runner, database |
| Engine and sessions, `repository/session.py` | `_engine`, `_sessionmaker`, `_url_in_use` under `_lock`; pool, row locks | `transaction`, `select_for_update(_or_pass)`, `get_engine`, `get_sessionmaker`, `configure_engine`, `set_engine`, `reset_engine` | everything that reads or writes |
| Migrations, `migrations/versions` | schema revision, the data it moves | `upgrade` and `downgrade` of v1 to v4 | ORM, readiness, command line |
| Health, `api/health.py` | none | `healthz`, `readyz`, `metrics` | migrations, database, rate limiter |
| Gate, `api/deps.py`, `service/auth.py` | none | `get_principal`, `require_scope` | every `/v1` handler |
| Error contract, `errors.py` | none | exception handlers: which exception is which answer | every handler |
| Command line, `__main__.py` | none | `key create`, `migrate`, `serve`, `healthcheck`, `initdb` | API keys, migrations |
| Settings, schemas, logging, redaction | none, or read once | pure functions | – |

How the parts meet, and what is hard:

* Coroutines of one event loop: `POST /run`, the workers, `close()`. They switch
  only at awaits that suspend. `asyncio.Queue` puts that wait for room are woken
  one by one and look at the queue again when they resume.
* Synchronous database calls inside coroutines (`run_task_endpoint`, the
  recorder): while they wait, for a row lock or a connection, nothing else on
  the loop runs. The other handlers are plain functions on threads.
* Row locks on PostgreSQL, none on SQLite (`select_for_update_or_pass`).
* Timeouts (a run, the reap, the drain), cancellation by `close()`, children that
  exit by themselves at the same time (`wait_for` of Python 3.11 then forgets the
  cancellation), exceptions that end a worker.
* Concurrent transactions with unique indexes: tags, names, buckets.
* Data that is moved up and down between revisions while the program goes on, and
  probes that read the revision meanwhile.
* A request has two transactions, that of `get_principal` and that of its handler;
  any statement or commit may raise, and what was committed by then stays.
* Threads that read the globals of `session.py` without the lock under which others
  replace them.

What makes each part correct:

* runner: a run is executed and recorded at most once; children are always owned
  and never more than workers; `join()` counts exactly the work; a graceful close
  completes what was accepted; nothing happens after `close()`; nobody waits for
  ever;
* rate limiter: never more admissions than burst and refill allow, no unjustified
  denial, `Retry-After` that suffices, revocation that is final;
* run endpoint: no run for a deleted task, no row without a task, every queued run
  brought to the recorder, every caller answered, nothing leaked;
* creation: all or nothing, one task per name, every call ends;
* pagination: no duplicate, no omission, order, progress;
* migrations: results survive, failed upgrades included, schema and ORM agree;
* readiness: 200 only over a whole schema, and an answer that follows the database;
* the API as a whole: nothing is learnt or changed without the scope, a request
  costs one token, an answer says what was committed and goes on to hold, a key
  that was printed works;
* engine: the globals belong together, nothing is replaced without cause or left
  with an open pool, nobody is handed a missing engine.

## 2. Modules

| Module | Models | State and actions |
|---|---|---|
| `TaskRunner` | `BackgroundRunner`, `run_subprocess`, `_kill_and_wait` | one action per stretch of code between two suspending awaits: `Submit`/`ResumeSubmit` around the await of `put`, `Launch`/`FailToStart`/`Crash`/`Stop` after a `get`, `Communicated`/`TimedOut` and `Finish` of a run, `CancelIdle`, `CancelRunning`, `CancelReaping` and `FinishCancelled` for where a `CancelledError` can hit, `CancelSwallowed` for the `wait_for` that forgets it (`spared` is the set of workers this happened to), `Close`/`ResumeClose`/`DrainTimeout`/`CancelWorkers`/`CloseReturns` of `close()` |
| `RunLifecycle` | the promise about one run_id | new → refused, or (waiting →) accepted → executing → recorded; lost only by a recorder that may fail, abandoned only by the final cancellation or with the worker its own command ends, and nothing but `Accept` of a run that waited once the service is closed; `TaskRunner` is shown to implement it by the refinement mapping `phaseOf`/`serviceOf` |
| `RateLimit` | `get_principal` for the requests of one key, and `revoke_api_key` | one action per SQL statement with the Python code up to the next one; tokens in units of 1/`Scale`, time in ticks; `Naive` is what `updated_at` keeps of a time written without its zone |
| `TokenBucket` | the promise about one key | a bucket that admits, denies, rejects or fails a request in one step; `RateLimit` is shown to implement it with row locks, the committed row and the answers being its state (`answerOf`) |
| `TaskRuns` | `POST /run`, recorder and `DELETE` over the database, pool and event loop | `loop` says whose synchronous call blocks the event loop, `conns` who holds a connection, `rowLock` who holds a task; the runner is reduced to its queue and workers; `Raises` is the exception of any connection, statement or commit, `Starts` the command that ends its worker |
| `TaskCreate` | `create_task`, `_upsert_tags` | `claim` is what a transaction has inserted into a unique index, `found` the labels its `SELECT` saw |
| `TaskCatalogue` | the promise of `POST /v1/tasks` | a call is created, refused for its name or failed in one step; `TaskCreate` is shown to implement it |
| `Pagination` | `list_tasks` page by page | `Fetch` is a request, `Create`/`Delete`/`ChangeStatus` happen in between; `returned` and `stable` are history |
| `Migrations` | the four revisions | an action per `upgrade`/`downgrade`, the results the program writes in between |
| `Readiness` | `GET /readyz`, extends `Migrations` | a probe pings in one session and reads the revision over a second connection (`Ping`, `ReadRevision`, with `Checkout` and `NoConnection` before each); `Flip` is the database going away and coming back |
| `Api` | every `/v1` route from the parse of its body to its answer, the issue and revocation of keys, the lifespan | `Send` (body), `Admit` (`get_principal`, its own transaction), `Authorise` (validation, `require_scope`, `_runner_from_state`), one action per handler, `Commit`/`RollBack`, `Respond`; `Fail` is what `errors.py` makes of an exception |
| `EngineConfig` | the globals of `session.py` | `pc` is where a thread is between two accesses to a global; `lock` is `_lock`; every call is one of `Begin`, every later access one of `Step` |
| `TaskRunnerProofs`, `RateLimitProofs`, `TaskRunsProofs`, `TaskCreateProofs`, `PaginationProofs`, `ReadinessProofs`, `ApiProofs`, `EngineConfigProofs` | proofs | see section 5 |

An `MC…` module adds the definitions a run needs, such as the symmetry TLC uses; where
there are none (`Pagination`, `Readiness`, `EngineConfig`) TLC runs the module itself.
Runs with liveness properties use no symmetry. Operators whose comment begins with
`mutant:` are plausible bugs; no specification uses them (`mutants` in `PROJECT.json` says
which definition each would replace, and which property then fails).

How they fit together. `Api` is the composition: it takes the transactions of the
others as one step each, with the locks PostgreSQL gives them, and asks what the
client sees of them. `RateLimit` opens the transaction of `get_principal` up into
its statements, `TaskCreate` that of a create, `TaskRuns` those of a run request, a
recorder and a DELETE. `TaskRunner` has all of the runner and no database, `TaskRuns`
all of the database and of the runner only what a caller of `submit` and a recorder
see. `Readiness` runs beside every step of `Migrations`.

## 3. Assumptions of the models

* A timeout may fire at any moment while its wait is on. No property depends on
  a duration; where one rate meets another (the bucket) time is a counter.
* A transaction is atomic at its commit. On PostgreSQL plain reads see what is
  committed (READ COMMITTED) and `FOR UPDATE` waits; a statement that writes a
  row another transaction has written waits in any case.
* `RowLocks = TRUE` stands for PostgreSQL, `FALSE` for SQLite, the default of
  `config.py`. `RoundsTokens = TRUE` is the Integer column of `tokens` on
  PostgreSQL (SQLite keeps the fraction). `RateLimit_postgres` is PostgreSQL as it
  is: `WindowBound` and `DenialJustified` allow for the half token that storing a
  row may win or lose (`TwiceSpent`, `TwiceAllowed`, `TwiceRounded` count in
  halves of a unit), and no more. `ExactWindowBound` is the bound without that
  allowance, which the column does not keep.
* `Zone` is how far east of UTC the `TimeZone` of the database sessions is. A refill stores
  its time without a zone in a column that has one (`rate_repo.py:95`, `orm.py:174-176`),
  and PostgreSQL takes it for a time of the session's zone; the times of a new bucket and
  of the revocation go with their zone. Nothing in the repository sets the zone.
  `RateLimit_postgres` and the theorems about the bucket assume `Zone = 0`, a server in
  UTC; SQLite keeps the naive time and `take_token` reads it as UTC, which is `Zone = 0`
  too. `RateLimit_west` and `RateLimit_east` show what the code does elsewhere.
* The second look at the key in `consume_or_raise` reads the database: the key
  object that `authenticate` loaded has no reference left and CPython has removed
  it from the weak identity map by then.
* Models with `RowLocks = TRUE` that write a status presuppose a schema made by
  `initdb` (`create_all`): with the enum of the migrations no status can be
  written on PostgreSQL (`Migrations_enum.cfg`).
* `revoke_api_key` has no caller outside the tests; its transaction is the one the
  repository's other writers use.
* `FailToStart` is the whole way from `get` to `task_done` without suspension: the
  recorder is a coroutine that never awaits.
* `TaskRunner` has the `wait_for` of both Python versions the project allows: a worker
  that is cancelled when its child's output is complete may be cancelled all the same
  (3.12) or go on as if nothing had happened (3.11), `CancelSwallowed`.
* The outcome of a run in `TaskRuns` is any of `Endings`: done, failed, timeout, not
  started. The command belongs to the task, so that the `Malformed` requests are those
  for an `Unreadable` task. With `MayRaise` any checkout, statement or commit may raise,
  in a request, a recorder or a DELETE, and so may `submit()` on a closed runner; the
  commit after the run was queued is the answer `unconfirmed` (500). An exception of a
  statement that waits for a lock is one before it. A commit that takes effect and is
  reported as failed is left out.
* `Api` is PostgreSQL: a run request locks its task, a DELETE waits for it, an insert
  waits for another one of its name. Buckets are not refilled, so that a token that
  is given back or spent twice shows. `NoKey` is a request without a key or with one
  that was never issued. A client names the tasks it was told of and the keys that
  were printed; of its tasks it may know one from an answer that is older than a
  DELETE.
* `Readiness`: DDL rolls back (`Transactional`, PostgreSQL). The pool is as large as the number of
  probes, as other users of the pool give their connections back (`NothingLeaks`).
* `EngineConfig`: `create_engine` may raise or return; an engine given to
  `set_engine` is one that was just built or one that was set before. The URL is all
  that matters of the settings.
* The writer of `result_json` at v1 and v2 is not in the repository; one result per
  task is what the column can hold.

## 4. Runs

Passing runs:

| Run | Bounds | Shows |
|---|---|---|
| `TaskRunner_safety` | 4 runs, 2 workers, queue of 2, one malformed command, recorder may raise, cancellations may be swallowed | `ChildOwned`, `ConcurrencyBound`, `JoinAccounting`, `GracefulDrain`, `NoLostWakeup`, `QuietAfterClose` and the refinement `ImplementsLifecycle` |
| `TaskRunner_live` | 3 runs, 1 worker, queue of 1, no malformed command | accepted runs are settled, blocked callers return, `close()` ends |
| `RateLimit_postgres` | 3 requests, burst 2, 2/3 token per tick, 5 instants, row locks, Integer column, sessions in UTC | `WindowBound`, `DenialJustified`, `RetryAfterSuffices`, `QuietAfterRevoke`, the refinement `ImplementsBucket`, and `RequestAnswered` in spite of the opposite lock orders |
| `TaskRuns_safety` | 3 requests, 2 tasks, 1 DELETE, 1 worker, queue of 1, pool of 2, row locks, anything may raise | `NeverInterleaved`, `NoOrphanRows`, `NothingLeaks` |
| `TaskRuns_live` | 3 requests, one of them for the second of 2 tasks, whose command ends its worker, 1 DELETE, 2 workers, queue of 1, pool of 4, no row locks, anything may raise | `Answered`, `AcceptedIsRecorded`, of the runs whose command can be read, as long as a worker is left (`SomeWorkerStays`) |
| `TaskCreate_calls` | 3 calls, 2 names, 2 labels in every order | `AllOrNothing`, the refinement `ImplementsCatalogue`, `EveryCallEnds` |
| `Pagination_pages` | 4 ids, 2 times, pages of 1 or 2 (each request chooses), a status filter | `NewestFirst` (strict, so that nothing comes twice), `WalkComplete`, `CursorPromisesMore` |
| `Readiness_probes` | 2 tasks, 2 names, 2 payloads, 3 results, 4 run ids, a probe and its connection | `FirstResultKept` of the migrations, failed upgrades included; `ReadyMeansMigrated`, `VerdictFollows` |
| `Api_requests` | 2 requests of any operation and form, 1 stored task, 1 name, a key that administrates and one that is yet to be issued and reads, burst 1 | `ExistenceHidden`, `PrintedKeyWorks`, `ChargedOnce`, `AnswersHold`, `EffectMatchesAnswer` |
| `EngineConfig_threads` | 2 threads, 4 calls, 2 engines, 2 URLs, one with a password | `GlobalsAgree`, `NoneOnlyAfterReset`, `ReplacedIsDisposed`, `ReplacedForCause` |

Why the bounds are enough: with two workers and a queue of two, four runs fill the
workers and the queue, or leave callers waiting while a sentinel is put; one run of
the four may kill its worker, so that the accounting is checked after a death, after
both kinds of cancellation and after a normal end. Three requests on a burst of two
give two admissions and a denial, or a request that is under way during both, and
the revocation meets any of them at any statement. A pool of two is used up by a
waiting caller and a DELETE. Two workers, one of which dies, leave the queue to the
other, with a put that waits and one behind it. Ties of `created_at` need two tasks with
one time, a page boundary inside a tie a third. Two labels are the least with two orders.
Three results of one task go through a downgrade and come back with one more.

Runs that end in a counterexample, each a disagreement of the code with its own
documentation (`findings` in `PROJECT.json` quotes the lines):

| Run | What happens |
|---|---|
| `TaskRunner_hang` | an unbalanced quote in a command ends its worker for good, and `close()` waits for room, outside its timeout, behind dead workers |
| `TaskRuns_frozen` | a row lock held across the await of `submit` stops the event loop |

### Further configurations that end in a counterexample

These `.cfg` files are kept for the reader and are not among the runs of
`PROJECT.json`; `tlc -config X.cfg` with the module, or its `MC` module where there is one,
shows the trace of each in seconds. Each property is what the quoted place says.

| Configuration | Property | What the code does | What is said |
|---|---|---|---|
| `TaskRunner_durable` | `IdIsDurable` | the drain timeout (`runner.py:340`) drops accepted runs without a row | "The id is durable: once `submit` returns, the same id will be written to `task_results.run_id`" (`runner.py:237`) |
| `TaskRunner_late` | `NoStrandedRun` | a `submit()` that waited for room lands behind the sentinels and returns an id nobody executes (`runner.py:250`) | callers must not "receive a `run_id` that no worker will ever pick up" (`runner.py:243-244`) |
| `TaskRunner_crash` | `AcceptedIsSettled` | `shlex.split` raises `ValueError` on an unbalanced quote (`runner.py:95`); the worker is not replaced and the runs behind wait for ever | "every accepted run produces exactly one task_results row" (`runner.py:272`) |
| `TaskRunner_reap` | `ReapedAtClose` | a worker cancelled while it reaps leaves the shielded reap behind (`runner.py:119`), `close()` may return first | "the reaper runs on every exit path" and cancellation never abandons a child (`runner.py:10-12`) |
| `RateLimit_rounding` | `ExactWindowBound` | the Integer column (`orm.py:173`) gives back up to half a token per charge | burst and rate of SPEC.md:117; the column is declared `Mapped[float]` |
| `RateLimit_sqlite` | `WindowBound` | without row locks two requests spend one token (`session.py:198`) | row-level lock "to avoid race over-admission" (`rate_repo.py:5-6`); `ratelimit.py:42-44` admits the gap for SQLite |
| `RateLimit_west` | `RetryAfterSuffices` | on a server west of UTC a refill stores an instant that is hours ahead (`rate_repo.py:95`), and a client that waited is denied again | "``retry_after`` is the seconds the caller must wait before another request would succeed" (`rate_repo.py:66-67`) |
| `RateLimit_east` | `WindowBound` | on a server east of UTC a refill stores an instant that is hours ago, and the next request finds a full bucket (`rate_repo.py:95`) | burst and rate of SPEC.md:117 |
| `TaskRuns_pool` | `LostOnlyWithTask` | waiting callers hold every connection, the recorder gets none, a result is lost (pool of 2; the code has 5 and an overflow of 10) | "every accepted `/run` produces a row in `task_results`" (`runner.py:305-306`) |
| `TaskRuns_orphan` | `NoOrphanRows` | on SQLite a recorder crosses a DELETE and leaves a row without a task | "Hard-delete the task and its run rows" (`api/tasks.py:89`) |
| `TaskRuns_status` | `TimeoutMeansTimeout` | a run that never started becomes `timeout` (`service/tasks.py:169`) | "a synthetic `TaskStatus.FAILED` recorder call" (`runner.py:19-20`) |
| `TaskCreate_tagrace` | `NoSpuriousFailure` | two creates insert one tag; the second ends in an uncaught `IntegrityError` (`task_repo.py:108`) | "Idempotently resolve `labels`" (`task_repo.py:87`) |
| `Migrations_loss` | `NothingLost` | the downgrade of v3 keeps one result per task (`v3_split_results.py:112`) | the data must not be lost (SPEC.md:138) |
| `Migrations_columns` | `ColumnsKept` | the upgrade invents `run_id` and times (`v3_split_results.py:78`) | "preserving every column" (`v3_split_results.py:7-10`) |
| `Migrations_halfway` | `UpgradeRetriable` | where DDL is not transactional, a failed v2 leaves its tables behind | upgrade and downgrade "must both succeed" (SPEC.md:140) |
| `Migrations_enum` | `HeadTakesStatuses` | the migrations name the values of `TaskStatus`, the ORM writes the names of its members (`orm.py:110`) | v4: "the new `UNKNOWN` value lets the service distinguish" |
| `Api_unknown` | `UnknownIs404` | `POST /run` of an unknown id raises `TaskNotFoundError(detail=...)`, whose `__init__` takes no argument (`service/tasks.py:21`): a `TypeError`, answered 500 | unknown task id: 404 (SPEC.md:89 and 394) |
| `Api_refused` | `RefusedIsNotRun` | the run is queued before the transaction of the request commits; if that fails, the client is told 500 and the run is executed | "returns a `run_id` that the same transaction commits" (`api/tasks.py:118-119`) |
| `Api_rejections` | `RejectionsReported` | `metrics` counts the buckets that hold less than a token (`health.py:147`) | "rate-limit rejections" (`health.py:117`) |
| `Readiness_elsewhere` | `ReadyFromAnywhere` | `alembic.ini` is found by an absolute path, its `script_location = migrations` by the working directory | "This removes the CWD dependency" (`health.py:21-22`) |

More disagreements are visible in the definitions without a run: a cursor that
cannot be decoded is answered 500 (`List`, `StatusOf` of `Api`), a DELETE of an unknown
id 204 (`Delete`), a request opens two sessions where `session.py:4` says one, nothing
writes the status `running` of SPEC.md:97 (`Statuses` of `TaskRuns`), and a worker whose
cancellation was swallowed goes on executing after the drain timeout (`CancelSwallowed`),
where `runner.py:24-25` says that close "abandons anything still running".

### Fairness

* `TaskRunner`: weak fairness of the resumption of a woken put, of each worker's
  steps and of `close()` once called (asyncio runs what is ready, timers fire), and
  of the death of a child that is being killed (SIGKILL). A child nobody kills may
  run for ever; nobody has to call `submit` or `close`.
* `RateLimit`: a statement whose lock is free returns, and the database ends a
  deadlock by aborting one of its transactions. No request has to be sent or fail.
* `TaskRuns`: the loop, the threads and the database go on; a run ends, at the
  latest by its timeout; the pool's timeout fires. No call has to arrive, and nothing has
  to raise. Both properties are conditional on `SomeWorkerStays`: once malformed commands
  have ended all workers nobody takes a run (`TaskRunner_crash`, `TaskRunner_hang`).
* `TaskCreate`: every transaction goes on, and the database aborts a deadlock.
* `Readiness`: the orchestrator goes on polling, statements return or fail, and the
  pool's timeout fires. Nothing is assumed of the database or of the migrations.
* `Api` and `EngineConfig` have no liveness property and no fairness.

`CHECK_DEADLOCK FALSE` is in every configuration: all these systems stop when the
finite set of calls is used up.

## 5. Proofs

Every theorem holds for all values of the constants under the named assumptions of
its module (`WorkersAssumption`, `BoundAssumption`, ...), which TLC evaluates too.

| Module | Theorem | States |
|---|---|---|
| `TaskRunnerProofs` | `TypeCorrect` | `Spec => []TypeOK` |
| | `JoinCountsWork` | `Spec => []JoinAccounting` |
| | `ExecutedAtMostOnce` | `Spec => []AtMostOnce` |
| | `NoChildAbandoned` | `Spec => []ChildOwned` |
| | `WorkBeforeSentinels` | `Spec => []SentinelsBehindWork` |
| | `ClosedIsQuiet` | `Spec => QuietAfterClose` |
| | `ProcessesAreBounded` | `Spec => []ConcurrencyBound` |
| | `DrainIsComplete` | `Spec => []GracefulDrain` |
| | `PutsAreWoken` | `Spec => []NoLostWakeup` |
| | `RunnerImplementsLifecycle` | `Spec => ImplementsLifecycle` |
| `RateLimitProofs` | `WindowIsBounded`, `RetryIsEnough` | `RowLocks` and `Zone = 0` imply `Spec => []` of `WindowBound`, `RetryAfterSuffices` |
| | `WindowIsExact` | `RowLocks`, `Zone = 0` and `~RoundsTokens` imply `Spec => []ExactWindowBound` |
| | `DenialsAreJustified` | `RowLocks` and `Zone = 0` imply `Spec => DenialJustified` |
| | `RevocationIsFinal` | `RowLocks` implies `Spec => QuietAfterRevoke`, in any zone |
| | `LimiterImplementsBucket` | `RowLocks` and `Zone = 0` imply `Spec => ImplementsBucket` |
| `TaskRunsProofs` | `TransactionsEnd` | `Spec => []NothingLeaks` |
| | `DeleteIsNeverBetween` | `RowLocks` implies `Spec => []NeverInterleaved` |
| | `RowsGoWithTheirTask` | `RowLocks` implies `Spec => []NoOrphanRows` |
| `TaskCreateProofs` | `NoTagLeftBehind`, `NamesAreUnique` | `Spec => []AllOrNothing`, `Spec => []OneTaskPerName` |
| | `CreatesImplementCatalogue` | `Spec => ImplementsCatalogue` |
| `PaginationProofs` | `PagesAreOrdered`, `PagesAreComplete` | `Spec => []NewestFirst`, `Spec => []WalkComplete` |
| | `CursorsAreHonest` | `Spec => CursorPromisesMore` |
| `ReadinessProofs` | `ReadyIsMigrated` | `ProbeSpec => []ReadyMeansMigrated` |
| | `MigratedData`, `OldestSurvives` | `ProbeSpec => []DataInv`, `ProbeSpec => []FirstResultKept` |
| | `ConnectionsGoBack` | `ProbeSpec => [](ProbeTypeOK /\ Cardinality(conns) <= PoolSize)` |
| `ApiProofs` | `NoLeak`, `PrintedIsUsable`, `OneTokenEach`, `AnswersStand`, `AnswersAreTrue` | `[]` of `ExistenceHidden`, `PrintedKeyWorks`, `ChargedOnce`, `AnswersHold`, `EffectMatchesAnswer` |
| `EngineConfigProofs` | `GlobalsBelongTogether`, `NoneMeansReset`, `NoEngineLeaks`, `ReplacementHasCause` | `[]` of `GlobalsAgree`, `NoneOnlyAfterReset`, `ReplacedIsDisposed`, and `Spec => ReplacedForCause` |

Each module of proofs has a theorem `Invariants`: none of these properties is inductive
alone, and the theorem is about the conjunction that is, built from parts that are each
shown to hold at first and to survive every action under the parts before. Most have a
theorem `TypeCorrect` too.

*Runner.* `FullInv` has the parts `CountInv` (types, which places hold a run, and
`JoinAccounting`: a `task_done` is paired with a run or a sentinel only because a worker
holds a run exactly between `get` and `task_done`), `StartInv` (before `start()` there is
nothing), `PlaceInv` (a run is in one place at a time, which is why it is executed and
recorded at most once), `BehindInv` (sentinels are behind the runs accepted before
`close()`), and `CloserInv`, `EndInv`, `DrainInv` (how many sentinels are put, waiting
and taken in each phase of `close()`, and that `join()` is released only when the early
runs are settled).

*Drain.* `GracefulDrain` holds whatever commands there are, and the reason is a count
(`MarkInv`): a command that ends its worker leaves fewer workers than sentinels, so that
one sentinel is never taken, `join()` never returns, and the drain timeout is the only
way out. While all accepted commands are sound the sentinels queued, taken and still to
be put are as many as the workers; with one that is not, they are more.

*Bounds.* `ConcurrencyBound` counts: a child is that of a busy worker, and those are
at most as many, or of a detached reap, and each of these has cost a worker that stopped
(`DetachInv`). `NoLostWakeup` needs that the puts that wait and those that were woken are
each in one place, and that a get wakes the first that was not.

*Refinement.* `PhaseIs` shows that the phase of a run depends on five facts (its call,
whether it is recorded, lost, held, queued) and nothing else; then each action of the runner
changes them for one run at most, along an arrow of `RunLifecycle`, or, for
`CancelWorkers` and `Start`, for none. That a step never moves two runs, nor one twice,
is `PlaceInv`. A worker that has swallowed its cancellation takes the same steps while the
service is `cancelling`, and `close()` does not return over it, for `gather` waits until all
workers have stopped.

*Rate limiter.* The lock of the key row is held exactly from the second look at the key
to the end of a transaction, and that of the bucket row only once it is charged
(`LockInv`); so what a request has read of the bucket is still there when it writes
(`SeenInv`), and nobody is under way when the revocation is done (`RevokedInv`). Over
them stands the account (`AccountInv`): counted from any admission, the tokens in the row
and those spent since are at most burst and refill (`AtMost`), and counted from one of
them at least that (`AtLeast`), each up to half a unit per row the Integer column has
rounded. `WindowBound` follows from the first, `DenialJustified` from the second, and the
exact bound from the first without rounding. `PromiseInv` carries what a denied client
was told until the next admission. Without row locks `WindowBound` is false
(`RateLimit_sqlite`), which is why the theorems but `TypeCorrect` assume them. All that
compares a stored time with a clock assumes `Zone = 0` too: `UtcBucket` and `CommitUtc`
are where it is used, in the one statement that writes the time of a refill.

*Token bucket.* A request takes effect in the abstract bucket when it commits or denies.
That is one step of `TokenBucket` because `SeenInv` and `LockInv` say that the row it
committed is the row it had read, with its own time; every other statement changes neither
row nor answer.

*Run requests.* A row lock is held by a transaction that is at that task (`LockInv`)
and, with `RowLocks`, by every one that found the task there (`HeldInv`); so a DELETE
cannot commit in between. A connection is held exactly at the places inside a transaction
(`ConnInv`). Both
survive an exception at any statement, for the rollback takes the locks and the connection
of that transaction and of no other (`RaiseFacts`).

*Creates.* A key of a unique index is claimed only by an unfinished call that has
inserted it (`ClaimInv`), and a call that is about to commit has claimed, or has found
committed, all it wants (`FlushInv`). The refinement needs no more: a commit is the creation, for
nobody else can have committed the name that the call claims, an exception of any
statement is a failure that has written nothing, and the rest is stutter.

*Pages.* What came lies before the cursor and what is to come behind it, in the order of
(`created_at`, `id`) (`WalkInv`); an id that stayed in the list has come or lies behind the
cursor (`CoverInv`). A step that reads a page needs what the `ORDER BY` gives: that every
finite set of rows has a listing in strict order and that its first rows are those which no
other row precedes. Both are lemmas about the sequence `InOrder` chooses, from the
well-foundedness of proper subsets of a finite set.

*Readiness.* What a revision number says about the schema (`SchemaInv`) holds along every
walk, a failed upgrade included. A probe has a connection at two of its places, and the
pool is asked before each (`ConnsInv`).

*Migrations.* `OldestInv` says where the oldest result of a task is at each revision: in
`result_json` at v1 and v2, in the row of least id from v3 on. The upgrade writes one row
per task that has a result, and rows written later get a higher id; the downgrade takes the
row of least id back.

*API.* `StageInv` says what a request has passed at each place and after each exception,
`KeyInv` that only committed keys are printed and only printed keys sent, `EffectInv` what
is stored and queued because of whom, `PastInv` that an answer given before a request was
sent still binds its outcome; `ChargedOnce` is inductive with them by counting.

*Engine.* `PlaceInv` says what a thread has in hand at each place. That nobody builds over
an engine with the same URL is `CauseInv`, that the engine about to be replaced is closed
is `DisposedInv`, and that a reader which saw a global set finds it gone only after a reset
is `SeenInv`; all of them need that the lock is held at those places only.

Only checked by TLC: all liveness, which is outside the reach of the prover, as is ENABLED
(`AcceptedIsSettled`, `BlockedReturns`, `CloseTerminates`, `RequestAnswered`, `Answered`,
`AcceptedIsRecorded`, `EveryCallEnds`, `VerdictFollows`). Every safety invariant, action
property and refinement of a passing run is stated by one of the theorems above. One
property has a theorem and no run: `OneTaskPerName` follows from `ImplementsCatalogue` (only
a free name is created), which TLC checks. Where the
theorem has an assumption that the run's constants satisfy (`RowLocks`, `Zone = 0`),
`RateLimit_sqlite`, `TaskRuns_orphan`, `RateLimit_west` and `RateLimit_east` show what is
lost without it.

Two things one would want are not stated as theorems because the code does not keep them:
that a result is lost only with its task (`TaskRuns_pool`: the pool is enough for it, and so is
any exception in the recorder), and that a failed upgrade can be repeated
(`Migrations_halfway`: it is the database that rolls DDL back or does not).

## 6. Not modelled, and why

* Formatting: tails, truncation, redaction, problem+json bodies, correlation ids, the
  counts and percentiles of `metrics`.
* Settings other than the database URL, the validators of the schemas but for the
  cleaning of tags: no state. `Api` has a body that does not parse, one that does not
  validate, and one that does.
* `migrate stamp` and `initdb`, which set or bypass the revision without its schema:
  `ReadyMeansMigrated` presupposes that the revision was reached by upgrades.
  `migrate up` to the head is several steps of `Migrations`, between which the model
  allows more than one command does.
* The branch of `take_token` for a refill rate of zero; `Api` has no refill either.
* The second copy of `runner.py` under `taskq_mm`: nothing imports it. The mutation
  runner under `scripts`: a development tool that edits files and starts the tests.
* A crash of the process: the queue is memory only, so all accepted and unfinished
  runs are lost; the code has no recovery to model. What a drain timeout loses is
  the same set (`TaskRunner_durable`).

## 7. Plan

Done, in this order: the runner with its lifecycle and proofs; rate limiter, run
endpoint, creates, pages, migrations; the gate and the error contract (`Api`), readiness,
the engine; the refinement and the counting bounds of the runner; proofs about run
requests, creates, the API, readiness and the engine; proofs about the rate limiter, the
pages, the migrated data and the drain; the abstract specifications
`TokenBucket` and `TaskCatalogue` and their refinements.

Left:

1. An abstract specification of `Api` over tasks and answers alone (a request is looked up,
   authorised and done in one step), and the proof that the API implements it.
2. An abstract specification of the engine (one current engine or none), with the callers of
   `get_engine` and `get_sessionmaker` as its readers.
3. `GracefulDrain` says nothing of a run whose put was still waiting when `close()` was
   called (`TaskRunner_late` shows what may become of it). What the code does keep for such
   a run could be stated and proved: it is either refused, executed, or left behind the last
   sentinel.
4. Composition of `TaskRuns` with `close()` itself: today it has the 503 of a request that
   finds the runner closed as one of the exceptions (`ArriveFails`), but no drain that meets
   the recorders (`TaskRunner` has the one half and `Api` the other).

# Formal model of the Internal Automation Platform

TLA+ modules for the parts of this repository that keep state or decide
something, TLC runs that check them on small instances, and TLAPS proofs that
carry the main results to every instance. Paths below are relative to the root
of the repository; `src/...` inside them is the data plane, `app/...` the
request plane.

## 1. Inventory

| Part | State | Operations | Talks to |
|---|---|---|---|
| **Ingest** `app/orchestrator/ingest.py` | `seen_hashes`, `new_rows`, for one call | `normalise_row`, `_coerce`, `compute_source_row_hash`, `ingest` | called by workers; result is to be persisted |
| **Units of work** `src/database.py` | engine, sessions, open transactions | `get_db`, `get_db_context`, `init_db`, `close_db` | PostgreSQL |
| **Schema** `db/migrations/001_initial.sql`, `alembic/versions/001_initial.py`, `app/models/*.py` | tables, keys, triggers | constraints, `ON DELETE` actions, audit trigger | every writer |
| **Suggestions** `app/orchestrator/suggestions.py` | none (`suggestions` table) | `score_confidence`, `should_auto_approve`, `make_suggestion` | ingested rows, templates |
| **Review** `app/orchestrator/review.py`, `audit.py` | none (`suggestions`, `audit_logs`) | `apply_review_decision`, `audit_trail_entry`, `build_audit_entry` | caller loads and stores |
| **Templates** `app/orchestrator/templates.py` | none (`templates`, `template_versions`) | `latest_active_version`, `validate_template_payload` | suggestions |
| **Identity** `app/orchestrator/identity.py`, `app/dependencies.py` | none (`user_roles`, `role_permissions`) | `has_permission`, `check_permission`, `get_current_user`, `get_db_session` | routers, workers |
| **Workers** `app/orchestrator/workers.py`, `scripts/start_workers.sh` | `celery_app`, the broker's queue | `get_celery_app`, `enqueue` | Celery |
| **Migrations** `alembic/env.py`, `db/migrations/001_initial.sql`, `init_db` | the catalogue, `alembic_version` | the SQL file, `upgrade`, `downgrade`, `create_all` | PostgreSQL |
| **Seed** `scripts/seed_dev.py` | one session | `seed` | units of work, schema |
| **Planes** `app/models`, `src/models`, `alembic/env.py`, entry points | `sys.modules`, `Base.metadata` | the import statements | each other |
| **SSO sessions** `app/models/session.py` | a row | `is_active` | clock |
| **HTTP API** `app/main.py`, `src/main.py`, `app/api/*` | engine and pool, requests under way | `log_requests`, `unhandled_exception_handler`, `lifespan`, health checks, stub handlers | identity, units of work |

How they interact: rows go from `ingest()` into `ingested_rows` through a unit
of work; a suggestion is made for a row and a template and is either approved
by its confidence or waits; a reviewer's decision changes the suggestion and
leaves an audit entry. Workers, reviewers and seed runs are separate processes
that meet only in PostgreSQL, so what can go wrong between them is decided by
what they read before which commit, by the unique keys, and by the order of
their inserts. Most functions of `app/orchestrator` are pure and leave loading
and storing to a caller that the repository does not contain yet.

What is hard here, and which property is about it, is the `hazards` list of
`PROJECT.json`. In short: the idempotency key and the life of the set of seen
hashes; concurrent inserts of one key, deadlocks and redeliveries; decisions
taken on a stale copy, and the audit trail about them; permissions that go
between the check and the commit, or before a task is delivered again;
foreign-key actions that meet the append-only rule; overlapping, dying and repeated seed runs and migrations; a mean of floats
at the threshold; requests that fail, wait for a connection or meet the end of
their process; imports whose outcome depends on their order.

What makes each part correct:

* ingest keeps exactly the first row per distinct key; keys of different rows
  differ; a batch is stored whole, once, and in the end, whatever happens;
* the deletion of a user takes none of the work with him; audit rows never
  change;
* a suggestion leaves the queue for good, its state is always explained by its
  confidence or by a logged decision, and can be told from the log;
* seeding is all or nothing, and repeatable;
* a confidence is a number from 0 to 1, comes from at least one rule, and
  decides as the exact mean would unless that is within rounding of the threshold;
* a permission that is taken away is missed by the decisions under way at most,
  one of each worker process;
* every request that does not itself wait for the database is answered, gives
  back what it holds, and leaves its lines;
* the commands that make and drop the tables act as if one after another;
* the entry points can be imported in any order.

## 2. Modules

| Module | Models | State and actions in terms of the code |
|---|---|---|
| `RowKey` | the pure functions of `ingest.py` | A text is a sequence of tokens, a value a type with its `str()`. `Coerce`, `normalise_row` and `Canonical` are `_coerce`, the dict comprehension (the later of two colliding keys wins) and the `"\|".join`. |
| `Ingest` | `ingest()` | One turn of the loop per step: `SkipSeen`, `KeepNew`, `Return`; `Raise` is the `AttributeError` of a key that is not a string. `returned` remembers the results of all calls. |
| `UnitOfWork` | the insert side of a session on PostgreSQL | `committed`, `inserted` by the open transaction, `queue` of INSERTs still to be sent; `Duplicate`, `Waits`, `Deadlocked`. Shared by the next two modules. |
| `IngestStore` | workers that persist batches | look each hash up, add what is absent, leave `get_db_context` (flush, commit), deliver again after an exception or a crash. |
| `AtomicSeed`, `Seed` | `seed_dev.py` | `CheckTables`/`CreateTables` are `init_db`; `Present`, `Add`, `AddAndFlush` are one lookup with what follows it; `StartCommit`, `InsertRow`, `Complete` the final flush and commit. `AtomicSeed` is the docstring's promise. |
| `Schema` | the three definitions of the tables | data: foreign keys with their action, NOT NULL, unique keys, append-only. |
| `Database` | statements on those tables | `Insert`, `Update`, `Delete` of any row with any admissible contents. A DELETE computes everything the cascades take, what RESTRICT refuses, what SET NULL clears. |
| `AuditedRegister`, `Review` | suggestions and their review | `Propose` is `make_suggestion`; `Load`, `Decide`, `CommitDecision`/`GiveUp` are the unit of work of a process around `apply_review_decision` and `audit_trail_entry`; several of them may have one suggestion in hand, and `Flush` writes the columns that differ from the copy. `AuditedRegister` is a register with a log in which a decision may start from an older state, but from none that never was. |
| `Imports`, `Planes` | the import graph | `Planes` holds the statements of each file, `Imports` executes them: modules enter `sys.modules` before they run, packages before submodules, an exception takes the running ones out again. |
| `Templates`, `Matching` | `templates.py`, `suggestions.py` | `latest_active_version` answers with a set of no or one row, `validate_template_payload` with the keys it complains about. `LookUp`, `ScoreRule` (one turn of `sum()`), `Make` are one suggestion; `Draft` and `SetStatus` are editors. A float is a whole number of units, `Round(a, b)` the float nearest to a quotient. |
| `Workers`, `Identity`, `Dispatch` | `workers.py`, `identity.py`, around `Review` | `get_celery_app` is the test for None, `build_celery_app` the assignment, `return_celery_app` reads the global again, `send_task` publishes, possibly several copies; `Redeliver` is the broker. `Granted` is the join of the two tables. `Dispatch` composes them with `Review`: a process of the pool takes a task (`Accept`, `Lose`), works on the suggestion (`Work`), commits or not (`Complete`, `Abandon`), while `Administer` changes the grants. |
| `Requests` | `main.py` of both planes, `dependencies.py`, `app/api` | a request goes from `Receive` (the log line) through routing, `get_db_session`, `get_current_user`, `Connect`, `SelectUser`, `RefuseInvalid`, `Handle`, `Close` to `Send` or, after an exception, `unhandled_exception_handler`. `Serve`, `Query` and `Release` sort these steps by whether they need an answer of the database. `Stop` and `dispose` end the process. |
| `AtomicMigrations`, `Migrations` | the commands that make and drop tables | each is a program of DDL statements in one transaction: `Look` (create_all's checks), `Execute`, `Wait`, `Commit`, `Fail`, `Crash`, `DeadlockDetected`; `Heads` is Alembic reading its version table. `AtomicMigrations` is a database of one origin. |
| `MC*` | | instances for TLC. |
| `*Proofs` | | theorems about the module of that name; `ReviewProofs` also about `Dispatch`, `TablesProofs` about `Database` and `Imports`. |

`IngestStore` and `Seed` both extend `UnitOfWork`, so one model of locks,
duplicates and rollback serves both; the proofs of both begin with the same
lemmas about it (`OneOwner`). `IngestStore` takes over from `Ingest` that a batch has no hash twice (`DeliveriesAssumption`, which is `OnePerHash`).
`Database` takes its tables from `Schema` in `MCDatabase` only; its theorems
hold for any tables of that form, or for each of the three schemas, so also for the identity tables and for those
of the Alembic revision and of the models, which no passing run of it
enumerates. `Migrations` takes from the same three schemas which table refers to
which, and so which locks a statement takes. `Dispatch` extends `Review`: its
state is that of `Review` with the state of `Workers` and `Identity` beside it,
its actions are those of `Review` or leave the state of `Review` alone, so what
is proved of `Review` carries over to decisions that come as tasks.

### What is taken from outside the repository

The following is not in the repository and is modelled from how its code uses
it; `PROJECT.json` marks the definitions as external.

* **The worker loop** around `ingest()` (there is no task body). It uses the
  lookup-then-add idiom of `seed_dev.py` and `get_db_context`, and its source
  hands in a batch again that was not stored. Celery would not do that by
  itself for a task that was acknowledged when a worker took it.
* **Celery and Redis** promise neither that a task arrives nor that it arrives
  once. The default retry policy of `send_task` may publish a task several times
  and raise at last although it was published (`send_task`); a task that was
  fetched and not acknowledged within the visibility timeout is in the queue
  once more (`Redeliver`); one may be lost with its process (`Lose`). The tasks
  of a thread with the broker are counted, not told apart.
* **The task that decides**, the body of what `enqueue()` names: it checks the
  permission once (`identity.py:3-5` has Celery workers in mind), then is the
  caller of `review.py`. `start_workers.sh` starts a pool of processes; any
  number of them may work on tasks of one reviewer at the same time, each on
  one. A permission is read in one query.
* **Template editors**: the repository has no promotion code. They validate a
  payload before a version becomes active, as `validate_template_payload` is
  for; nothing stops them from having several active versions.
* **The caller of `review.py`**, which "is responsible for persistence and for
  emitting an audit-log entry": one unit of work. It takes no lock on the row,
  since nothing in the repository does or asks for it, so that others may decide
  on the same suggestion between its load and its commit.
* **PostgreSQL**: READ COMMITTED reads, an INSERT waits for the transaction
  that holds its key, some member of a cycle of waiting transactions is
  aborted, the foreign-key actions, transactional DDL. To `Requests` it may also
  not answer at all. Its lock modes are
  reduced to share and exclusive; enum types go with the tables that use them.
* **Alembic**: it reads the revision, runs `upgrade()` or `downgrade()`, and
  moves its stamp in the same transaction; removing the stamp must hit one row.
* **FastAPI, Starlette, uvicorn**: the order of middleware, routing,
  dependencies and handler; an `HTTPException` becomes a response inside
  `log_requests`, any other exception outside of it; a stopping server lets
  requests finish. What a client sends is left open.
* **SQLAlchemy**: a flush sends permissions and roles before the grants that
  refer to them, otherwise in the order they were added; an UPDATE writes the
  columns that changed.
* **SHA-256** has no collisions: a hash is the text it was computed from.
* **Python's import system.**

## 3. Runs

| Run | Instance | What it shows |
|---|---|---|
| `ingest` | 5 kinds of rows (padded, upper-case, colliding keys, a caller's own `source_row_hash`, a key that is not a string) in all batches of up to 3, and one batch of 19 rows over values with blanks, delimiters, literals and `None`; 2 calls | exactly one row per distinct hash, the first, in order; the key separates rows without delimiters; normalising twice is normalising once, whatever order the columns are in |
| `store` | 3 workers, 3 hashes, batches in opposite orders and a possible cycle of three, 2 crashes | at most one row per hash, whole batches, acknowledged means stored, everything is stored in the end |
| `seed` | a cut of the seed (2 permissions, 2 roles, 3 grants, 1 user), from every database its foreign keys allow, with or without tables; 3 runs of 2 processes, 1 crash | no row twice, all or nothing (`AtomicSeed`), the runs that wait all wait for one (`AllWaitForOne`), every run ends, one succeeds unless one died, a run after the others completes the seed |
| `db_sql` | the pipeline tables of the SQL file, two users and two ingested rows, one row of the other tables, all contents | whatever the deletion of a user sets off, no template, row, suggestion or audit entry goes with him; audit rows never change, whatever is deleted around them |
| `review` | 2 processes, 2 reviewers, a suggestion with confidence 84 or 85, 3 decisions, no lock | the state can be told from the log; states explained; implements `AuditedRegister` |
| `imports` | 8 entry points in any order, failed ones repeated | no table mapped twice; after `app.models` nothing raises; the seed script finds every table |
| `migrations` | 3 processes with a command each (SQL file, `upgrade`, `downgrade`, `create_all`), one of which may die, on every database that earlier commands can have left | the commands act as if one after another (`AtomicMigrations`); stamp, tables and guards agree; one succeeds unless one died or tables were dropped |
| `matching` | 2 versions with numbers 1 and 2, payloads without rules, with 3 and with 4, scores on and around the threshold, floats with a mantissa of 6 bits | the state is that of the exact mean except within rounding of the threshold; readers find the same version; there is a rule to score |
| `requests` | 2 requests at a time, a pool of 1 and one of 2, both planes, with and without the bypass of authentication, a user who comes and goes, a stop | connections come back, lines match answers, only users are served, every request is answered unless it waits for the database itself |
| `access` | a reviewer, 2 processes, 2 roles, 2 changes of the grants, 2 copies of a task with the broker, 3 decisions on a suggestion | a permission that is gone is missed by one decision of each process at most, and who never had it decides nothing |

The bounds: `MaxCalls`, `MaxCopies`, `MaxCrashes`, `MaxRuns`, `MaxDecisions`, `MaxCommands`,
`MaxChanges`, `MaxRules` and `MaxVersion` cap numbers that have no bound in the
code. They are enough to let each hazard happen: two calls so that the second
starts from what the first left, three workers for a cycle of three and two
crashes to lose two of them, three runs so that one follows a failure of
another, three decisions for a stale decision after one that was itself
overtaken, and for one late decision of each process and one more; two
processes, so that both are at work for one reviewer or on copies of one task; three commands, because it takes an upgrade and a downgrade to
overtake a `create_all`; two roles and two changes, so that a permission goes by
one and stays by the other; three and four rules, so that a sum needs more bits
than a score has; two requests for one connection. Two rows of a table are
needed where rows clash or a cascade forks, one elsewhere. Confidences in
`Review` are hundredths; 84 and 85 are the two sides of the threshold. The
proofs remove these bounds from the safety properties they cover.

A property that is proved for every instance is not always checked by a run
again: `TypeOK` of the other modules with proofs, `ActorsStay`,
`NeverBackInQueue`, `AppSettles` and `ConfidenceInRange` are theorems only; the
one reviewer of `access` is one thread, so that two threads that make an app at
the same time are left to the theorems. `Migrations`, `Dispatch` and `Imports` have their type
invariants in their runs and as theorems.

Runs that may stop say so (`CHECK_DEADLOCK FALSE`): the workers when everything
is stored, the seed when its runs are used up, a review or a task when the
decisions are, the interpreter when everything is loaded, the migrations when
all commands have been issued, a server that has disposed of its engine. The
store of `Database` and the editors of `Matching` never stop, and there TLC
looks for deadlock.

`review`, `access` and `migrations` use symmetry; their properties are safety
properties, for which that is sound.

### Fairness

* `IngestStore`: weak fairness of each worker's own steps, because a worker
  that runs is not stopped; and strong fairness of a waiting INSERT for each
  key, because PostgreSQL wakes a waiter when the holder of the key ends while
  a competitor has to send its statements over again. Without the second
  assumption the victims of deadlocks can take turns for ever, and TLC shows
  that; with it every delivery is stored. Crashes and deliveries are not fair.
* `Seed`: weak fairness of a run's steps. Nobody has to start a run again.
* `Requests`: weak fairness of what the process does of each request by itself
  (`Serve`), the time limit of the pool included (30 s unless set), and of
  closing a session and sending the response as long as there is no connection
  to be given back. `database.py:24-39` sets no time limit for a statement, so
  nothing that takes an answer of the database is part of it: neither a query
  nor the rollback with which a connection is given back, and errors are not
  either. `Answered` says that all the same only requests that hold a connection
  can wait for ever. New requests, deletions of users and the stop are not fair.
* Everything else is checked without fairness: only safety is claimed.

### Where the code and its documents disagree

Two are runs that TLC must find violated:

| Run | The text says | The code does |
|---|---|---|
| `db_audit_alembic` | triggers in the Alembic revision (`audit_log.py:5-6`) | only a REVOKE from PUBLIC, which does not bind the owner |
| `imports_planes` | the planes import independently (`app/models/base.py:5-7`) | the seed command meets a circular import and cannot start, unless `app.models` was imported first |

`Seed` therefore describes `seed()` in a process that has imported
`app.models`. `scripts/verify_stack.py` does not notice: it imports `app.main`
first, and after that nothing raises (`AppModelsSuffices`).

The others came up while translating, and need no search to see:

* the hash is said to be over a JSON form (`ingest.py:19`); it is over `k=v`
  joined by a bar, so a delimiter in a value, or `None` beside the text `None`,
  gives one key for two rows. `HashSeparates` has what remains true. A row that
  was seen before is "silently skipped" (`ingest.py:7-8`), but the set of hashes
  is new in every call: between calls only the unique index keeps rows apart;
* at most one row per key (`ingested_row.py:44`): the model declares no unique
  key, so tables from `init_db` take duplicates from two workers that look before
  either commits. `AtMostOneRow` is about tables with the index;
* reviewers decide on pending suggestions (`README.md:161-162`): the state is
  never looked at, and an approved one can be rejected;
* edits are validated and applied (`review.py:10-11`): an edit rejects, the
  payload stays; `ReviewerNotAuthorizedError` is never raised, and its docstring
  has a permission `review:suggestions` that is spelt `review:suggestion`
  everywhere else;
* `settings.dev_bypass_auth` (`dependencies.py:30`) is no field of `Settings`,
  which ignores what it does not know: the bypass is never on, and every request
  to `/api/v1` is refused with 401, or 422 when its body is not JSON. Both
  branches are modelled;
* one structured line per request (`main.py:78`) is two lines, or one when the
  answer is that of `unhandled_exception_handler` (`LinesMatchAnswers`);
* the request session (`dependencies.py:17-20`) is closed without a commit;
  `create_task` answers 201 for a task that `get_task` does not find;
* `001_initial.py:21` says "Idempotent: re-running is safe"; on a database made
  by the SQL file, or by `create_all`, `upgrade` fails with a duplicate table. The
  file in turn fails as a whole on a database of the revision and goes through on one of
  `create_all`, to which it adds `user_roles`, the unique index and the trigger;
* `alembic/env.py` takes its metadata from the `Base` in `app/models/base.py`,
  and no model derives from that one; a database of the revision has no
  `users.primary_role` and no `full_name`, which the models select;
* `start_workers.sh` and `docker-compose.yml` name `workers.celery_app`, which is
  None until somebody calls `get_celery_app()`;
* under the SQL file a user whom an audit row names cannot be deleted at all,
  because `ON DELETE SET NULL` would have to update the row and the trigger
  refuses (`ActorsStay`).

What the runs show beyond their properties: seven scores of 0.85 have a float
mean below 0.85, so that suggestion waits for a reviewer, and three scores just
below 0.85 have the mean 0.85 and are approved; `DecidedWithinRounding` says this
is all that can happen. A `create_all` during which both an upgrade and a
downgrade commit can leave part of the tables behind (`torn` in `Migrations`;
the properties speak of all other behaviours). That a single one of them cannot
tear it hangs on the order in which `app/models` imports its files. `create_all`
first asks for every table and then makes those it missed. If an upgrade commits
in between, it misses the first ones, and making them fails. If a downgrade
commits in between, it misses only the last ones, which refer to the first ones,
and making them fails, too; a table that refers to nothing, asked for last, would
be made alone. Two runs of the SQL file over existing tables
can deadlock, and PostgreSQL ends one of them. `ReadersAgree` needs the unique
key on `(template_id, version)`, which only the revision declares.

What does not hold of `Review`, because nobody locks what he decides on: the
latest entry about a suggestion need not be what the row says. Who approves a
copy that was approved, while somebody else rejects the suggestion, writes an
entry that ends in "approved" and, the state being what it was in his copy,
leaves the row rejected; the entries are no chain, and state and reviewer of a
row may come from different decisions. `StateFollowsLog` has what can still be
told from the log. Under `Dispatch` a task that is delivered twice decides twice,
and the copy may undo a decision made in between; neither `enqueue()` nor
`review.py` gives a decision an identity, and nothing is claimed about it.

Every property of a passing run has a mutant: a definition with a plausible
fault (a dropped guard, a lock taken late, a forgotten column) under which TLC
finds the property violated. The faulty forms stand before the definitions they
replace, marked "Mutation".

## 4. Proofs

The theorems hold for every value of the constants: any number of workers,
batches, reviewers, rows, crashes, roles, rules and decisions. Their assumptions
are the named `ASSUME`s of the modules, and those stated in the theorem.

| Module | Theorems | Assumes | Argument |
|---|---|---|---|
| `IngestProofs` | `TypeCorrect`, `KeepsOnePerHash`, `KeepsFirstOccurrences`, `ReturnsBatches` | | `IInv` adds that the set of seen hashes is the set of hashes of the kept rows: the loop tests the one and the properties speak of the other. `ReturnsBatches` gives what `IngestStore` assumes of its deliveries. |
| | `NormalisesOnce`, `KeySeparatesRows` | the shape of texts (`RowKey`, below) | `Coerce` is idempotent and its texts are stripped and lower case, so every order of columns gives the same row again. Two rows without delimiters have the same text only if their parts agree one by one: the first bar ends the first part, and the equals sign ends the key. |
| `IngestStoreProofs` | `TypeCorrect`, `StoresAtMostOnce`, `AcknowledgesWhatIsStored`, `StoresWholeBatches` | `Unique = TRUE` | `OneOwner` of `UnitOfWork`, here and in `SeedProofs`: an uncommitted key belongs to one transaction and nobody has committed it; insert, commit and rollback preserve it. `Linked(w)`: every hash of the batch in hand is in the table, or still to be looked up, or added, or queued, or inserted. It makes the commit complete, also where a lookup skipped a hash. The table only grows, so what was seen stays. |
| `SeedProofs` | `TypeCorrect`, `SeedsEachRowOnce`, `ImplementsAtomicSeed`, `RunsWaitForOne`, `RunsNeverDeadlock` | unique keys (`UniqueAssumption`) | `Tracked(p)`: every row already looked at is in the table or in the session. At the commit all rows have been looked at, so the step adds all that is missing; every other step leaves the table alone and maps to a stutter. All runs send their rows in one order, and a run holds every row it has sent before the one it waits for: two that wait, wait for the same run, and that one does not wait. |
| `TablesProofs` | `TypeCorrect`, `AuditIsAppendOnly`, `AuditedActorsStay`, `WorkIsNotDeletedWithUsers` | for the two about audit rows: the table has the trigger; for the last: the tables are those of one of the three schemas | `WorkKeepsTogether`: in all three, what a table of the work refers to with CASCADE is of the work again, and `users` is not. So the rows outside of the work that cascades take are closed under cascade (`CascadeSparesWork`), and a user goes only when he is deleted himself, for he references nothing. `ReferencesHold` says that a reference leads to a row of the table it names. |
| | of `Imports`: `ImportsTypeCorrect`, `MapsEachClassOnce`, `SeedScriptFindsTables`, `ModelsSuffice` | on the imports: `DeclaredLast` and `DeclaredOnce`; `SeedIsScript` and `SeedReachesModels`; `ModelsTakeLast`, `ImportsDownwards` and `NamesProvided`, each for one of the last three | `FromFinished`: whoever has a class in the metadata has come to the end of its file, so an exception does not take it out of `sys.modules` again. `NothingLost`: a statement that was executed found what it needed, or entered its classes, and unless something failed that stays so; when the seed script has ended it is alone, so all it leads to has ended. `Descends`: the modules behind `app.models` took what comes last, so when `app.models` has ended they all have; the others stand on the stack in descending order, so none takes a name from one that waits for it. |
| `ReviewProofs` | `TypeCorrect`, `QueueIsLeftForGood`, `StatesAreExplained`, `LogTellsState`, `ReviewImplementsRegister` | | `Held(p)` and `Remembered`: what a process has in hand was once the row: its state is that of the proposal or the `after` of an entry, its reviewer an actor of one, and it is in the queue only if there was no entry. So a decision that writes the state adds an entry that changes it, one that does not adds an entry that does not, and each step is one of the register. |
| | of `Workers` and `Dispatch`: `CeleryAppSettles`, `DispatchTypeCorrect`, `LateDecisionsAreFew` | reviewers and processes are finitely many | who has passed the test for None leaves the global set. Each app is the work of a thread that met None and no longer does. The late decisions of a reviewer and the processes that have checked his permission are together at most as many as there are processes (`Accounted`): while he does not have it a commit turns one of the latter into one of the former, and no process can take another task of his. |
| `MatchingProofs` | `TypeCorrect`, `ScoresSomething`, `ConfidenceStaysInRange`, `RoundingDecidesOnlyNearThreshold`, `ReadersFindTheSame` | `RoundAssumption`: rounding is monotone, keeps whole numbers, and errs by a bounded amount | the running sum is at most the number of scores, and differs from the exact sum by at most one rounding error per score; an active version has been validated and its payload does not change; the first of a sorted list is the only one with the highest number. |
| `RequestsProofs` | `TypeCorrect`, `NothingLeaks`, `LogTellsAnswer`, `NobodyElseServed` | | for each request, what it holds and what it has logged follow from where it is (`pc`), and the connections in use are counted by the requests that are between `Connect` and `Close`; a handler is reached only through `SelectUser` or the bypass. |
| `MigrationsProofs` | `TypeCorrect`, `Agrees`, `RefinesAtomic`, `TornTakesThree`, `AgreesWithoutDowngrade` | `CommandsAssumption`, `BoundsAssumption` | `LocksAgree` and `ChangesLocked`: nobody else has a lock on what a transaction has made, dropped or stamped, so what it saw of it is still so when it commits. `Running(p)` says how far each command is: what it has not done yet is still in its program. A command that has come to its end has therefore done all of it (`CommitWhole`), and a commit takes a database of one origin (`Clean`) to one. |
| | `StepsRunOut`, `OneSucceeds`, `NoStatementFailsAtFirst` | as above | `StepsLeft` counts what a command has to do. The other two are explained below. |

Two commands rely on more than their locks, and `Untorn` says what. The SQL file
skips a table that it finds without locking it; that the table is still there at
the end follows from its lock on `users`, which it takes with its second
statement and which every downgrade needs (`FiledAll`). `create_all` has no lock
while it asks for the tables. `Found` says what it has found missing, as a
function of who overtook it meanwhile (`overtaken`): nobody, and it is all or
nothing; an upgrade, and the tables are there, so that making one fails; a
downgrade, and it has missed the last tables at most, among them `sso_sessions`,
which cannot be made without a `users` that it did not miss. Overtaken by both it may
have missed anything; that is `torn`, about which the theorems claim nothing but
`TypeCorrect` and `StepsRunOut`. `torn` becomes true only when such a `create_all` commits, so an
upgrade and a downgrade that merely overlap with one are covered. It
takes all three commands (`TornTakesThree`), so a deployment that never
downgrades has no exception to reckon with (`AgreesWithoutDowngrade`).

So far the proofs need the programs of the commands as sets of statements only
(`UpgradeRange`, `DowngradeRange`, `FileRange`, `CreationsRange`), apart from
what comes first in the file and last among the tables asked for. That a command
can run to its end depends on the order of its statements. `SqlPlace`,
`RevisionPlace` and `OrmPlace` give each table its place in its program; a table
refers only to tables in places before its own (`ReferredBefore`), and the
statements of each program stand in the order of the places (`UpgradeAscends`,
`FileAscends`, `CreationsAscend`). `InOrder(p)` keeps that for what is left of a
program: what a transaction has made comes before what it still has to do, so a
statement finds everything it refers to, and nothing that it makes
(`NothingFails`). This gives `NoStatementFailsAtFirst`, as long as there are no
tables. `OnlyMade` says that without a downgrade an upgrade and the file have
made `users`, still will, or have found it there, so that whatever commits
leaves tables behind (`CommitLeaves`). `SomebodyGoesOn` then is: once a command
was issued, there are tables or some command runs. A failure preserves it,
because a statement fails only where there are tables (`FailsAmongTables`), and
so does the end of a deadlock, because the victim leaves another behind
(`AnotherIsLeft`). When nobody runs any more there are tables, and all of them
since the database is `Clean`: `OneSucceeds`.

The theorems about `Imports` hold for any modules that import one another, not
just those of `Planes`. What they ask of the modules can be read off `Planes`:
a model file (`AppModel`) is one import and then one statement with its classes,
no class is in two files, and the mirrors only take names (`SrcMirror`); nobody
imports the seed script; it imports `src.models.role`, which needs
`app.models.role`, whose package `app.models` takes the classes of all seven
files, all over the `Base` of `src.models.base`. The models and their mirrors import
each other in a circle by way of `app.models`, but each takes from the next what
stands in its last statement; all other imports go one way, from the entry points
over the routers and `app.dependencies` to the databases and settings, with the
exception of a package that imports its own submodule (`src.models`). The
hypotheses are needed: a file that imports something after its classes can fail
there and be executed again; and the mutants `SrcMirrorDeclares`,
`AppModelsWithoutSession` and `DependenciesGetDb`, under which TLC finds the
properties violated, break `DeclaredOnce`, `SeedReachesModels` and `NamesProvided`.

The assumptions of `RowKey` say what a text is made of: lowering a token gives a
token and lowering it twice is lowering it once, as for `str.lower` on the
characters the code meets; blank, bar and equals sign are tokens that lowering
leaves alone; the type names and the texts of `True`, `False` and `None` are
texts; the sorted keys name each key once. `NormalisedOnce` is proved for every
order in which a dict may hold its columns.

The `<` of least counterexamples is a first-order relation, so `WFMin` and
`NatLessThanWellFounded` of the library can be cited for it, and a fact about a
recursive function is proved by its least counterexample (`Least` in
`IngestProofs`) where the induction theorems themselves cannot be instantiated.

Model-checked only: liveness (`EveryDeliveryStored`, `EveryRunEnds`,
`SomeRunSucceeds`, `RerunSucceeds`, `Answered`), because the prover has no rules
for fairness and ENABLED. That the waits of `Migrations` end is neither checked
nor proved: PostgreSQL sees to it for whatever statements a command consists of.

No module with theorems uses RECURSIVE operators.

## 5. Not modelled

* Wording, timestamps, ids, column widths, CHECK constraints, enum types and
  defaults.
* `get_db` and `close_db`, which nothing calls; Alembic's offline mode, which
  prints SQL.
* What Celery makes of the name on its command line: a rule of Celery alone.
* `SSOSession.is_active`: it compares with the clock of the moment and has no
  caller, so no order of events with it is written down anywhere. The table is in
  `Schema`.
* Configuration, logging and tracing: settings that do not change while a
  process runs, and wiring of libraries. Where a setting decides something
  (`is_development`, `is_production`, `dev_bypass_auth`) it is a parameter or
  part of the initial state.
* `scripts/verify_stack.py`, which prints; the UI placeholder; out-of-scope stubs
  that only raise.

`components` in `PROJECT.json` gives the status of each part.

## 6. Plan

Done, in this order: `RowKey`/`Ingest`, `UnitOfWork`/`IngestStore`, `Seed`,
`Schema`/`Database`, `Review`, `Imports`; `Migrations`; `Templates`/`Matching`;
`Requests`; `Workers`/`Identity`/`Dispatch`; proofs for each of them.

Next: a pipeline of ingest, matching, dispatch and review over one database, with
the cascade from an ingested row to its suggestions under a reviewer's feet.

# A TLA+ model of process_engine_runtime

The runtime is the program around the BPMN engine `process_engine`: it brings
the databases of the engine up to date, starts the engine, its HTTP interface
and its services, and resumes the process instances that an earlier process
left behind.  The engine itself comes from packages.  What is the runtime's
own, and what can go wrong in it, is the start: five databases of unknown age,
25 scripts that run without a transaction, a data migration in TypeScript, and
a sequence of asynchronous steps while which requests already come in.  This
project models that start, the fixtures of the integration tests and the scripts
that keep their databases, checks them with TLC and proves their main promises
with TLAPS.

Paths in this file are relative to the root of the repository.

## The system

| Part | State | Operations | Meets |
| --- | --- | --- | --- |
| Start (`src/main.ts`) | `container`, `sqlitePath`, `minimalSetup`, `workDir`, `httpIsEnabled`: variables of the module | `startRuntime` and its steps, the handler of unhandled rejections | everything below |
| Settings (`src/modules/environment.ts`, `parseArguments`) | environment variables, working directory | `setDatabasePaths`, `getSqliteStoragePath`, `setWorkingDirectory` | Migrator, post-migration, engine, which all derive file names from them |
| Migrator (`src/modules/migrator.ts`) | `SequelizeMeta` in each database | `migrate` for each repository; umzug runs and logs the scripts | scripts |
| Scripts (`sequelize/migrations`) | tables of the five repositories | `up()` of 25 scripts | one another: they read tables of other repositories |
| Post-migration (`src/post-migrations`) | rows of `FlowNodeInstances`, a mark in `SequelizeMeta` | one query after the other | tables that the scripts made |
| Engine, HTTP, AutoStart, Cronjob and Resume services (packages) | running process instances and what is stored of them | `bootstrapper.start`, `start`, `findAndResumeInterruptedProcessInstances` | the start calls them; clients call them while it goes on |
| Console (`src/modules/console_interface.ts`) | none | `exit` ends the process; the rest prints | |
| Global routes (`src/modules/global_route_configurator.ts`) | none | two GET routes with fixed answers | HTTP extension |
| Test fixtures (`src/test_setup/fixture_providers`) | `enableHttp`, `container`, `bootstrapper`, clients, worker: properties of the fixture | `initializeAndStart`, `importProcessFiles`, `tearDown`; waiting for tasks and for the end of instances | mocha, engine, the database all files share |
| Test services and mocks (`src/test_setup`) | the sample worker's polling | `start`, `stop`, `processExternalTask` | fixtures, HTTP |
| Test migrator (`test_migrator.ts`) | as the migrator | `migrate` for each repository | scripts |
| Scripts for containers (`scripts/setup_*`) | docker's container and volume | `start`, `stop`, `restart`, `reset` | docker, other invocations of the same script |
| Packaging, autostart, changelog, installer, configuration, BPMN files | none | | |

What is hard about it:

- **Ends in the middle.**  Nothing runs in a transaction.  A process that ends
  between two statements leaves a store no script was written for: a column
  without its sister, rows both in a table and in its replacement, a table
  under its temporary name, a script that ran and is not logged.
- **Failures that nobody handles.**  A script that fails rejects
  `runMigrations`; `process.on('unhandledRejection')` logs it, and the process
  stays up without serving.  The post-migration and the start of the engine
  call `process.exit` instead.
- **Order across repositories.**  Scripts read tables of repositories that are
  migrated later, or that are in another database.
- **Three dialects.**  A statement may mean something else, or nothing, on one
  of them; SQLite has one connection, the others a pool.
- **Requests during the start.**  The engine accepts instances before the
  interrupted ones are resumed.
- **Settings that outlive a start.**  An application that embeds the runtime
  can call `startRuntime` again after a failure.
- **Tests that outlive their time.**  mocha gives up on a test and goes on; the
  test, and its process instance, go on too, in the database of the next file.
- **Calls of a script at the same time.**  Nothing keeps two invocations of a
  container script apart, and each looks at docker before it acts.

The properties that make each part correct are stated below, run by run; the
list of hazards in `PROJECT.json` names them by line.

## Modules

    SqlDatabase  <-  MigrationScripts  <-  Migrator  <-  MigratorProperties  <-  MCMigrator
                                                                  ^  |
            MigrationInstancesProofs -> MigrationRowsProofs -> MigratorProofs
                                                                     |
                                                                     `--refines--> MigrationLog
    PostMigration   <- MCPostMigration, PostMigrationProofs                             |
    RuntimeStartup  <- MCRuntimeStartup, RuntimeStartupProofs  <--its migrations--------'
    StartupSettings <- MCStartupSettings, StartupSettingsProofs
    TestSession        <- MCTestSession, TestSessionProofs
    DatabaseContainers <- MCDatabaseContainers, DatabaseContainersProofs

### SqlDatabase (external)

Sequelize's `QueryInterface` and the raw SQL of the scripts.  A database maps
names to tables; a table has typed columns, unique columns, indexes and rows in
the order of insertion.  A statement is a record.  `Succeeds` says when it
works, per dialect where it matters: MySQL takes a double-quoted name for a
string, Postgres folds an unquoted one to lower case, only SQLite stores any
text in any column, `describeTable` never says `INTEGER` on MySQL, which indexes
no `TEXT` column.  `After` is its effect.

`With(f, x, y)` is f with the value y for x, and `Typed` lists columns by their
types; both are functions written out, where TLC's `@@` and `:>` would do, since
the provers know nothing of those.

Left out: a statement is atomic (Sequelize implements `changeColumn` on SQLite
by several statements and loses indexes by it), `NOT NULL` outside the UPDATE of
`flow_node_instance/03`, foreign keys, apostrophes in the data.  `LIMIT 1`
without an order takes the row inserted first.

### MigrationScripts

One operator per script: the statements of `up()`, computed from the database
it starts on, since all guards of a script look at the `describeTable` that
comes first.  `correlation/04` and `external_task/02` go on with what a
`SELECT` returned: `Continuation`.  The two queries of `correlation/04` for each
correlation are statements of their own (`QueryStates`), as the process can end
between them.  Columns are there by name and type; widths
and defaults that no script reads are not.

### Migrator

`StartRuntime`, `BeginScript` (umzug starts the first pending script),
`ExecuteStatement`, `StatementFails`, `LogMigration`, `FinishRepository` (the
loop of `runMigrations`, after `destroyConnection` has drained the pool) and
`Stop`, a crash or an exit between any two of them.  `databases` and `meta`
survive `Stop`.  The domain of `meta` says which databases there are: one per
repository or one for all, as the configuration has it; an initial store brings
its layout with it.  `SendUnawaited` and `UnawaitedTakesEffect` are the `dropTable`
of `external_task/02` that lacks its `await`: on SQLite it keeps its place in
the queue of the only connection, on a pool it takes effect at any time, and is
lost if the process ends first.

### MigrationLog

The promise, without databases: scripts of a repository applied in order and
once, repositories in order, serving only when all is applied.  Migrator
implements it, under `applied <- the logged positions`, `serving <- status =
"migrated"`.  RuntimeStartup takes its step for the migrations from it and so
knows nothing of databases.

### PostMigration

`runPostMigrationForV910`, one action per query: `checkIfMigrationWasRun`,
`getFlowNodeInstancesWithoutNameOrLane`, `loadProcessInstances`,
`loadProcessModels` (which fails where the models are not in the database of the
correlations), one iteration of the loop as `SkipInstance`,
`setLaneAndNameForFlowNodeInstance` or `UpdateFails`, and `markMigrationAsRun`.
The query that selects the rows asks for no order, so the loop takes them in
any.  `EngineStoresInstance` is the engine of the new version, which stores rows
with a name and, off the lanes, without one.  A process model is the first
process of its definition: two partial functions from flow nodes to names and
lanes.  That `getFlowNodeById` finds no other flow node is taken from the
package's interface.

### RuntimeStartup

`startRuntime` from its migrations to its end, one action per `await`:
migrations (as MigrationLog), post-migrations, engine, routes, AutoStartService,
CronjobService with the message to the parent, resume.  `StartFails` is a
rejection that only gets logged, after which what is up stays up; `StartExits` a
`process.exit`.  Around it, process instances are started (over HTTP once the
engine is up, by a cronjob, by the parent once it is told) and finish at any
time, and the process may stop.  `live` counts the executions of an instance,
`stored` is its state in the database, which survives.  The resume service takes
every instance stored as running.  The checks before the migrations (arguments,
configuration folder, `NODE_ENV`) are assumed to succeed here: they end the
process before anything is done.

### StartupSettings

Which SQLite file each hand works on.  A path is a sequence of segments.
`Migrate` resolves the folder against the working directory, `setDatabasePaths`
joins it into environment variables, `setWorkingDirectory` then changes the
directory, and `EngineOpens` takes the variable or else the configured name.  A
start can fail and be repeated with other arguments; module variables and
environment survive.  A call is made when the one before has settled.

### TestSession

One mocha process on one database.  A test file is a session: `phase` is the
call its fixture waits for, from `initializeAndStart` to `tearDown`, one action
per `await`.  `BeforeHookFails` ends the start anywhere, with part of the step
done; mocha then skips the tests and still runs the after hook, which uses what
the start may not have set (`fields`) and can fail itself (`broken`).  `GiveUp` is
mocha's timeout; the test takes further steps as long as its file lasts.  A later
file whose server finds the port in use fails to start.

A test starts a process instance and then, by its kind,

- "helper": polls until its task waits (`querySuspended`), lists the user tasks of
  the correlation, asserts their number and subscribes to the end of the instance
  (`ListUserTasks`), and calls `finishUserTaskInCorrelation`, which lists the tasks
  a second time, asserts that there is exactly one and that it is this one
  (`assertWaitingUserTask`), and then asks the engine to finish it
  (`finishUserTask`): two awaits, between which anything can happen.  The tests
  that call it have one task (`TestSessionAssumption`), and with more it would
  reject;
- "direct": the same for any number of tasks, but without the helper's second
  list: one request after the other, as in `parallel_gateway_test.js`, lines 70
  to 99.  These requests are those of the action `finishUserTask` too;
- "end": subscribes, after its start, to the end of any instance of the model in
  the correlation (`subscribeOnce`), and leaves its tasks to the sample worker, or
  has none.

The queries see what they see in the code: the poll every suspended task of the
correlation, of the process model only where the test passes one (`Found`), the
list every user task of the correlation (`WaitingUserTasks`).  The assertions and
requests of a test run inside `new Promise(async ...)`, where a rejection reaches
nobody (mocha 7 only warns of it): the test then waits for the end it has
subscribed to, until mocha gives up (`Rejected`).  A subscription holds for one
end, and a test that subscribes too late is left to mocha's timeout.  Once its
file is torn down the calls of a test, which need the container, fail.  A start
through `executeProcess` that is not awaited is modelled as one that is.

A task is a pair of the test that started its instance and a number.  The engine
is external: it reaches the tasks of an instance in their order and at any time,
several before one is finished, refuses a task that does not wait, stores the end,
publishes it, or fails.  The sample worker finishes a task while it polls and a
server listens.

### DatabaseContainers

The two scripts, an invocation at a time or several at once: `at[p]` is the
docker command that invocation p waits for, so every look at docker
(`getRunning...`, `getExisting...`) and every act that follows from it is an
action of its own.  A storage, the data directory of a server, is named after the
invocation whose `docker run` made it.  For MySQL it is the named volume, and the
database is made afterwards, in a loop that gives up; for Postgres the volume is
mounted where the server keeps nothing, the data goes with the container, and the
image makes the database.  docker is external: a name is given once, what runs
is not removed, a volume in use is not either, and any command may be refused
(`CallFails`).  `CutOff` ends an invocation, `ContainerStops` the server.
`docker build` is part of `dockerRun`.

## Runs

Deadlock is not checked: a start, a test run or an invocation that has ended,
well or not, has no further step, and nothing forces another one.  Bounds:
`MaxRestarts` limits `Stop`, `MaxId` the rows, `MaxStarts` the calls of
`startRuntime`, `Sessions` the test files, `MaxTries` and `maxRetries` the loops
(60 and 20 in the code), `Calls` the invocations.

| Run | What is asked | Bounds |
| --- | --- | --- |
| `migrator_sqlite` | SQLite, with a file per repository and with one for all.  Tables stay well formed, repositories come in order; every row keeps its place and values and has at most one more copy per restart; the process instance of a flow node instance is known at every statement; a store that is up to date is left alone; only scripts known not to be repeatable fail, and only after an interrupted start; every start that succeeds ends with the schema of a new installation; correlations get the state `correlation/04` names where the tables share a database and nothing was cut off; a start that nothing interrupts migrates; MigrationLog is implemented. | new stores, stores older than the log, before correlations had a state, and current ones, in both layouts (older than the log only with a file per repository: in one for all `correlation/04` syncs nothing, see below); two restarts |
| `migrator_postgres` | A pool of connections.  Which scripts can fail, and that each correlation gets its process instance and identity from one and the same token: all of them have both if nothing was cut off, and none has them from two tokens if something was. | four stores, in the oldest of which a correlation has two process instances, of two users and two models; two restarts |
| `post_migration` | The mark is set only when all rows with a stored model have a name, and a lane if their flow node is on one; each row is filled from the model of its own process instance; a row is set once, and rows of the engine never; unless a flow node is not found, every fair run fills all and serves. | six stores: new, old, marked, with a flow node of a sub process, MySQL shared and separate; two restarts |
| `startup` | Nothing is executed on a store that is not migrated; the parent is told when all services run; after a complete start no instance stored as running lies idle, although instances start and finish meanwhile; an interrupted instance is executed again or finishes unless a start fails. | two repositories of two scripts and one, two instances, with and without HTTP, any partly migrated store, two restarts |
| `settings` | All paths that are worked on are absolute; post-migration and engine work on the files that were migrated. | two starts, 27 combinations of arguments each |
| `test_session` | A file that was torn down leaves no rows behind but those of tests that went wrong; when a file ends, however, nothing of it listens or polls; a wait for tasks finds the test's own and it finishes no others; the assertions of one waiting task, and of the number of tasks, fail only for a reason; a test whose request was rejected unnoticed does not pass all the same; mocha reaches the end of its files whatever fails and whatever the engine does. | two files: in the first a test that leaves a task to the worker; in the second one that finishes two tasks by itself and one that finishes one through the helper, in the same correlation; two tries |
| `containers` | A reset that reported success serves no old data, whatever ran meanwhile; a container has its database unless the invocation that made it still tries, gave up or was cut off; every invocation ends. | three invocations of either script, two tries |

Two restarts are what it takes to interrupt the repair of an interruption; each
script is one of 25 with at most 20 statements, all interrupted everywhere.  Two
process instances are enough for one to be started or finished while another one
is resumed.  Rows: one per case the scripts tell apart, with a second one where a
copy or a mix-up of two could go unnoticed.  Two files are what it takes for one
to meet what another left; of two tests in a correlation, the first one's tasks
are what can make the assertions of the second one's helper fail, and what it
would finish by mistake.
Three invocations let one repair what two have done to each other.

Five runs show that the code does not do what the repository says of it:

| Run | The code | What says otherwise |
| --- | --- | --- |
| `states_postgres` | On Postgres the unquoted `SELECT` of `correlation/04` (line 73) fails after the columns were added; the next start returns early and logs it: all correlations stay finished. | the comment there, lines 86-94 |
| `drop_race` | The drop that `external_task/02` (line 27) does not wait for can remove the table the same attempt created. | its comment, lines 25-26 |
| `post_lane` | The post-migration writes the lane between quotes also if there is none (line 247): the column holds the text `null`. | the comment at line 8: the property "will remain empty" |
| `post_postgres` | The UPDATE (line 249) lacks a dot after `public`: every start with a row to fill exits. | the comment at lines 5-6 |
| `startup_twice` | An instance started before `resumeProcessInstances` is resumed although it runs (`main.ts`, lines 71-83). | the message at line 346 |

Seen while modelling, and not the subject of a run:

- `correlation/04` syncs nothing where each repository has its own file, and
  nothing from a store older than the log, since `flow_node_instance/03` runs
  later.
- `correlation/01` leaves its columns empty when it was cut off before it filled
  them.
- `external_task/02` stores missing values as the texts `null` and `undefined`.
- `setDatabasePaths` sets no variable for `cronjob_history` (`environment.ts`,
  lines 19 to 49): the engine opens the file of its configuration, in the working
  directory, and not the one that was migrated; `README.md`, lines 129 and 215, says
  that it lies in the folder of the databases.
- A flow node that is not in the first process of its definition ends the
  post-migration at every start.
- The guard of `external_task/01` looks at one of three columns only (nothing
  adds that column without the others but an interrupted attempt).
- `test_migrator.ts`, line 32, resolves one text in which the folder and the name
  of the file are separated by a comma.
- A test that only subscribes after it has started its instance, such as
  `src/test/2_management_api/flow_node_instances/flow_node_instances.js`, lines 43
  to 48, can miss the end and then runs into mocha's timeout.
- `finishUserTaskInCorrelation` rejects in a correlation with two waiting tasks;
  its tests have one.  Its rejection inside `new Promise(async ...)` shows as a
  timeout only (`RejectionNeverHidden` says that it does show).
- `mysql_docker.js start`, called again after its loop gave up, finds the
  container and reports success without a database.  `run` only logs an error
  (line 171), so that the exit code is 0 and the workflow of the continuous
  integration (lines 112 and 153) goes on.  docker's filter `name=` matches parts
  of names.

Fairness, where a run has a liveness property:

- `migrator_sqlite`, `post_migration`, `startup`: `WF_vars(Progress)`.  Node's
  event loop keeps running and every awaited call settles, so a step that is
  possible is taken.  `Stop`, failures of the start, and whatever clients do are
  not in `Progress`.
- `test_session`: the calls of the fixture settle, one way or the other, a test is
  begun when its turn comes, and mocha's clock runs.  Nothing is asked of the
  engine, nor of a test that has begun.
- `containers`: `exec` calls back for every docker command.

## Proofs

All proof modules follow the same line: an inductive invariant, a lemma
that Init gives it, one that every step keeps it with one case per action, the
theorem by PTL, and the properties from it.

- `MigratorProofs`, for every dialect, both layouts, every set of initial
  stores and number of restarts.  `RunnerInv` adds to the properties that
  the running script is the first one pending (`RunningScriptIsNext`): otherwise
  `LogMigration` could log it out of order.  What the statements do to the tables
  is not needed, which is why the theorems hold for whatever a script does.
  Proved: `LogIsPrefix` (which a run need not ask
  for, as `ImplementsLog` implies it), `RepositoriesInOrder`, `CompleteStoreUntouched`,
  `ImplementsLog`, and the part of `TypeOK` about the process.

  Its second half is about the tables and all 25 scripts.  What is left of a
  script is a sequence of statements each of which keeps a well formed database
  well formed, whatever came before it (`Allowed`, `AfterWellFormed`): that every
  script is such a sequence (`UpPlan`) is what its definition is proved for, that
  every step leaves one is `TablesInv`.  Well formed is more than `TypeOK` says,
  since an interrupted script leaves a temporary table that the next attempt
  copies to: it has the columns of that attempt (`TemporaryFits`), and nothing of
  a token is unique or indexed that `flow_node_instance/03` removes (`TokensFit`).
  Proved: `TypeOK`.
- `MigrationRowsProofs`, about what is kept of each row.  `KeptBy` says what
  each statement makes of it, `Harmless` when none of it is lost.  `RowsInv` says
  that a script drops a table, but that of the external tasks, only as the next
  statement after a copy of its rows, or with the copy made (`OtherRowsKept`, for
  every dialect).  `external_task/02` selects the rows and inserts them one by
  one, from texts, while a drop is on its way: `TasksInv` follows it from statement
  to statement (`CopyPhase`), says that the rows inserted and those still to be
  inserted are all that were selected (`AreCopies`), and that what an interrupted
  attempt left are copies (`TasksFit`).  On SQLite, whose connection keeps the
  order of the statements, it is inductive, and proves `ValuesKept`: no row of a
  table is lost or added, nor a kept value of it changed.  The theorem assumes that
  dialect because the run `drop_race` shows that on a pool it is not so.

  The same module counts the copies of a row.  For every table but that of the
  external tasks `OthersInv` says how often a key can be in the live table and in
  the temporary one (`Sound`): each restart adds one copy at the most, since a
  script copies a table once, replaces it afterwards (`CopiesOnce`, `Waits`), and
  then has given it an integer id, so that no later start copies it again
  (`KeysOfUnmigrated`).  `TaskKeysInv` says of the tasks on SQLite that no copy is
  left when they are selected and that those still to be inserted have keys of
  their own (`Fresh`), so that a task is never there twice.  Together they prove
  `CopiesBounded` on SQLite; for the other tables the bound is proved for
  PostgreSQL too (`OtherCopiesBounded`).  Not for MySQL: there `describeTable` never
  calls a type `INTEGER`, so that a rebuilt table is not recognised as one and is
  rebuilt by every attempt.
- `MigrationInstancesProofs`, about the process instance of a flow node instance,
  which `flow_node_instance/02` copies with the tokens and `flow_node_instance/03`
  takes from them.  `ValuesBy` says what each statement makes of some columns of a
  table's rows.  `InstancesInv` says that every token, also one in the temporary
  table, is that of a flow node instance that is stored, and that all rows of one
  flow node instance say the same (`InPlace`); that the tokens are about to be
  dropped only when their copies say it too (`CopySays`); that the flow node
  instances name none before `flow_node_instance/02` is logged
  (`InstancesLogged`), since 02 would not copy the column; and, statement by
  statement, what `flow_node_instance/03` has added, filled and removed
  (`MovesInOrder`, `Moved`).  That no other script touches the columns is proved
  from the tables that each of them is about (`UpTables`, `UpNeutral`).  An
  attempt of 03 that follows an interrupted one fails at its first statement, and
  the store then still says it all.  Proved, for every dialect:
  `InstanceStaysKnown`.

  The same module proves `CorrelationsFilled`, for every dialect too.  `FilledInv`
  follows `correlation/01` from statement to statement (`Filling`): its last two
  statements are still to come; or the first of them has given every correlation
  the process instance of one of its tokens (`InstanceFilled`, by what a fill makes
  of a row: `FilledBy`); or the second has added the identity of a token with that
  process instance (`FilledIn`).  Until it is logged the tokens alone name process
  instances, since `correlation` is the first repository (`FirstRelease`,
  `CorrelationScriptRuns`).  From then on no script computes the three columns anew
  (`UpSpares`, `ContinuationSpares`), the copy of `correlation/03` has them all
  (`StoredBy`), and what the tables say of flow node instances stays the same, their
  correlation and identity included: that is `InstancesInv` for those columns.

  And it proves `StatesSyncedIfPossible`, for every dialect.  `StatesInv` follows
  `correlation/04`: the correlations have no state and the columns are still to be
  added (`Preparing`); or every correlation has the state that its flow node
  instances ask for, or is still "finished" as it was added and a statement is left
  that is going to settle it: the select of all correlations, a query for its
  instances, or its update (`Syncing`, `Settles`).  A query for failed instances is
  only there once that for active ones has found none, which is why "running" wins.
  When nothing is left all are settled (`AllSynced`).  No script that can run after
  it touches the states or the process instances of either table (`StateScripts`,
  `UpLeaves`, `ContinuationLeaves`): `correlation/03` and `flow_node_instance/03`,
  which do, are logged before `correlation/04` begins, by hypothesis.  For a store
  without correlations there is nothing to show, since the scripts add none
  (`RowsInv`).  On Postgres the select of `correlation/04` fails, so that only a
  restart gets the script logged.
- `PostMigrationProofs`, for every store, dialect and number of restarts.
  `FillInv` says what the process knows while it works: what it has loaded is
  what is stored, a row that is still open is among those selected, nothing is
  marked yet.  An update leaves a row's process instance and flow node alone, so
  that the model it was written from is still the row's own afterwards
  (`UpdateFillsFromOwnModel`).  Proved: `TypeOK`, `MarkedWhenFilled`,
  `ServesOnlyMarked`, `SetOnce`, `FilledFromOwnModel`.
- `RuntimeStartupProofs`, for every list of repositories, set of instances and
  number of restarts.  `StartInv` ties the phase of the start to the store, to
  the services and to what can be alive.  Proved: `TypeOK`,
  `ExecutesOnMigratedStore`, `StartedMeansServing`, `NothingLeftIdle`.
- `StartupSettingsProofs`, for every list of repositories, configuration, set of
  arguments and number of starts.  `SettingsInv` says that from the migrations on
  the variables are those of this start (`VariablesInv`), that a migrated file is
  its repository's in the folder of this start (`MigratedInv`: seen from the
  working directory as long as that has not changed, without it if the folder is
  absolute), and that nobody reads before its turn (`FreshInv`).  The rest is how
  paths are put together (`Concatenated`, `ResolvedTogether`).  Proved: `TypeOK`,
  `PostMigrationReadsMigrated`, `EngineOpensMigrated`.
- `TestSessionProofs`, for any number of files, tests, tasks and tries.  `IInv` adds
  to the type: what the services may be in each phase (`ServicesInv`), that the
  tests of later files have not begun and those of earlier ones have ended
  (`OrderInv`), where the tests of each kind can be (`PlaceInv`), that what a test
  takes and awaits is of its correlation and that it passes by the end of its own
  instance (`PassedInv`), that a task waits only in an instance that runs
  (`WaitInv`), and whose rows can be there in each phase of the tear-down
  (`RowsInv`); this last one is what carries a file's rows through the reading and
  deleting of the models.  The heart is `TakenInv`: a test that nothing has
  disturbed has taken its own tasks only, which wait until it finishes them or the
  instance fails.  It holds because the other tests of the correlation have ended
  and been published, or have not begun (`OthersAreDone`), so that the queries,
  which see the whole correlation, find no more tasks than the test's own; counting
  them is then enough to have them all (`FindsItsOwn`, `ListsItsOwn`).  The
  assertions of the helper can then only fail in an instance that has failed
  (`RejectedByFailure`), whose end is not published (`RejectedInv`).  Proved:
  `TypeOK`, `NothingKeepsRunning`, `TornDownIsClean`, `FoundIsOwn`,
  `FailsForAReason`, `RejectionNeverHidden`.
- `DatabaseContainersProofs`, for any number of invocations and retries.  `IInv`
  says that a container has one storage, with MySQL that of the volume (`DataInv`),
  that whatever is stored was made by an invocation past its `docker run`
  (`MadeInv`), what a reset has left behind at each of its commands (`ResetInv`),
  and whose attempts at the database go on (`DatabaseInv`, `TriesInv`).  Proved: `TypeOK`,
  `ResetIsFresh`, `DatabaseUnlessAbandoned`.

Assumptions: the named `ASSUME`s on the constants, which TLC evaluates in every
run.  The initial stores may be anything

- whose log is a prefix per repository, since only umzug writes it
  (`InitialStoresAssumption`),
- whose tables are well formed (`InitialTablesAssumption`): they were made by these
  scripts or by the repositories of the releases before them,
- whose tasks have a value where `external_task/00` declares one (lines 38 to 63
  there, `allowNull: false`; Sequelize sets `createdAt`), with a temporary table only
  as `external_task/02` leaves it (`InitialTasksAssumption`).  Other columns of a task
  may be null, and come out of the script as texts; `KeptColumns` leaves them out,
- whose tokens name a process instance and a flow node instance that is stored, and
  whose rows agree on the process instance of each (`InitialInstancesAssumption`):
  the engine stores a token with the flow node instance that it belongs to
  (`flow_node_instance/00` declares its process instance and the key of its flow node
  instance NOT NULL), and what an interrupted script left is as that script leaves it.

The theorem about filled correlations asks `CorrelationsFit` of the stores too: the
rows of a flow node instance agree on the correlation and the identity; in a shared
database where `correlation/01` is not logged only the tokens name process instances,
and no copy of the correlations was begun; where it is logged, or the correlations
have its columns already, they are filled, as the repositories of later releases
store them.  It has to be asked since the script returns when it finds the columns,
filled or not.  `MCMigrator` has TLC evaluate it too.

The theorem about the states asks `StatesFit`: a shared database has no correlations,
or `correlation/03` and `flow_node_instance/03` are logged in it, its flow node
instances have a state where they name a process instance, and its correlations have
the state that goes with it if `correlation/04` is logged, and no such column if not.
It leaves out the stores from before the log: `correlation/04` finds no instance for a
correlation while `flow_node_instance/03` is still to come, as said above.
`MCMigrator` has TLC evaluate it for the stores of the run that checks the property.

The theorems about copies ask one thing more of the initial stores, `NoCopiesLeft`:
a key is there once, and no temporary table has rows.  A bound on the copies by
the number of restarts counts from a store that no start before has left
half-migrated; `MCMigrator` has TLC evaluate it for the stores of every run.

Only model-checked: liveness (`EventuallyMigrated`, `EventuallyFilledIfFound`,
`InterruptedIsResumed`, `EverySessionEnds`, `CommandsEnd`), which needs fairness;
`CorrelationsNeverMixed`, the part of `CorrelationsFilled` that also holds of starts that
were cut off; `FailsOnlyWhereKnown` and `SchemaConverges`, which follow the columns
through all scripts.  The latter two need the exact columns, unique columns and indexes of every table before
every statement, in either layout and after every interruption; their runs are for
SQLite and, `FailsOnlyWhereKnown` only, PostgreSQL.  They say nothing of MySQL, which
does not understand the double-quoted `UPDATE`s of `correlation/01` (lines 78 to 107).

## Not modelled

- The engine and its services beyond what the start and the fixtures ask of them;
  SQL beyond the scripts.
- The environment `NODE_ENV`, the configuration folder, log paths, the container
  and what is registered in it.
- Calls of `startRuntime` while another one is running: `sqlitePath` is read anew
  for each repository (`main.ts`, line 242).
- Of the test setup: `waitForExternalTaskToBeCreated`, `executeProcess`, and the
  helpers that only pass a request on to the engine (empty activities, manual
  tasks); the identities and the claims of the IAM mock, the folder and the host
  names that Jenkins sets; what a test does once its file is torn down.
- Packaging, autostart, changelog and the installer, which keep no state;
  configuration, BPMN files and API description, which are data.

## Plan

Done, in this order: Migrator, PostMigration, RuntimeStartup, StartupSettings,
TestSession, DatabaseContainers, each with its runs and proofs.

Left, in this order:

1. StartupSettings: concurrent calls of `startRuntime`, `setConfigPath` and
   `validateEnvironment`, the logging path.
2. Composition: PostMigration under RuntimeStartup, as a refinement of its
   `runPostMigrations`.

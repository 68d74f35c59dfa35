---------------------------- MODULE TestSession ----------------------------
(***************************************************************************)
(* The integration tests as their fixtures run them: one mocha process     *)
(* runs the test files one after the other; each file is a session that    *)
(* TestFixtureProvider starts before its tests and tears down after them,  *)
(* on the same database.  ProcessInstanceHandler polls for the tasks of a  *)
(* process instance and waits for its end.  mocha gives up on a test that  *)
(* takes too long and goes on, but nothing stops that test.                *)
(*                                                                         *)
(* The engine, its HTTP server and the persistence belong to packages that *)
(* run in the same process; they are modelled by what the fixtures call.   *)
(***************************************************************************)
EXTENDS Naturals, Sequences, FiniteSets, Functions

CONSTANTS
  Sessions,   \* the number of test files
  Tests,      \* their tests, in the order in which mocha runs them
  MaxTries    \* maxNumberOfRetries

\* What a test does with its process instance: "helper" and "direct" wait for
\* its user tasks and finish them, through finishUserTaskInCorrelation or by
\* requests of their own; "end" waits only for the end and leaves the tasks, if
\* there are any, to the sample worker.
Kinds == {"helper", "direct", "end"}

T == DOMAIN Tests
TestsOf(s) == {t \in T : Tests[t].session = s}
ModelsOf(s) == {Tests[t].model : t \in TestsOf(s)}

\* The tasks of the process instance of t.
TasksOf(t) == {t} \X (1..Tests[t].tasks)
AllTasks == UNION {TasksOf(t) : t \in T}

SameCorrelation(t, u) == Tests[t].correlation = Tests[u].correlation

ASSUME TestSessionAssumption ==
  /\ Sessions \in Nat \ {0} /\ MaxTries \in Nat \ {0}
  /\ Tests \in Seq(Range(Tests))
  /\ \A t \in T :
       /\ DOMAIN Tests[t] = {"session", "kind", "tasks", "correlation", "model"}
       /\ Tests[t].session \in 1..Sessions
       /\ Tests[t].kind \in Kinds
       /\ Tests[t].tasks \in Nat
       \* A test that uses the helper waits for one task, as the helper asserts.
       /\ Tests[t].kind = "helper" => Tests[t].tasks = 1
       /\ Tests[t].kind = "direct" => Tests[t].tasks # 0
       \* Correlations get a new id in each test file.
       /\ \A u \in T : SameCorrelation(t, u) => Tests[t].session = Tests[u].session

VARIABLES
  session,     \* the test file that runs
  phase,       \* what its fixture waits for: see Phases
  enableHttp,  \* the parameter of initializeAndStart
  fields,      \* the properties of the fixture that have a value
  listening,   \* sessions whose HTTP server listens on the port
  polling,     \* sessions whose sample worker polls
  models,      \* process models in the database
  toDelete,    \* those clearDatabases has found and not deleted yet
  rows,        \* tests whose process instance has rows in the database
  instance,    \* [test -> the state of its process instance]
  waiting,     \* tasks that wait
  done,        \* tasks that were finished
  test,        \* [test -> where it is]
  tries,       \* [test -> queries made by waitForProcessInstanceToReach...]
  taken,       \* [test -> the tasks it has listed and not finished yet]
  awaited,     \* [test -> the instances whose end it has subscribed to]
  passed,      \* tests that have heard of an end
  rejected,    \* tests whose rejected request goes unnoticed
  abandoned    \* tests that mocha has given up on

fixture == <<session, phase, enableHttp, fields>>
services == <<listening, polling>>
database == <<models, toDelete, rows>>
engine == <<instance, waiting, done>>
tests == <<test, tries, taken, awaited, passed, rejected, abandoned>>
vars == <<fixture, services, database, engine, tests>>

Starting == {"migrations", "post-migrations", "bootstrapper", "start", "worker",
             "routes", "clients", "import"}
Stopping == {"close http", "stop worker", "get models", "delete models",
             "stop bootstrapper"}
Ended == {"torn down", "broken"}
Phases == {"idle", "tests", "exited"} \union Starting \union Stopping \union Ended

States == {"none", "running", "ended", "published", "failed"}
Places == {"not run", "polling", "found", "started", "subscribed", "asserted",
           "listening", "failed"}

Init ==
  /\ session = 1 /\ phase = "idle" /\ enableHttp = TRUE /\ fields = {}
  /\ listening = {} /\ polling = {}
  /\ models = {} /\ toDelete = {} /\ rows = {}
  /\ instance = [t \in T |-> "none"]
  /\ waiting = {} /\ done = {}
  /\ test = [t \in T |-> "not run"]
  /\ tries = [t \in T |-> 0]
  /\ taken = [t \in T |-> {}]
  /\ awaited = [t \in T |-> {}]
  /\ passed = {} /\ rejected = {} /\ abandoned = {}

-----------------------------------------------------------------------------
(* TestFixtureProvider.initializeAndStart, and the rest of the before hook. *)

initializeAndStart ==
  /\ phase = "idle"
  /\ phase' = "migrations"
  /\ enableHttp' \in BOOLEAN
  /\ fields' = {}
  /\ UNCHANGED <<session, services, database, engine, tests>>

runMigrations ==
  /\ phase = "migrations"
  /\ phase' = "post-migrations"
  /\ UNCHANGED <<session, enableHttp, fields, services, database, engine, tests>>

\* An error ends the whole mocha process.
runPostMigrations ==
  /\ phase = "post-migrations"
  /\ phase' \in {"bootstrapper", "exited"}
  /\ UNCHANGED <<session, enableHttp, fields, services, database, engine, tests>>

initializeBootstrapper ==
  /\ phase = "bootstrapper"
  /\ phase' = "start"
  /\ fields' = {"container", "bootstrapper"}
  /\ UNCHANGED <<session, enableHttp, services, database, engine, tests>>

\* The port is free, or the start fails.
startBootstrapper ==
  /\ phase = "start"
  /\ enableHttp => listening = {}
  /\ phase' = "worker"
  /\ listening' = IF enableHttp THEN {session} ELSE listening
  /\ UNCHANGED <<session, enableHttp, fields, polling, database, engine, tests>>

resolveWorker ==
  /\ phase = "worker"
  /\ fields' = fields \union {"worker"}
  /\ IF enableHttp
     THEN phase' = "routes" /\ polling' = polling \union {session}
     ELSE phase' = "clients" /\ UNCHANGED polling
  /\ UNCHANGED <<session, enableHttp, listening, database, engine, tests>>

configureGlobalRoutes ==
  /\ phase = "routes"
  /\ phase' = "clients"
  /\ UNCHANGED <<session, enableHttp, fields, services, database, engine, tests>>

resolveClients ==
  /\ phase = "clients"
  /\ phase' = "import"
  /\ fields' = fields \union {"clients"}
  /\ UNCHANGED <<session, enableHttp, services, database, engine, tests>>

importProcessFiles ==
  /\ phase = "import"
  /\ phase' = "tests"
  /\ models' = models \union ModelsOf(session)
  /\ UNCHANGED <<session, enableHttp, fields, services, toDelete, rows, engine, tests>>

\* Defect for mutation: the parameter of the start is forgotten.
ForgetsHttp == "stop worker"

FirstOfTearDown == IF enableHttp THEN "close http" ELSE "stop worker"

\* A step that fails may have done part of its work.  mocha skips the tests and
\* still runs the after hook.
BeforeHookFails ==
  /\ phase \in Starting \ {"post-migrations"}
  /\ phase' = FirstOfTearDown
  /\ fields' \in IF phase = "bootstrapper" THEN {fields, {"container"}} ELSE {fields}
  /\ listening' \in IF phase = "start" /\ enableHttp /\ listening = {}
                    THEN {listening, {session}} ELSE {listening}
  /\ \E imported \in SUBSET ModelsOf(session) :
       models' = IF phase = "import" THEN models \union imported ELSE models
  /\ UNCHANGED <<session, enableHttp, polling, toDelete, rows, engine, tests>>

-----------------------------------------------------------------------------
(* TestFixtureProvider.tearDown.                                           *)

Settled(t) == t \in passed \union abandoned \/ test[t] = "failed"

\* Defect for mutation: torn down only if every test has passed.
AfterTestsPassed ==
  /\ phase = "tests"
  /\ TestsOf(session) \subseteq passed
  /\ phase' = FirstOfTearDown
  /\ UNCHANGED <<session, enableHttp, fields, services, database, engine, tests>>

AfterTests ==
  /\ phase = "tests"
  /\ \A t \in TestsOf(session) : Settled(t)
  /\ phase' = FirstOfTearDown
  /\ UNCHANGED <<session, enableHttp, fields, services, database, engine, tests>>

\* A server that does not listen may refuse to be closed.
closeHttp ==
  /\ phase = "close http"
  /\ IF "container" \in fields
     THEN /\ listening' = listening \ {session}
          /\ phase' \in {"stop worker"} \union
                        (IF session \in listening THEN {} ELSE {"broken"})
     ELSE phase' = "broken" /\ UNCHANGED listening
  /\ UNCHANGED <<session, enableHttp, fields, polling, database, engine, tests>>

\* The worker has no value if the start ended before it was resolved.
stopWorker ==
  /\ phase = "stop worker"
  /\ IF "worker" \in fields
     THEN polling' = polling \ {session} /\ phase' = "get models"
     ELSE phase' = "broken" /\ UNCHANGED polling
  /\ UNCHANGED <<session, enableHttp, fields, listening, database, engine, tests>>

getProcessModels ==
  /\ phase = "get models"
  /\ IF "clients" \in fields
     THEN toDelete' = models /\ phase' \in {"delete models", "broken"}
     ELSE phase' = "broken" /\ UNCHANGED toDelete
  /\ UNCHANGED <<session, enableHttp, fields, services, models, rows, engine, tests>>

\* The model and all related data.
deleteProcessModel(m) ==
  /\ phase = "delete models"
  /\ m \in toDelete
  /\ toDelete' = toDelete \ {m}
  /\ models' = models \ {m}
  /\ rows' = {t \in rows : Tests[t].model # m}
  /\ UNCHANGED <<fixture, services, engine, tests>>

deleteFails ==
  /\ phase = "delete models"
  /\ toDelete # {}
  /\ phase' = "broken"
  /\ UNCHANGED <<session, enableHttp, fields, services, database, engine, tests>>

\* An error is only logged.
clearLogsAndMetrics ==
  /\ phase = "delete models"
  /\ toDelete = {}
  /\ phase' = "stop bootstrapper"
  /\ UNCHANGED <<session, enableHttp, fields, services, database, engine, tests>>

stopBootstrapper ==
  /\ phase = "stop bootstrapper"
  /\ phase' \in Ended
  /\ UNCHANGED <<session, enableHttp, fields, services, database, engine, tests>>

\* A test that still runs fails without its fixture.
NextSession ==
  /\ phase \in Ended
  /\ session < Sessions
  /\ session' = session + 1
  /\ phase' = "idle"
  /\ test' = [t \in T |-> IF t \in abandoned THEN "failed" ELSE test[t]]
  /\ taken' = [t \in T |-> {}]
  /\ awaited' = [t \in T |-> {}]
  /\ UNCHANGED <<enableHttp, fields, services, database, engine, tries, passed,
                 rejected, abandoned>>

-----------------------------------------------------------------------------
(* A test.  One that mocha has given up on goes on while its session lasts. *)

Lasts(t) == Tests[t].session = session /\ phase \in {"tests"} \union Stopping

\* The request to start the process instance may be rejected.
startProcessInstance(t) ==
  /\ phase = "tests"
  /\ Tests[t].session = session
  /\ test[t] = "not run"
  /\ \A u \in TestsOf(session) : u < t => Settled(u)
  /\ \/ /\ instance' = [instance EXCEPT ![t] = "running"]
        /\ rows' = rows \union {t}
        /\ test' = [test EXCEPT ![t] =
                      IF Tests[t].kind = "end" THEN "started" ELSE "polling"]
     \/ /\ test' = [test EXCEPT ![t] = "failed"]
        /\ UNCHANGED <<instance, rows>>
  /\ UNCHANGED <<fixture, services, models, toDelete, waiting, done, tries, taken,
                 awaited, passed, rejected, abandoned>>

\* The suspended tasks of the correlation, of the process model only if the test
\* names it.
Found(t) ==
  {x \in waiting : /\ SameCorrelation(t, x[1])
                   /\ Tests[t].kind = "direct" => Tests[x[1]].model = Tests[t].model}

\* Defects for mutation: the expected number of tasks is not passed on; the
\* loop does not end.
querySuspendedAny(t) ==
  /\ Lasts(t)
  /\ test[t] = "polling"
  /\ IF Found(t) # {}
     THEN test' = [test EXCEPT ![t] = "found"] /\ tries' = [tries EXCEPT ![t] = 0]
     ELSE /\ tries' = [tries EXCEPT ![t] = @ + 1]
          /\ test' = [test EXCEPT ![t] =
                        IF tries[t] + 1 < MaxTries THEN "polling" ELSE "failed"]
  /\ UNCHANGED <<fixture, services, database, engine, taken, awaited, passed,
                 rejected, abandoned>>

querySuspendedForever(t) ==
  /\ Lasts(t)
  /\ test[t] = "polling"
  /\ IF Cardinality(Found(t)) >= Tests[t].tasks
     THEN test' = [test EXCEPT ![t] = "found"] /\ tries' = [tries EXCEPT ![t] = 0]
     ELSE tries' = [tries EXCEPT ![t] = @ + 1] /\ UNCHANGED test
  /\ UNCHANGED <<fixture, services, database, engine, taken, awaited, passed,
                 rejected, abandoned>>

\* One turn of the loop in waitForProcessInstanceToReachSuspendedTask.
querySuspended(t) ==
  /\ Lasts(t)
  /\ test[t] = "polling"
  /\ IF Cardinality(Found(t)) >= Tests[t].tasks
     THEN test' = [test EXCEPT ![t] = "found"] /\ tries' = [tries EXCEPT ![t] = 0]
     ELSE /\ tries' = [tries EXCEPT ![t] = @ + 1]
          /\ test' = [test EXCEPT ![t] =
                        IF tries[t] + 1 < MaxTries THEN "polling" ELSE "failed"]
  /\ UNCHANGED <<fixture, services, database, engine, taken, awaited, passed,
                 rejected, abandoned>>

\* getWaitingUserTasksForCorrelationId: of every process model; the tasks of the
\* sample worker are not user tasks.
WaitingUserTasks(t) ==
  {x \in waiting : /\ SameCorrelation(t, x[1])
                   /\ Tests[x[1]].kind \in {"helper", "direct"}}

\* The test lists the tasks, asserts their number and subscribes to the end of
\* the instance of one of them (waitForProcessWithInstanceIdToEnd).
ListUserTasks(t) ==
  /\ Lasts(t)
  /\ test[t] = "found"
  /\ IF Cardinality(WaitingUserTasks(t)) = Tests[t].tasks
     THEN /\ taken' = [taken EXCEPT ![t] = WaitingUserTasks(t)]
          /\ \E x \in WaitingUserTasks(t) : awaited' = [awaited EXCEPT ![t] = {x[1]}]
          /\ test' = [test EXCEPT ![t] = "subscribed"]
     ELSE test' = [test EXCEPT ![t] = "failed"] /\ UNCHANGED <<taken, awaited>>
  /\ UNCHANGED <<fixture, services, database, engine, tries, passed, rejected,
                 abandoned>>

\* waitForProcessInstanceToEnd: of any instance of the model in the correlation.
subscribeOnce(t) ==
  /\ Lasts(t)
  /\ test[t] = "started"
  /\ awaited' = [awaited EXCEPT ![t] =
       {u \in T : SameCorrelation(t, u) /\ Tests[u].model = Tests[t].model}]
  /\ test' = [test EXCEPT ![t] = "listening"]
  /\ UNCHANGED <<fixture, services, database, engine, tries, taken, passed, rejected,
                 abandoned>>

\* A rejection inside "new Promise(async ...)" reaches nobody: no other task is
\* finished, and the test goes on waiting for the end.
Rejected(t) ==
  /\ rejected' = rejected \union {t}
  /\ taken' = [taken EXCEPT ![t] = {}]
  /\ test' = [test EXCEPT ![t] = "listening"]

\* finishUserTaskInCorrelation up to its second await: it lists the tasks again,
\* there must be one, and it must be the one to finish.
assertWaitingUserTask(t) ==
  /\ Lasts(t)
  /\ test[t] = "subscribed"
  /\ Tests[t].kind = "helper"
  /\ \/ /\ \E x \in taken[t] : WaitingUserTasks(t) = {x}
        /\ test' = [test EXCEPT ![t] = "asserted"]
        /\ UNCHANGED <<taken, rejected>>
     \/ /\ \A x \in taken[t] : WaitingUserTasks(t) # {x}
        /\ Rejected(t)
  /\ UNCHANGED <<fixture, services, database, engine, tries, awaited, passed,
                 abandoned>>

\* The engine finishes a task that waits, and refuses any other.
Finish(t, x) ==
  /\ x \in waiting
  /\ waiting' = waiting \ {x}
  /\ done' = done \union {x}
  /\ rows' = rows \union {x[1]}
  /\ UNCHANGED rejected

Requests(t) ==
  /\ Lasts(t)
  /\ test[t] = IF Tests[t].kind = "helper" THEN "asserted" ELSE "subscribed"

\* Defects for mutation: a task is requested once more; the test ends when its
\* last task is finished.
finishUserTaskTwice(t) ==
  /\ Requests(t)
  /\ \E x \in taken[t] :
       \/ Finish(t, x) /\ UNCHANGED <<taken, test>>
       \/ x \notin waiting /\ Rejected(t) /\ UNCHANGED <<waiting, done, rows>>
  /\ UNCHANGED <<fixture, services, models, toDelete, instance, tries, awaited, passed,
                 abandoned>>

finishUserTaskUnheard(t) ==
  /\ Requests(t)
  /\ \E x \in taken[t] :
       \/ /\ Finish(t, x)
          /\ taken' = [taken EXCEPT ![t] = @ \ {x}]
          /\ test' = [test EXCEPT ![t] = IF taken[t] = {x} THEN "listening" ELSE @]
          /\ passed' = IF taken[t] = {x} THEN passed \union {t} ELSE passed
       \/ /\ x \notin waiting /\ Rejected(t)
          /\ UNCHANGED <<waiting, done, rows, passed>>
  /\ UNCHANGED <<fixture, services, models, toDelete, instance, tries, awaited,
                 abandoned>>

\* One request after the other, for the tasks that were listed.
finishUserTask(t) ==
  /\ Requests(t)
  /\ \E x \in taken[t] :
       \/ /\ Finish(t, x)
          /\ taken' = [taken EXCEPT ![t] = @ \ {x}]
          /\ test' = [test EXCEPT ![t] = IF taken[t] = {x} THEN "listening" ELSE @]
       \/ x \notin waiting /\ Rejected(t) /\ UNCHANGED <<waiting, done, rows>>
  /\ UNCHANGED <<fixture, services, models, toDelete, instance, tries, awaited, passed,
                 abandoned>>

\* mocha's timeout.
GiveUp(t) ==
  /\ phase = "tests"
  /\ Tests[t].session = session
  /\ test[t] # "not run"
  /\ ~Settled(t)
  /\ abandoned' = abandoned \union {t}
  /\ UNCHANGED <<fixture, services, database, engine, test, tries, taken, awaited,
                 passed, rejected>>

-----------------------------------------------------------------------------
(* The engine.  It goes on with an instance whatever becomes of its test.  *)

\* The tasks of an instance have their numbers in the order of its coming to them.
ReachTask(t) ==
  /\ instance[t] = "running"
  /\ \E x \in TasksOf(t) \ (waiting \union done) :
       /\ \A k \in 1..(x[2] - 1) : <<t, k>> \in waiting \union done
       /\ waiting' = waiting \union {x}
  /\ rows' = rows \union {t}
  /\ UNCHANGED <<fixture, services, models, toDelete, instance, done, tests>>

\* The sample worker fetches the task over HTTP and finishes it.
processExternalTask(t) ==
  /\ Tests[t].kind = "end"
  /\ polling \intersect listening # {}
  /\ \E x \in TasksOf(t) : Finish(t, x)
  /\ UNCHANGED <<fixture, services, models, toDelete, instance, test, tries, taken,
                 awaited, passed, abandoned>>

\* The end is stored before it is published.
EndInstance(t) ==
  /\ instance[t] = "running"
  /\ TasksOf(t) \subseteq done
  /\ instance' = [instance EXCEPT ![t] = "ended"]
  /\ rows' = rows \union {t}
  /\ UNCHANGED <<fixture, services, models, toDelete, waiting, done, tests>>

PublishEnd(u) ==
  /\ instance[u] = "ended"
  /\ instance' = [instance EXCEPT ![u] = "published"]
  /\ passed' = passed \union {t \in T \ abandoned : u \in awaited[t]}
  /\ awaited' = [t \in T |-> IF u \in awaited[t] THEN {} ELSE awaited[t]]
  /\ UNCHANGED <<fixture, services, database, waiting, done, test, tries, taken,
                 rejected, abandoned>>

\* An instance that only waits does nothing that could fail.
FailInstance(t) ==
  /\ instance[t] = "running"
  /\ TasksOf(t) = {} \/ ~(TasksOf(t) \subseteq waiting)
  /\ instance' = [instance EXCEPT ![t] = "failed"]
  /\ waiting' = waiting \ TasksOf(t)
  /\ rows' = rows \union {t}
  /\ UNCHANGED <<fixture, services, models, toDelete, done, tests>>

-----------------------------------------------------------------------------
Fixture ==
  \/ initializeAndStart \/ runMigrations \/ runPostMigrations
  \/ initializeBootstrapper \/ startBootstrapper \/ resolveWorker
  \/ configureGlobalRoutes \/ resolveClients \/ importProcessFiles
  \/ BeforeHookFails
  \/ AfterTests \/ closeHttp \/ stopWorker \/ getProcessModels
  \/ (\E m \in toDelete : deleteProcessModel(m))
  \/ deleteFails \/ clearLogsAndMetrics \/ stopBootstrapper \/ NextSession

Test(t) ==
  \/ startProcessInstance(t) \/ querySuspended(t) \/ ListUserTasks(t)
  \/ subscribeOnce(t) \/ assertWaitingUserTask(t) \/ finishUserTask(t)

Engine(t) ==
  \/ ReachTask(t) \/ processExternalTask(t) \/ EndInstance(t) \/ PublishEnd(t)
  \/ FailInstance(t)

\* After its last file mocha ends the process (--exit).
Exited == phase = "exited" \/ (session = Sessions /\ phase \in Ended)

Next ==
  /\ ~Exited
  /\ \/ Fixture
     \/ \E t \in T : Test(t) \/ GiveUp(t) \/ Engine(t)

Spec == Init /\ [][Next]_vars

\* The fixture's calls settle, a test goes on, and mocha's clock runs.  Nothing
\* is asked of the engine.
FairSpec ==
  /\ Spec
  /\ WF_vars(~Exited /\ Fixture)
  /\ \A t \in T : WF_vars(~Exited /\ startProcessInstance(t))
                  /\ WF_vars(~Exited /\ GiveUp(t))

-----------------------------------------------------------------------------
(* Properties.                                                             *)

TypeOK ==
  /\ session \in 1..Sessions
  /\ phase \in Phases
  /\ enableHttp \in BOOLEAN
  /\ fields \subseteq {"container", "bootstrapper", "worker", "clients"}
  /\ listening \subseteq 1..Sessions /\ polling \subseteq 1..Sessions
  /\ toDelete \subseteq models
  /\ models \subseteq {Tests[t].model : t \in T}
  /\ rows \union passed \union rejected \union abandoned \subseteq T
  /\ instance \in [T -> States]
  /\ waiting \union done \subseteq AllTasks
  /\ test \in [T -> Places]
  /\ tries \in [T -> 0..MaxTries]
  /\ taken \in [T -> SUBSET AllTasks]
  /\ awaited \in [T -> SUBSET T]

\* Something went wrong with a test, which may have left tasks behind.
Wrong(t) == test[t] = "failed" \/ t \in abandoned \union rejected

\* With this test, or with an earlier one of its correlation.
Disturbed(t) == \E u \in T : u <= t /\ SameCorrelation(t, u) /\ Wrong(u)

\* A session that was torn down leaves no row behind of any test before it, its
\* own or of a file whose own tear-down failed, except by tests that went wrong
\* (clearDatabases; the comment at process_instance_handler.ts, lines 267 to
\* 270: a test must not end before its process instance).
TornDownIsClean ==
  phase = "torn down" => \A t \in rows : Disturbed(t)

\* However far the start came, and whatever tear-down failed at, the port is
\* free and no worker polls when the next file begins: otherwise one failed
\* file would fail all that follow (tearDown: the server, then the worker).
NothingKeepsRunning ==
  phase \in Ended \union {"idle"} => listening = {} /\ polling = {}

\* When the wait for its tasks returns, all tasks of the test's own instance
\* wait, and none but these is finished later, although the queries see every
\* instance of the correlation (waitForProcessInstanceToReachSuspendedTask,
\* expectedNumberOfWaitingTasks; getWaitingUserTasksForCorrelationId).
FoundIsOwn ==
  \A t \in T : ~Disturbed(t) =>
    /\ test[t] = "found" => TasksOf(t) \subseteq waiting
    /\ taken[t] \subseteq TasksOf(t)

\* Mocha had given up on the test, or an earlier one of its correlation went
\* wrong.
Overtaken(t) ==
  t \in abandoned \/ \E u \in T : u < t /\ SameCorrelation(t, u) /\ Wrong(u)

\* The assertions of the tests and of the helper, one waiting task and this one,
\* fail, and the engine refuses a request, only where the start was rejected, a
\* wait ran out, the instance failed, or the test was overtaken
\* (finishUserTaskInCorrelation, waitForProcessInstanceToReachSuspendedTask).
FailsForAReason ==
  \A t \in T : test[t] = "failed" \/ t \in rejected =>
    \/ instance[t] \in {"none", "failed"}
    \/ tries[t] = MaxTries
    \/ Overtaken(t)

\* A test whose helper was rejected, which nobody is told of, does not pass all
\* the same by the end it has subscribed to, unless it was overtaken: it runs
\* into mocha's timeout (finishUserTaskInCorrelation inside a promise that never
\* rejects, test/1_process_engine_core/user_task_tests.js, lines 87 to 91).
RejectionNeverHidden ==
  \A t \in rejected \intersect passed : Overtaken(t)

\* mocha gets to the end of its files, whatever fails and whatever the engine
\* does, unless a post-migration ends the process.
EverySessionEnds == <>Exited

=============================================================================

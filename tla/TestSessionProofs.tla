------------------------- MODULE TestSessionProofs -------------------------
(***************************************************************************)
(* For any test files and any number of retries: the types, that nothing   *)
(* keeps running after a file, that a file that was torn down leaves no    *)
(* row of an undisturbed test, that the tasks a test waits for and         *)
(* finishes are those of its own instance, that tests fail only for a      *)
(* reason, and that a test whose request was rejected does not pass.       *)
(***************************************************************************)
EXTENDS TestSession, FiniteSetTheorems, TLAPS

(* What surrounds the types: where the tests of each kind can be.          *)
PlaceInv ==
  \A t \in T :
    /\ test[t] # "failed" => tries[t] < MaxTries
    /\ test[t] \in {"polling", "found", "subscribed", "asserted"} =>
         Tests[t].kind # "end"
    /\ taken[t] # {} => Tests[t].kind # "end"
    /\ taken[t] # {} \/ awaited[t] # {} \/ t \in passed =>
         test[t] \in {"subscribed", "asserted", "listening", "failed"}
    /\ t \in rejected => test[t] = "listening" \/ t \in abandoned

(* The server and the worker: only those of the session, and the fixture   *)
(* has what it needs to stop them.                                         *)
Served == {"worker", "routes", "clients", "import", "tests", "close http"}
Polled == {"routes", "clients", "import", "tests", "close http", "stop worker"}

ServicesInv ==
  /\ phase \in {"start", "worker", "routes", "clients", "import", "tests"} =>
       "container" \in fields
  /\ listening # {} =>
       /\ listening = {session}
       /\ enableHttp
       /\ phase \in Served
       /\ "container" \in fields
  /\ polling # {} =>
       /\ polling = {session}
       /\ enableHttp
       /\ phase \in Polled
       /\ "worker" \in fields
       /\ phase # "stop worker" => listening = {session}
  /\ phase = "worker" /\ enableHttp => listening = {session}

(* The tests of a file run one after the other, while it runs.             *)
OrderInv ==
  /\ \A t \in T : instance[t] # "none" \/ t \in abandoned => test[t] # "not run"
  /\ \A t \in T : test[t] # "not run" /\ ~Settled(t) =>
       phase = "tests" /\ Tests[t].session = session
  /\ \A t, u \in T :
       u < t /\ Tests[u].session = Tests[t].session /\ test[t] # "not run" =>
         Settled(u)

(* What a test holds on to belongs to its correlation, and it passes by the *)
(* end of its own instance unless it was disturbed.                        *)
PassedInv ==
  /\ \A t \in T : /\ \A u \in awaited[t] : SameCorrelation(t, u)
                  /\ \A x \in taken[t] : SameCorrelation(t, x[1])
  /\ \A t \in passed : ~Disturbed(t) => instance[t] = "published"

(* A row of an undisturbed test can still be found by its process model.   *)
RowsInv ==
  /\ phase = "tests" => ModelsOf(session) \subseteq models
  /\ \A t \in rows : ~Disturbed(t) =>
       /\ Tests[t].model \in models
       /\ phase = "delete models" => Tests[t].model \in toDelete
       /\ phase \notin {"stop bootstrapper", "torn down"}

(* Tasks wait in instances that run, until they are finished.              *)
WaitInv ==
  /\ \A x \in waiting : instance[x[1]] = "running"
  /\ waiting \intersect done = {}

(* How far an undisturbed test has come with its own tasks.                *)
OwnTasks(t) ==
  /\ test[t] = "found" => TasksOf(t) \subseteq waiting
  /\ taken[t] \subseteq TasksOf(t)
  /\ instance[t] # "failed" => taken[t] \subseteq waiting
  /\ test[t] = "subscribed" /\ Tests[t].kind = "helper" => taken[t] = TasksOf(t)

TakenInv == \A t \in T : ~Disturbed(t) => OwnTasks(t)

(* Why a request was rejected, and that it then stays in vain.             *)
RejectedInv ==
  \A t \in rejected : ~Overtaken(t) => instance[t] = "failed" /\ t \notin passed

Typed == TypeOK /\ PlaceInv

-----------------------------------------------------------------------------
\* The tests have the numbers from 1 on.
LEMMA TestsAreNumbered ==
  /\ T \subseteq Nat
  /\ Sessions \in Nat /\ MaxTries \in Nat \ {0}
  /\ \A t \in T :
       /\ Tests[t].session \in 1..Sessions
       /\ Tests[t].kind \in Kinds
       /\ Tests[t].tasks \in Nat
       /\ Tests[t].kind = "helper" => Tests[t].tasks = 1
       /\ Tests[t].kind = "direct" => Tests[t].tasks # 0
       /\ \A u \in T : SameCorrelation(t, u) => Tests[t].session = Tests[u].session
<1>1. Tests \in Seq(Range(Tests))
  BY TestSessionAssumption
<1>2. T = 1..Len(Tests) /\ Len(Tests) \in Nat
  BY <1>1 DEF T
<1> QED
  BY <1>2, TestSessionAssumption

\* A task belongs to the instance of one test.
LEMMA TasksHaveTests ==
  /\ \A t \in T : \A x \in TasksOf(t) : x[1] = t
  /\ \A t \in T : TasksOf(t) \subseteq AllTasks
  /\ \A x \in AllTasks : x[1] \in T /\ x \in TasksOf(x[1])
BY DEF TasksOf, AllTasks

\* It has as many tasks as the test expects.
LEMMA NumberOfTasks ==
  ASSUME NEW t \in T
  PROVE  IsFiniteSet(TasksOf(t)) /\ Cardinality(TasksOf(t)) = Tests[t].tasks
<1> DEFINE n == Tests[t].tasks
<1>1. n \in Nat
  BY TestsAreNumbered
<1>2. IsFiniteSet({t}) /\ Cardinality({t}) = 1
  BY FS_Singleton
<1>3. IsFiniteSet(1..n) /\ Cardinality(1..n) = n
  <2>1. 1 \in Int /\ n \in Int
    BY <1>1
  <2>2. \A i, j \in Int : /\ IsFiniteSet(i..j)
                          /\ Cardinality(i..j) = IF i > j THEN 0 ELSE j - i + 1
    BY FS_Interval
  <2>3. IsFiniteSet(1..n) /\ Cardinality(1..n) = IF 1 > n THEN 0 ELSE n - 1 + 1
    BY <2>1, <2>2
  <2> QED
    BY <1>1, <2>3
<1>4. \A S, W : IsFiniteSet(S) /\ IsFiniteSet(W)
        => IsFiniteSet(S \X W) /\ Cardinality(S \X W) = Cardinality(S) * Cardinality(W)
  BY FS_Product, Zenon
<1>5. IsFiniteSet({t} \X (1..n)) /\ Cardinality({t} \X (1..n)) = Cardinality({t}) * Cardinality(1..n)
  BY <1>2, <1>3, <1>4, Zenon
<1>6. Cardinality({t} \X (1..n)) = 1 * n
  BY <1>2, <1>3, <1>5, Zenon
<1> QED
  BY <1>1, <1>5, <1>6 DEF TasksOf

\* The fixture leaves the engine and the tests alone, until the next file.
LEMMA FixtureAlone ==
  Fixture =>
    /\ UNCHANGED <<instance, waiting, done, tries, passed, rejected, abandoned>>
    /\ rows' \subseteq rows
    /\ \/ UNCHANGED <<test, taken, awaited>>
       \/ /\ test' = [t \in T |-> IF t \in abandoned THEN "failed" ELSE test[t]]
          /\ taken' = [t \in T |-> {}]
          /\ awaited' = [t \in T |-> {}]
BY DEF Fixture, fixture, services, database, engine, tests, initializeAndStart,
   runMigrations, runPostMigrations, initializeBootstrapper, startBootstrapper,
   resolveWorker, configureGlobalRoutes, resolveClients, importProcessFiles,
   BeforeHookFails, AfterTests, closeHttp, stopWorker, getProcessModels,
   deleteProcessModel, deleteFails, clearLogsAndMetrics, stopBootstrapper, NextSession

\* So nothing that counts for a test changes, unless mocha has given up on it.
LEMMA FixtureKeeps ==
  ASSUME TypeOK, Fixture, NEW t \in T
  PROVE  /\ test'[t] # test[t] => t \in abandoned /\ test'[t] = "failed"
         /\ taken'[t] \in {taken[t], {}}
         /\ awaited'[t] \in {awaited[t], {}}
         /\ Settled(t)' = Settled(t)
         /\ Wrong(t)' = Wrong(t)
BY FixtureAlone DEF TypeOK, Settled, Wrong

\* A step of a test or of the engine leaves the fixture alone.
LEMMA OthersAlone ==
  \A t \in T : Test(t) \/ GiveUp(t) \/ Engine(t) =>
    UNCHANGED <<session, phase, enableHttp, fields, listening, polling, models,
                toDelete>>
BY DEF Test, Engine, fixture, services, database, tests, startProcessInstance,
   querySuspended, ListUserTasks, subscribeOnce, assertWaitingUserTask,
   finishUserTask, GiveUp, ReachTask, processExternalTask, EndInstance, PublishEnd,
   FailInstance

-----------------------------------------------------------------------------
\* Every step keeps what may run in each phase.
LEMMA ServicesHold == ServicesInv /\ [Next]_vars => ServicesInv'
<1> SUFFICES ASSUME ServicesInv, [Next]_vars PROVE ServicesInv'
  OBVIOUS
<1> USE DEF ServicesInv, Served, Polled, Starting, FirstOfTearDown, Ended
<1>1. ASSUME initializeAndStart PROVE ServicesInv'
  BY <1>1 DEF initializeAndStart, services
<1>2. ASSUME runMigrations PROVE ServicesInv'
  BY <1>2 DEF runMigrations, services
<1>3. ASSUME runPostMigrations PROVE ServicesInv'
  BY <1>3 DEF runPostMigrations, services
<1>4. ASSUME initializeBootstrapper PROVE ServicesInv'
  BY <1>4 DEF initializeBootstrapper, services
<1>5. ASSUME startBootstrapper PROVE ServicesInv'
  BY <1>5 DEF startBootstrapper, services
<1>6. ASSUME resolveWorker PROVE ServicesInv'
  BY <1>6 DEF resolveWorker, services
<1>7. ASSUME configureGlobalRoutes PROVE ServicesInv'
  BY <1>7 DEF configureGlobalRoutes, services
<1>8. ASSUME resolveClients PROVE ServicesInv'
  BY <1>8 DEF resolveClients, services
<1>9. ASSUME importProcessFiles PROVE ServicesInv'
  BY <1>9 DEF importProcessFiles, services
<1>10. ASSUME BeforeHookFails PROVE ServicesInv'
  BY <1>10 DEF BeforeHookFails, services
<1>11. ASSUME AfterTests PROVE ServicesInv'
  BY <1>11 DEF AfterTests, services
<1>12. ASSUME closeHttp PROVE ServicesInv'
  BY <1>12 DEF closeHttp, services
<1>13. ASSUME stopWorker PROVE ServicesInv'
  BY <1>13 DEF stopWorker, services
<1>14. ASSUME getProcessModels PROVE ServicesInv'
  BY <1>14 DEF getProcessModels, services
<1>15. ASSUME NEW m \in toDelete, deleteProcessModel(m) PROVE ServicesInv'
  BY <1>15 DEF deleteProcessModel, services, fixture
<1>16. ASSUME deleteFails PROVE ServicesInv'
  BY <1>16 DEF deleteFails, services
<1>17. ASSUME clearLogsAndMetrics PROVE ServicesInv'
  BY <1>17 DEF clearLogsAndMetrics, services
<1>18. ASSUME stopBootstrapper PROVE ServicesInv'
  BY <1>18 DEF stopBootstrapper, services
<1>19. ASSUME NextSession PROVE ServicesInv'
  BY <1>19 DEF NextSession, services
<1>20. ASSUME NEW t \in T, Test(t) \/ GiveUp(t) \/ Engine(t) PROVE ServicesInv'
  BY <1>20, OthersAlone
<1>21. ASSUME UNCHANGED vars PROVE ServicesInv'
  BY <1>21 DEF vars, fixture, services
<1> QED
  BY <1>1, <1>2, <1>3, <1>4, <1>5, <1>6, <1>7, <1>8, <1>9, <1>10,
     <1>11, <1>12, <1>13, <1>14, <1>15, <1>16, <1>17, <1>18, <1>19, <1>20, <1>21 DEF Next, Fixture

-----------------------------------------------------------------------------
\* A step of a test leaves the other tests alone, and what it goes through can
\* be gone through once.
LEMMA TestSteps ==
  ASSUME TypeOK, NEW p \in T, Test(p) \/ GiveUp(p)
  PROVE  /\ \A t \in T \ {p} : /\ test'[t] = test[t] /\ tries'[t] = tries[t]
                               /\ taken'[t] = taken[t] /\ awaited'[t] = awaited[t]
                               /\ instance'[t] = instance[t]
         /\ passed' = passed
         /\ abandoned' \in {abandoned, abandoned \union {p}}
         /\ rejected' \in {rejected, rejected \union {p}}
         /\ test[p] = "failed" => test'[p] = "failed"
         /\ test'[p] # "not run"
         /\ test[p] # "not run" => instance'[p] = instance[p]
<1> USE DEF TypeOK, Test, engine, database
<1>1. CASE startProcessInstance(p)
  BY <1>1 DEF startProcessInstance
<1>2. CASE querySuspended(p)
  BY <1>2 DEF querySuspended
<1>3. CASE ListUserTasks(p)
  BY <1>3 DEF ListUserTasks
<1>4. CASE subscribeOnce(p)
  BY <1>4 DEF subscribeOnce
<1>5. CASE assertWaitingUserTask(p)
  BY <1>5 DEF assertWaitingUserTask, Rejected
<1>6. CASE finishUserTask(p)
  BY <1>6 DEF finishUserTask, Finish, Requests, Rejected
<1>7. CASE GiveUp(p)
  BY <1>7 DEF GiveUp
<1> QED
  BY <1>1, <1>2, <1>3, <1>4, <1>5, <1>6, <1>7

\* The engine moves one instance on, and only the publication of its end is
\* noticed by tests.
LEMMA EngineSteps ==
  ASSUME TypeOK, NEW p \in T, Engine(p)
  PROVE  /\ UNCHANGED <<test, tries, taken, rejected, abandoned>>
         /\ passed \subseteq passed'
         /\ \A t \in T : awaited'[t] \in {awaited[t], {}}
         /\ \A t \in T \ {p} : instance'[t] = instance[t]
         /\ instance'[p] # instance[p] => instance[p] \in {"running", "ended"}
         /\ instance'[p] # "none" => instance[p] # "none"
<1> USE DEF TypeOK, Engine, engine, tests, Finish
<1>1. CASE ReachTask(p)
  BY <1>1 DEF ReachTask
<1>2. CASE processExternalTask(p)
  BY <1>2 DEF processExternalTask
<1>3. CASE EndInstance(p)
  BY <1>3 DEF EndInstance
<1>4. CASE PublishEnd(p)
  BY <1>4 DEF PublishEnd, database
<1>5. CASE FailInstance(p)
  BY <1>5 DEF FailInstance
<1> QED
  BY <1>1, <1>2, <1>3, <1>4, <1>5

\* What went wrong stays wrong, and what is settled stays settled.
LEMMA Lasting ==
  TypeOK /\ [Next]_vars =>
    \A t \in T : /\ Settled(t) => Settled(t)'
                 /\ Wrong(t) => Wrong(t)'
                 /\ Disturbed(t) => Disturbed(t)'
                 /\ Overtaken(t) => Overtaken(t)'
<1> SUFFICES ASSUME TypeOK, [Next]_vars
             PROVE  /\ abandoned \subseteq abandoned'
                    /\ passed \subseteq passed'
                    /\ rejected \subseteq rejected'
                    /\ \A t \in T : test[t] = "failed" => test'[t] = "failed"
  BY DEF Settled, Wrong, Disturbed, Overtaken
<1>1. CASE Fixture
  BY <1>1, FixtureAlone, FixtureKeeps
<1>2. ASSUME NEW p \in T, Test(p) \/ GiveUp(p)
      PROVE  /\ abandoned \subseteq abandoned'
             /\ passed \subseteq passed'
             /\ rejected \subseteq rejected'
             /\ \A t \in T : test[t] = "failed" => test'[t] = "failed"
  BY <1>2, TestSteps
<1>3. ASSUME NEW p \in T, Engine(p)
      PROVE  /\ abandoned \subseteq abandoned'
             /\ passed \subseteq passed'
             /\ rejected \subseteq rejected'
             /\ \A t \in T : test[t] = "failed" => test'[t] = "failed"
  BY <1>3, EngineSteps
<1>4. CASE UNCHANGED vars
  BY <1>4 DEF vars, tests
<1> QED
  BY <1>1, <1>2, <1>3, <1>4 DEF Next

\* What is wrong with an earlier test of the correlation is wrong with this one.
LEMMA EarlierUndisturbed ==
  ASSUME NEW t \in T, ~Overtaken(t), NEW u \in T, u < t, SameCorrelation(t, u)
  PROVE  ~Disturbed(u) /\ test[u] # "failed" /\ u \notin abandoned
<1>1. ASSUME NEW v \in T, v <= u, SameCorrelation(u, v), Wrong(v) PROVE FALSE
  <2>1. v < t
    BY <1>1, TestsAreNumbered
  <2>2. SameCorrelation(t, v)
    BY <1>1 DEF SameCorrelation
  <2> QED
    BY <1>1, <2>1, <2>2 DEF Overtaken
<1>2. u <= u /\ SameCorrelation(u, u)
  BY TestsAreNumbered DEF SameCorrelation
<1> QED
  BY <1>1, <1>2 DEF Disturbed, Wrong

\* A test that nothing disturbed has not failed, nor has mocha given up on it.
LEMMA NotItself ==
  ASSUME NEW t \in T
  PROVE  ~Disturbed(t) <=> ~Overtaken(t) /\ ~Wrong(t)
<1>1. \A u \in T : u <= t <=> (u < t \/ u = t)
  BY TestsAreNumbered
<1>2. SameCorrelation(t, t)
  BY DEF SameCorrelation
<1> QED
  BY <1>1, <1>2 DEF Disturbed, Overtaken, Wrong

\* Only AfterTests leads on from the tests.
LEMMA TestsEnd ==
  Fixture /\ phase = "tests" => \A t \in TestsOf(session) : Settled(t)
BY DEF Fixture, initializeAndStart, runMigrations, runPostMigrations,
   initializeBootstrapper, startBootstrapper, resolveWorker, configureGlobalRoutes,
   resolveClients, importProcessFiles, BeforeHookFails, Starting, AfterTests, closeHttp,
   stopWorker, getProcessModels, deleteProcessModel, deleteFails, clearLogsAndMetrics,
   stopBootstrapper, NextSession, Ended

-----------------------------------------------------------------------------
\* Every step keeps the order of the files and their tests.
LEMMA OrderHolds == TypeOK /\ OrderInv /\ [Next]_vars => OrderInv'
<1> SUFFICES ASSUME TypeOK, OrderInv, [Next]_vars PROVE OrderInv'
  OBVIOUS
<1>1. \A t \in T : Settled(t) => Settled(t)'
  BY Lasting
<1>2. CASE Fixture
  <2>1. UNCHANGED <<instance, abandoned>>
    BY <1>2, FixtureAlone
  <2>2. \A t \in T : Settled(t)' = Settled(t)
    BY <1>2, FixtureKeeps
  <2>3. \A t \in T : test'[t] # "not run" <=> test[t] # "not run"
    BY <1>2, FixtureKeeps DEF OrderInv
  <2>4. \A t \in T : test[t] # "not run" => Settled(t)
    <3>1. ASSUME NEW t \in T, test[t] # "not run", ~Settled(t) PROVE FALSE
      BY <1>2, <3>1, TestsEnd DEF OrderInv, TestsOf
    <3> QED
      BY <3>1
  <2> QED
    BY <2>1, <2>2, <2>3, <2>4 DEF OrderInv
<1>3. ASSUME NEW p \in T, startProcessInstance(p) PROVE OrderInv'
  <2>1. /\ phase = "tests" /\ Tests[p].session = session
        /\ UNCHANGED <<phase, session, passed, abandoned>>
    BY <1>3 DEF startProcessInstance, fixture
  <2>2. \A u \in TestsOf(session) : u < p => Settled(u)
    BY <1>3 DEF startProcessInstance
  <2>3. /\ \A t \in T \ {p} : test'[t] = test[t] /\ instance'[t] = instance[t]
        /\ test'[p] # "not run"
    BY <1>3, TestSteps DEF Test
  <2>4. \A t \in T \ {p} : Settled(t)' = Settled(t)
    BY <2>1, <2>3 DEF Settled
  <2>5. \A t, u \in T :
          u < t /\ Tests[u].session = Tests[t].session /\ test'[t] # "not run" =>
            Settled(u)'
    <3> SUFFICES ASSUME NEW t \in T, NEW u \in T, u < t,
                        Tests[u].session = Tests[t].session, test'[t] # "not run"
                 PROVE  Settled(u)'
      OBVIOUS
    <3>1. Settled(u)
      <4>1. CASE t = p
        BY <2>1, <2>2, <4>1 DEF TestsOf
      <4>2. CASE t # p
        BY <2>3, <4>2 DEF OrderInv
      <4> QED
        BY <4>1, <4>2
    <3> QED
      BY <1>1, <3>1
  <2> QED
    BY <2>1, <2>3, <2>4, <2>5 DEF OrderInv
<1>4. ASSUME UNCHANGED <<phase, session>>,
             \A t \in T : /\ test'[t] # "not run" <=> test[t] # "not run"
                          /\ instance'[t] # "none" => instance[t] # "none"
                          /\ t \in abandoned' => t \in abandoned \/ test[t] # "not run"
      PROVE  OrderInv'
  BY <1>1, <1>4 DEF OrderInv
<1>5. ASSUME NEW p \in T, GiveUp(p) PROVE OrderInv'
  BY <1>4, <1>5, OthersAlone DEF GiveUp, engine
<1>6. ASSUME NEW p \in T, Test(p), ~startProcessInstance(p) PROVE OrderInv'
  <2>1. test[p] # "not run" /\ abandoned' = abandoned
    BY <1>6 DEF Test, querySuspended, ListUserTasks, subscribeOnce,
       assertWaitingUserTask, finishUserTask, Requests
  <2> QED
    BY <1>4, <1>6, <2>1, TestSteps, OthersAlone
<1>7. ASSUME NEW p \in T, Engine(p) PROVE OrderInv'
  BY <1>4, <1>7, EngineSteps, OthersAlone
<1>8. CASE UNCHANGED vars
  BY <1>8 DEF vars, fixture, engine, tests, OrderInv, Settled
<1> QED
  BY <1>2, <1>3, <1>5, <1>6, <1>7, <1>8 DEF Next

\* While a test of its correlation is not settled, an instance of another test
\* has not begun, or was published.
LEMMA OthersAreDone ==
  ASSUME TypeOK, OrderInv, PassedInv, NEW t \in T, test[t] # "not run",
         ~Settled(t), ~Overtaken(t), NEW u \in T, u # t, SameCorrelation(t, u)
  PROVE  instance[u] \in {"none", "published"}
<1>1. Tests[u].session = Tests[t].session
  BY TestsAreNumbered
<1>2. CASE u < t
  <2>1. Settled(u)
    BY <1>1, <1>2 DEF OrderInv
  <2>2. u \in passed /\ ~Disturbed(u)
    BY <1>2, <2>1, EarlierUndisturbed DEF Settled
  <2> QED
    BY <2>2 DEF PassedInv
<1>3. CASE t < u
  <2>1. test[u] = "not run"
    BY <1>1, <1>3 DEF OrderInv
  <2> QED
    BY <2>1 DEF OrderInv
<1>4. u < t \/ t < u
  <2>1. u \in Nat /\ t \in Nat
    BY TestsAreNumbered
  <2> QED
    BY ONLY <2>1, u # t
<1> QED
  BY <1>2, <1>3, <1>4

-----------------------------------------------------------------------------
\* What a test takes and awaits comes from its correlation.
LEMMA CorrelationKept ==
  ASSUME TypeOK, PassedInv, [Next]_vars, NEW t \in T
  PROVE  /\ \A u \in awaited'[t] : SameCorrelation(t, u)
         /\ \A x \in taken'[t] : SameCorrelation(t, x[1])
<1>1. ASSUME awaited'[t] \in {awaited[t], {}}, taken'[t] \subseteq taken[t]
      PROVE  /\ \A u \in awaited'[t] : SameCorrelation(t, u)
             /\ \A x \in taken'[t] : SameCorrelation(t, x[1])
  BY <1>1 DEF PassedInv
<1>2. CASE Fixture
  BY <1>1, <1>2, FixtureKeeps
<1>3. ASSUME NEW p \in T, Test(p) \/ GiveUp(p), p # t
      PROVE  awaited'[t] = awaited[t] /\ taken'[t] = taken[t]
  BY <1>3, TestSteps
<1>4. ASSUME NEW p \in T, Engine(p) PROVE awaited'[t] \in {awaited[t], {}} /\ taken' = taken
  BY <1>4, EngineSteps
<1>5. CASE ListUserTasks(t)
  <2>1. CASE taken' = taken /\ awaited' = awaited
    BY <1>1, <2>1
  <2>2. CASE /\ taken' = [taken EXCEPT ![t] = WaitingUserTasks(t)]
             /\ \E x \in WaitingUserTasks(t) : awaited' = [awaited EXCEPT ![t] = {x[1]}]
    <3>1. taken'[t] = WaitingUserTasks(t)
      BY <2>2 DEF TypeOK
    <3>2. PICK x \in WaitingUserTasks(t) : awaited' = [awaited EXCEPT ![t] = {x[1]}]
      BY <2>2
    <3>3. awaited'[t] = {x[1]}
      BY <3>2 DEF TypeOK
    <3> QED
      BY <3>1, <3>3 DEF WaitingUserTasks
  <2> QED
    BY <1>5, <2>1, <2>2 DEF ListUserTasks
<1>6. CASE subscribeOnce(t)
  <2>1. taken' = taken
    BY <1>6 DEF subscribeOnce
  <2>2. awaited'[t] = {u \in T : SameCorrelation(t, u) /\ Tests[u].model = Tests[t].model}
    BY <1>6 DEF subscribeOnce, TypeOK
  <2> QED
    BY <2>1, <2>2 DEF PassedInv
<1>7. CASE assertWaitingUserTask(t) \/ finishUserTask(t)
  BY <1>1, <1>7 DEF assertWaitingUserTask, finishUserTask, Rejected, TypeOK
<1>8. CASE startProcessInstance(t) \/ querySuspended(t) \/ GiveUp(t)
  BY <1>1, <1>8 DEF startProcessInstance, querySuspended, GiveUp
<1>9. CASE UNCHANGED vars
  BY <1>1, <1>9 DEF vars, tests
<1>10. ASSUME NEW p \in T, Test(p) \/ GiveUp(p) \/ Engine(p)
       PROVE  /\ \A u \in awaited'[t] : SameCorrelation(t, u)
              /\ \A x \in taken'[t] : SameCorrelation(t, x[1])
  BY <1>1, <1>3, <1>4, <1>5, <1>6, <1>7, <1>8, <1>10 DEF Test
<1> QED
  BY <1>2, <1>9, <1>10 DEF Next

\* An instance that was published stays so.
LEMMA StaysPublished ==
  ASSUME TypeOK, OrderInv, [Next]_vars, NEW t \in T,
         instance[t] \in {"published", "failed"}
  PROVE  instance'[t] = instance[t]
<1>1. test[t] # "not run"
  BY DEF OrderInv
<1>2. CASE Fixture
  BY <1>2, FixtureAlone
<1>3. ASSUME NEW p \in T, Test(p) \/ GiveUp(p) PROVE instance'[t] = instance[t]
  BY <1>1, <1>3, TestSteps
<1>4. ASSUME NEW p \in T, Engine(p) PROVE instance'[t] = instance[t]
  BY <1>4, EngineSteps
<1>5. CASE UNCHANGED vars
  BY <1>5 DEF vars, engine
<1> QED
  BY <1>2, <1>3, <1>4, <1>5 DEF Next

\* Only a test that listens passes, and only by the end of an instance.
LEMMA Passes ==
  ASSUME TypeOK, [Next]_vars, NEW t \in T, t \in passed', t \notin passed
  PROVE  \E p \in awaited[t] : /\ instance[p] = "ended" /\ t \notin abandoned
                               /\ instance'[p] = "published"
<1>1. CASE Fixture
  BY <1>1, FixtureAlone
<1>2. ASSUME NEW p \in T, Test(p) \/ GiveUp(p) PROVE FALSE
  BY <1>2, TestSteps
<1>3. ASSUME NEW p \in T, Engine(p), ~PublishEnd(p) PROVE FALSE
  BY <1>3 DEF Engine, ReachTask, processExternalTask, EndInstance, FailInstance, tests
<1>4. ASSUME NEW p \in T, PublishEnd(p)
      PROVE  p \in awaited[t] /\ instance[p] = "ended" /\ t \notin abandoned
             /\ instance'[p] = "published"
  BY <1>4 DEF PublishEnd, TypeOK
<1>5. CASE UNCHANGED vars
  BY <1>5 DEF vars, tests
<1> QED
  BY <1>1, <1>2, <1>3, <1>4, <1>5 DEF Next

\* Only the end of its own instance makes an undisturbed test pass.
LEMMA PassedHolds ==
  TypeOK /\ PlaceInv /\ OrderInv /\ PassedInv /\ [Next]_vars => PassedInv'
<1> SUFFICES ASSUME TypeOK, PlaceInv, OrderInv, PassedInv, [Next]_vars
             PROVE  PassedInv'
  OBVIOUS
<1>1. ASSUME NEW t \in T, t \in passed', ~Disturbed(t)' PROVE instance'[t] = "published"
  <2>1. ~Disturbed(t)
    BY <1>1, Lasting
  <2>2. CASE t \in passed
    BY <2>1, <2>2, StaysPublished DEF PassedInv
  <2>3. CASE t \notin passed
    <3>1. PICK p \in awaited[t] : /\ instance[p] = "ended" /\ t \notin abandoned
                                  /\ instance'[p] = "published"
      BY <1>1, <2>3, Passes
    <3>2. p \in T /\ SameCorrelation(t, p) /\ test[t] # "not run"
      BY <3>1 DEF TypeOK, PassedInv, PlaceInv
    <3>3. ~Overtaken(t) /\ ~Settled(t)
      BY <2>1, <2>3, NotItself DEF Settled, Wrong
    <3>4. p = t
      BY <3>1, <3>2, <3>3, OthersAreDone
    <3> QED
      BY <3>1, <3>4
  <2> QED
    BY <2>2, <2>3
<1>2. passed' \subseteq T
  <2>1. ASSUME NEW t \in passed', t \notin T PROVE FALSE
    <3>1. CASE Fixture
      BY <2>1, <3>1, FixtureAlone DEF TypeOK
    <3>2. ASSUME NEW p \in T, Test(p) \/ GiveUp(p) PROVE FALSE
      BY <2>1, <3>2, TestSteps DEF TypeOK
    <3>3. ASSUME NEW p \in T, Engine(p) PROVE FALSE
      BY <2>1, <3>3 DEF Engine, ReachTask, processExternalTask, EndInstance,
         PublishEnd, FailInstance, tests, TypeOK
    <3>4. CASE UNCHANGED vars
      BY <2>1, <3>4 DEF vars, tests, TypeOK
    <3> QED
      BY <3>1, <3>2, <3>3, <3>4 DEF Next
  <2> QED
    BY <2>1
<1> QED
  BY <1>1, <1>2, CorrelationKept DEF PassedInv

-----------------------------------------------------------------------------
\* A task waits only in an instance that runs.
LEMMA WaitHolds == TypeOK /\ OrderInv /\ WaitInv /\ [Next]_vars => WaitInv'
<1> SUFFICES ASSUME TypeOK, OrderInv, WaitInv, [Next]_vars PROVE WaitInv'
  OBVIOUS
<1>0. \A x \in waiting : x[1] \in T /\ x \in TasksOf(x[1]) /\ instance[x[1]] = "running"
  BY TasksHaveTests DEF TypeOK, WaitInv
<1>1. CASE Fixture
  BY <1>1, FixtureAlone DEF WaitInv
<1>2. ASSUME UNCHANGED <<waiting, done>>,
             \A t \in T : instance[t] = "running" => instance'[t] = "running"
      PROVE  WaitInv'
  BY <1>0, <1>2 DEF WaitInv
<1>3. ASSUME NEW p \in T, startProcessInstance(p) PROVE WaitInv'
  BY <1>2, <1>3 DEF startProcessInstance, TypeOK
<1>4. ASSUME NEW p \in T, NEW x \in waiting, Finish(p, x), instance' = instance
      PROVE  WaitInv'
  BY <1>4 DEF Finish, WaitInv
<1>5. ASSUME NEW p \in T, finishUserTask(p) PROVE WaitInv'
  <2>1. PICK x \in taken[p] : Finish(p, x) \/ UNCHANGED <<waiting, done>>
    BY <1>5 DEF finishUserTask
  <2>2. instance' = instance
    BY <1>5 DEF finishUserTask
  <2> QED
    BY <1>2, <1>4, <2>1, <2>2 DEF Finish
<1>6. ASSUME NEW p \in T, Test(p) \/ GiveUp(p), ~startProcessInstance(p), ~finishUserTask(p)
      PROVE  WaitInv'
  BY <1>2, <1>6 DEF Test, querySuspended, ListUserTasks, subscribeOnce,
     assertWaitingUserTask, GiveUp, engine
<1>7. ASSUME NEW p \in T, ReachTask(p) PROVE WaitInv'
  <2>1. PICK x \in TasksOf(p) \ (waiting \union done) : waiting' = waiting \union {x}
    BY <1>7 DEF ReachTask
  <2>2. x[1] = p /\ instance[p] = "running" /\ UNCHANGED <<done, instance>>
    BY <1>7, <2>1, TasksHaveTests DEF ReachTask
  <2> QED
    BY <2>1, <2>2 DEF WaitInv
<1>8. ASSUME NEW p \in T, processExternalTask(p) PROVE WaitInv'
  BY <1>4, <1>8 DEF processExternalTask, Finish
<1>9. ASSUME NEW p \in T, EndInstance(p) PROVE WaitInv'
  <2>1. /\ TasksOf(p) \subseteq done /\ UNCHANGED <<waiting, done>>
        /\ \A t \in T \ {p} : instance'[t] = instance[t]
    BY <1>9 DEF EndInstance, TypeOK
  <2>2. \A x \in waiting : x[1] # p
    BY <1>0, <2>1 DEF WaitInv
  <2> QED
    BY <1>0, <2>1, <2>2 DEF WaitInv
<1>10. ASSUME NEW p \in T, PublishEnd(p) PROVE WaitInv'
  BY <1>2, <1>10 DEF PublishEnd, TypeOK
<1>11. ASSUME NEW p \in T, FailInstance(p) PROVE WaitInv'
  <2>1. /\ waiting' = waiting \ TasksOf(p) /\ done' = done
        /\ \A t \in T \ {p} : instance'[t] = instance[t]
    BY <1>11 DEF FailInstance, TypeOK
  <2>2. \A x \in waiting' : x[1] # p
    BY <1>0, <2>1
  <2> QED
    BY <1>0, <2>1, <2>2 DEF WaitInv
<1>12. CASE UNCHANGED vars
  BY <1>2, <1>12 DEF vars, engine
<1> QED
  BY <1>1, <1>3, <1>5, <1>6, <1>7, <1>8, <1>9, <1>10, <1>11, <1>12 DEF Next, Engine

-----------------------------------------------------------------------------
\* While an undisturbed test is not settled, no task waits in its correlation
\* but its own.
LEMMA OnlyItsOwnWait ==
  ASSUME TypeOK, OrderInv, PassedInv, WaitInv, NEW t \in T, ~Disturbed(t),
         t \notin passed, test[t] # "not run",
         NEW x \in waiting, SameCorrelation(t, x[1])
  PROVE  x \in TasksOf(t)
<1>1. x[1] \in T /\ x \in TasksOf(x[1]) /\ instance[x[1]] = "running"
  BY TasksHaveTests DEF TypeOK, WaitInv
<1>2. ~Overtaken(t) /\ ~Settled(t)
  BY NotItself DEF Settled, Wrong
<1>3. x[1] = t
  BY <1>1, <1>2, OthersAreDone
<1> QED
  BY <1>1, <1>3

\* An undisturbed test that still has tasks to finish has not passed.
LEMMA WorksBeforePassing ==
  ASSUME TypeOK, PassedInv, WaitInv, TakenInv, NEW t \in T, ~Disturbed(t),
         taken[t] # {}
  PROVE  t \notin passed
<1>1. PICK x \in TasksOf(t) : instance[t] # "failed" => x \in waiting
  BY DEF TakenInv, OwnTasks
<1>2. x[1] = t
  BY TasksHaveTests
<1>3. instance[t] # "published"
  BY <1>1, <1>2 DEF WaitInv
<1> QED
  BY <1>3 DEF PassedInv

\* The wait of an undisturbed test returns with all its tasks.
LEMMA FindsItsOwn ==
  ASSUME TypeOK, OrderInv, PassedInv, WaitInv, NEW t \in T, ~Disturbed(t),
         t \notin passed, test[t] # "not run",
         Cardinality(Found(t)) >= Tests[t].tasks
  PROVE  TasksOf(t) \subseteq waiting
<1>1. Found(t) \subseteq TasksOf(t) /\ Found(t) \subseteq waiting
  BY OnlyItsOwnWait DEF Found
<1>2. IsFiniteSet(TasksOf(t)) /\ Cardinality(TasksOf(t)) = Tests[t].tasks
  BY NumberOfTasks
<1>3. /\ IsFiniteSet(Found(t))
      /\ Cardinality(Found(t)) <= Cardinality(TasksOf(t))
      /\ Cardinality(TasksOf(t)) = Cardinality(Found(t)) => TasksOf(t) = Found(t)
  BY <1>1, <1>2, FS_Subset
<1>4. Cardinality(Found(t)) \in Nat /\ Tests[t].tasks \in Nat
  BY <1>3, FS_CardinalityType, TestsAreNumbered
<1>5. Cardinality(Found(t)) = Cardinality(TasksOf(t))
  BY ONLY <1>2, <1>3, <1>4, Cardinality(Found(t)) >= Tests[t].tasks
<1> QED
  BY <1>1, <1>3, <1>5

\* And so does its list of user tasks.
LEMMA ListsItsOwn ==
  ASSUME TypeOK, OrderInv, PassedInv, WaitInv, NEW t \in T, ~Disturbed(t),
         t \notin passed, test[t] # "not run", Tests[t].kind # "end",
         TasksOf(t) \subseteq waiting
  PROVE  WaitingUserTasks(t) = TasksOf(t)
<1>1. WaitingUserTasks(t) \subseteq TasksOf(t)
  BY OnlyItsOwnWait DEF WaitingUserTasks
<1>2. Tests[t].kind \in {"helper", "direct"} /\ SameCorrelation(t, t)
  BY TestsAreNumbered DEF Kinds, SameCorrelation
<1>3. TasksOf(t) \subseteq WaitingUserTasks(t)
  BY <1>2, TasksHaveTests DEF WaitingUserTasks
<1> QED
  BY <1>1, <1>3

\* A test of the helper has one task.
LEMMA HelperHasOne ==
  ASSUME NEW t \in T, Tests[t].kind = "helper" PROVE TasksOf(t) = {<<t, 1>>}
<1>1. Tests[t].tasks = 1
  BY TestsAreNumbered
<1> QED
  BY <1>1 DEF TasksOf

\* Only its own requests make a test a rejected one.
LEMMA RejectsItself ==
  ASSUME TypeOK, [Next]_vars, NEW t \in T, t \in rejected', t \notin rejected
  PROVE  assertWaitingUserTask(t) \/ finishUserTask(t)
<1>1. CASE Fixture
  BY <1>1, FixtureAlone
<1>2. ASSUME NEW p \in T, Test(p) \/ GiveUp(p), p # t PROVE FALSE
  <2>1. rejected' \in {rejected, rejected \union {p}}
    BY <1>2, TestSteps
  <2> QED
    BY <1>2, <2>1
<1>3. ASSUME NEW p \in T, Engine(p) PROVE FALSE
  BY <1>3, EngineSteps
<1>4. CASE UNCHANGED vars
  BY <1>4 DEF vars, tests
<1>5. CASE startProcessInstance(t) \/ querySuspended(t) \/ ListUserTasks(t)
           \/ subscribeOnce(t) \/ GiveUp(t)
  BY <1>5 DEF startProcessInstance, querySuspended, ListUserTasks, subscribeOnce, GiveUp
<1> QED
  BY <1>1, <1>2, <1>3, <1>4, <1>5 DEF Next, Test

\* A request of an undisturbed test is only rejected if its instance has failed.
LEMMA RejectedByFailure ==
  ASSUME TypeOK, PlaceInv, OrderInv, PassedInv, WaitInv, TakenInv, [Next]_vars,
         NEW t \in T, ~Disturbed(t), t \in rejected'
  PROVE  instance[t] = "failed"
<1>0. t \notin rejected
  BY NotItself DEF Wrong
<1>1. assertWaitingUserTask(t) \/ finishUserTask(t)
  BY <1>0, RejectsItself
<1>2. CASE finishUserTask(t)
  <2>1. \E x \in taken[t] : x \notin waiting
    BY <1>0, <1>2 DEF finishUserTask, Finish
  <2> QED
    BY <2>1 DEF TakenInv, OwnTasks
<1>3. CASE assertWaitingUserTask(t)
  <2>1. /\ test[t] = "subscribed" /\ Tests[t].kind = "helper"
        /\ \A x \in taken[t] : WaitingUserTasks(t) # {x}
    BY <1>0, <1>3 DEF assertWaitingUserTask
  <2>2. taken[t] = TasksOf(t) /\ TasksOf(t) = {<<t, 1>>}
    BY <2>1, HelperHasOne DEF TakenInv, OwnTasks
  <2>3. SUFFICES ASSUME instance[t] # "failed" PROVE FALSE
    OBVIOUS
  <2>4. TasksOf(t) \subseteq waiting
    BY <2>2, <2>3 DEF TakenInv, OwnTasks
  <2>5. t \notin passed
    BY <2>2, WorksBeforePassing
  <2>6. WaitingUserTasks(t) = TasksOf(t)
    BY <2>1, <2>4, <2>5, ListsItsOwn
  <2> QED
    BY <2>1, <2>2, <2>6
<1> QED
  BY <1>1, <1>2, <1>3

\* What any other actor does leaves the tasks of an undisturbed test alone.
LEMMA OthersFinishTheirs ==
  ASSUME TypeOK, PlaceInv, OrderInv, PassedInv, WaitInv, TakenInv,
         NEW t \in T, ~Disturbed(t), NEW q \in T, q # t, finishUserTask(q)
  PROVE  \A x \in TasksOf(t) : x \in waiting => x \in waiting'
<1> SUFFICES ASSUME NEW x \in TasksOf(t), x \in waiting, x \notin waiting' PROVE FALSE
  OBVIOUS
<1>1. x \in taken[q]
  BY DEF finishUserTask, Finish
<1>2. x[1] = t /\ instance[t] = "running"
  BY TasksHaveTests DEF WaitInv
<1>3. SameCorrelation(q, t) /\ SameCorrelation(t, q)
  BY <1>1, <1>2 DEF PassedInv, SameCorrelation
<1>4. test[q] # "not run" /\ Tests[q].session = Tests[t].session
  BY <1>1, <1>3, TestsAreNumbered DEF PlaceInv
<1>5. CASE q < t
  <2>1. ~Disturbed(q)
    BY <1>3, <1>5, NotItself, EarlierUndisturbed
  <2>2. x \in TasksOf(q)
    BY <1>1, <2>1 DEF TakenInv, OwnTasks
  <2> QED
    BY <1>2, <2>2, TasksHaveTests
<1>6. CASE t < q
  <2>1. Settled(t)
    BY <1>4, <1>6 DEF OrderInv
  <2>2. t \in passed
    BY <2>1, NotItself DEF Settled, Wrong
  <2> QED
    BY <1>2, <2>2 DEF PassedInv
<1> QED
  BY <1>5, <1>6, TestsAreNumbered


-----------------------------------------------------------------------------
\* A test that waits for tasks has some.
LEMMA HasTasks ==
  ASSUME NEW t \in T, Tests[t].kind # "end" PROVE TasksOf(t) # {}
<1>1. Tests[t].tasks \in Nat /\ Tests[t].tasks # 0
  BY TestsAreNumbered DEF Kinds
<1>2. <<t, 1>> \in TasksOf(t)
  BY <1>1 DEF TasksOf
<1> QED
  BY <1>2

\* The fixture does not move on while an undisturbed test has tasks to finish.
LEMMA FixtureWaits ==
  ASSUME TypeOK, PlaceInv, OrderInv, PassedInv, WaitInv, TakenInv, Fixture,
         NEW t \in T, ~Disturbed(t), taken[t] # {}
  PROVE  FALSE
<1>1. ~Settled(t)
  BY NotItself, WorksBeforePassing DEF Settled, Wrong
<1>2. test[t] # "not run"
  BY DEF PlaceInv
<1>3. phase = "tests" /\ t \in TestsOf(session)
  BY <1>1, <1>2 DEF OrderInv, TestsOf
<1> QED
  BY <1>1, <1>3, TestsEnd

\* Every step keeps what an undisturbed test has found and taken.
LEMMA TakenHolds ==
  TypeOK /\ PlaceInv /\ OrderInv /\ PassedInv /\ WaitInv /\ TakenInv /\ [Next]_vars
    => TakenInv'
<1> SUFFICES ASSUME TypeOK, PlaceInv, OrderInv, PassedInv, WaitInv, TakenInv,
                    [Next]_vars, NEW t \in T, ~Disturbed(t)'
             PROVE  OwnTasks(t)'
  BY DEF TakenInv
<1>0. ~Disturbed(t) /\ OwnTasks(t)
  BY Lasting DEF TakenInv
<1>1. t \notin rejected' /\ t \notin abandoned
  <2>1. t <= t /\ SameCorrelation(t, t)
    BY TestsAreNumbered DEF SameCorrelation
  <2>2. ~Wrong(t)'
    BY <2>1 DEF Disturbed
  <2> QED
    BY <1>0, <2>2, NotItself DEF Wrong
<1>2. ASSUME test'[t] = test[t], taken'[t] = taken[t],
             instance'[t] # "failed" => instance[t] # "failed",
             TasksOf(t) \intersect waiting \subseteq waiting'
      PROVE  OwnTasks(t)'
  BY <1>0, <1>2 DEF OwnTasks
<1>3. CASE Fixture
  <2>1. /\ test'[t] = test[t] /\ taken'[t] \in {taken[t], {}}
        /\ UNCHANGED <<instance, waiting>>
    BY <1>1, <1>3, FixtureKeeps, FixtureAlone
  <2>2. taken[t] = {}
    BY <1>0, <1>3, FixtureWaits
  <2> QED
    BY <1>2, <2>1, <2>2
<1>4. ASSUME NEW p \in T, p # t, Test(p) \/ GiveUp(p) PROVE OwnTasks(t)'
  <2>1. test'[t] = test[t] /\ taken'[t] = taken[t] /\ instance'[t] = instance[t]
    BY <1>4, TestSteps
  <2>2. CASE finishUserTask(p)
    <3>1. TasksOf(t) \intersect waiting \subseteq waiting'
      BY <1>0, <1>4, <2>2, OthersFinishTheirs
    <3> QED
      BY <1>2, <2>1, <3>1
  <2>3. CASE ~finishUserTask(p)
    <3>1. waiting' = waiting
      BY <1>4, <2>3 DEF Test, GiveUp, startProcessInstance, querySuspended,
         ListUserTasks, subscribeOnce, assertWaitingUserTask, engine
    <3> QED
      BY <1>2, <2>1, <3>1
  <2> QED
    BY <2>2, <2>3
<1>5. CASE startProcessInstance(t)
  <2>1. /\ test'[t] \in {"started", "polling", "failed"}
        /\ taken' = taken /\ taken[t] = {}
    BY <1>5 DEF startProcessInstance, PlaceInv, TypeOK
  <2> QED
    BY <2>1 DEF OwnTasks
<1>6. CASE querySuspended(t)
  <2>1. /\ taken' = taken /\ waiting' = waiting /\ taken[t] = {}
        /\ test'[t] \in {"found", "polling", "failed"}
        /\ test[t] = "polling" /\ t \notin passed
    BY <1>6 DEF querySuspended, PlaceInv, TypeOK, engine
  <2>2. ASSUME test'[t] = "found" PROVE TasksOf(t) \subseteq waiting
    <3>1. Cardinality(Found(t)) >= Tests[t].tasks
      BY <1>6, <2>2 DEF querySuspended, TypeOK
    <3> QED
      BY <1>0, <2>1, <3>1, FindsItsOwn
  <2> QED
    BY <2>1, <2>2 DEF OwnTasks
<1>7. CASE ListUserTasks(t)
  <2>1. /\ test[t] = "found" /\ t \notin passed /\ Tests[t].kind # "end"
        /\ taken[t] = {} /\ waiting' = waiting
    BY <1>7 DEF ListUserTasks, PlaceInv, engine
  <2>2. TasksOf(t) \subseteq waiting
    BY <1>0, <2>1 DEF OwnTasks
  <2>3. WaitingUserTasks(t) = TasksOf(t)
    BY <1>0, <2>1, <2>2, ListsItsOwn
  <2>4. /\ taken'[t] \in {taken[t], TasksOf(t)}
        /\ \/ test'[t] = "subscribed" /\ taken'[t] = TasksOf(t)
           \/ test'[t] = "failed"
    BY <1>7, <2>3 DEF ListUserTasks, TypeOK
  <2> QED
    BY <2>1, <2>2, <2>4 DEF OwnTasks
<1>8. CASE subscribeOnce(t)
  <2>1. test'[t] = "listening" /\ taken' = taken /\ taken[t] = {}
    BY <1>8 DEF subscribeOnce, PlaceInv, TypeOK
  <2> QED
    BY <2>1 DEF OwnTasks
<1>9. CASE assertWaitingUserTask(t)
  <2>1. test'[t] = "asserted" /\ UNCHANGED <<taken, waiting, instance>>
    BY <1>1, <1>9 DEF assertWaitingUserTask, Rejected, TypeOK, engine
  <2> QED
    BY <1>0, <2>1 DEF OwnTasks
<1>10. CASE finishUserTask(t)
  <2>1. PICK x \in taken[t] :
          /\ waiting' = waiting \ {x}
          /\ taken' = [taken EXCEPT ![t] = @ \ {x}]
          /\ test' = [test EXCEPT ![t] = IF taken[t] = {x} THEN "listening" ELSE @]
    BY <1>1, <1>10 DEF finishUserTask, Finish, Rejected
  <2>2. test[t] = (IF Tests[t].kind = "helper" THEN "asserted" ELSE "subscribed")
        /\ instance' = instance
    BY <1>10 DEF finishUserTask, Requests
  <2>3. taken'[t] = taken[t] \ {x} /\ test'[t] \in {"listening", test[t]}
    BY <2>1 DEF TypeOK
  <2> QED
    BY <1>0, <2>1, <2>2, <2>3 DEF OwnTasks
<1>11. CASE GiveUp(t)
  BY <1>2, <1>11 DEF GiveUp, engine
<1>12. ASSUME NEW p \in T, Engine(p), ~processExternalTask(p), ~FailInstance(p)
       PROVE  OwnTasks(t)'
  <2>1. UNCHANGED <<test, taken>>
    BY <1>12, EngineSteps
  <2>2. /\ waiting \subseteq waiting'
        /\ instance'[t] # "failed" => instance[t] # "failed"
    BY <1>12 DEF Engine, ReachTask, EndInstance, PublishEnd, TypeOK
  <2> QED
    BY <1>2, <2>1, <2>2
<1>13. ASSUME NEW p \in T, processExternalTask(p) PROVE OwnTasks(t)'
  <2>1. UNCHANGED <<test, taken, instance>> /\ Tests[p].kind = "end"
    BY <1>13 DEF processExternalTask
  <2>2. PICK x \in TasksOf(p) : waiting' = waiting \ {x}
    BY <1>13 DEF processExternalTask, Finish
  <2>3. CASE p # t
    <3>1. x \notin TasksOf(t)
      BY <2>2, <2>3, TasksHaveTests
    <3> QED
      BY <1>2, <2>1, <2>2, <3>1
  <2>4. CASE p = t
    BY <2>1, <2>4 DEF PlaceInv, OwnTasks
  <2> QED
    BY <2>3, <2>4
<1>14. ASSUME NEW p \in T, FailInstance(p) PROVE OwnTasks(t)'
  <2>1. /\ UNCHANGED <<test, taken>> /\ waiting' = waiting \ TasksOf(p)
        /\ instance' = [instance EXCEPT ![p] = "failed"]
    BY <1>14 DEF FailInstance, tests
  <2>2. CASE p # t
    <3>1. TasksOf(t) \intersect waiting \subseteq waiting'
      BY <2>1, <2>2, TasksHaveTests
    <3> QED
      BY <1>2, <2>1, <2>2, <3>1 DEF TypeOK
  <2>3. CASE p = t
    <3>1. instance'[t] = "failed"
      BY <2>1, <2>3 DEF TypeOK
    <3>2. test[t] # "found"
      BY <1>0, <1>14, <2>3, HasTasks DEF FailInstance, OwnTasks, PlaceInv
    <3> QED
      BY <1>0, <2>1, <3>1, <3>2 DEF OwnTasks
  <2> QED
    BY <2>2, <2>3
<1>15. CASE UNCHANGED vars
  BY <1>2, <1>15 DEF vars, engine, tests
<1>16. ASSUME NEW p \in T, Test(p) \/ GiveUp(p) \/ Engine(p) PROVE OwnTasks(t)'
  BY <1>4, <1>5, <1>6, <1>7, <1>8, <1>9, <1>10, <1>11, <1>12, <1>13, <1>14, <1>16
     DEF Test
<1> QED
  BY <1>3, <1>15, <1>16 DEF Next

-----------------------------------------------------------------------------
\* A rejected test that nothing overtook does not pass afterwards.
LEMMA RejectedHolds ==
  TypeOK /\ PlaceInv /\ OrderInv /\ PassedInv /\ WaitInv /\ TakenInv /\ RejectedInv
    /\ [Next]_vars => RejectedInv'
<1> SUFFICES ASSUME TypeOK, PlaceInv, OrderInv, PassedInv, WaitInv, TakenInv,
                    RejectedInv, [Next]_vars, NEW t \in rejected', ~Overtaken(t)'
             PROVE  instance'[t] = "failed" /\ t \notin passed'
  BY DEF RejectedInv
<1>1. CASE t \in rejected
  <2>1. t \in T /\ ~Overtaken(t)
    BY <1>1, Lasting DEF TypeOK
  <2>2. instance[t] = "failed" /\ t \notin passed /\ test[t] = "listening"
    BY <1>1, <2>1 DEF RejectedInv, PlaceInv, Overtaken
  <2>3. ~Settled(t)
    BY <2>1, <2>2 DEF Settled, Overtaken
  <2>4. ASSUME t \in passed' PROVE FALSE
    <3>1. PICK p \in awaited[t] : instance[p] = "ended"
      BY <2>1, <2>2, <2>4, Passes
    <3>2. p \in T /\ SameCorrelation(t, p) /\ p # t
      BY <2>1, <2>2, <3>1 DEF TypeOK, PassedInv
    <3> QED
      BY <2>1, <2>2, <2>3, <3>1, <3>2, OthersAreDone
  <2> QED
    BY <2>1, <2>2, <2>4, StaysPublished
<1>2. CASE t \notin rejected
  <2>1. PICK p \in T : Test(p) /\ rejected' \in {rejected, rejected \union {p}}
    <3>1. CASE Fixture \/ UNCHANGED vars
      BY <1>2, <3>1, FixtureAlone DEF vars, tests
    <3>2. ASSUME NEW p \in T, Engine(p) \/ GiveUp(p) PROVE FALSE
      BY <1>2, <3>2, EngineSteps DEF GiveUp
    <3> QED
      BY <3>1, <3>2, TestSteps DEF Next
  <2>2. p = t /\ t \in T
    BY <1>2, <2>1
  <2>3. test[t] \in {"subscribed", "asserted"}
    BY <1>2, <2>2, RejectsItself DEF assertWaitingUserTask, finishUserTask, Requests
  <2>4. ~Overtaken(t)
    BY <2>2, Lasting
  <2>5. ~Disturbed(t)
    BY <1>2, <2>2, <2>3, <2>4, NotItself DEF Wrong, Overtaken
  <2>6. instance[t] = "failed"
    BY <2>2, <2>5, RejectedByFailure
  <2>7. t \notin passed /\ passed' = passed
    BY <2>1, <2>2, <2>5, <2>6, TestSteps DEF PassedInv
  <2> QED
    BY <2>2, <2>6, <2>7, StaysPublished
<1> QED
  BY <1>1, <1>2

\* A test that has failed does nothing more, and its instance does not begin.
LEMMA FailedStays ==
  ASSUME TypeOK, OrderInv, [Next]_vars, NEW t \in T, test[t] = "failed"
  PROVE  /\ tries'[t] = tries[t]
         /\ instance[t] \in {"none", "failed"} => instance'[t] = instance[t]
<1>1. CASE Fixture
  BY <1>1, FixtureAlone
<1>2. ASSUME NEW p \in T, p # t, Test(p) \/ GiveUp(p)
      PROVE  tries'[t] = tries[t] /\ instance'[t] = instance[t]
  BY <1>2, TestSteps
<1>3. ~Test(t) /\ ~GiveUp(t)
  BY DEF Test, GiveUp, Settled, startProcessInstance, querySuspended, ListUserTasks,
     subscribeOnce, assertWaitingUserTask, finishUserTask, Requests
<1>4. ASSUME NEW p \in T, Engine(p)
      PROVE  /\ tries'[t] = tries[t]
             /\ instance[t] \in {"none", "failed"} => instance'[t] = instance[t]
  BY <1>4, EngineSteps
<1>5. CASE UNCHANGED vars
  BY <1>5 DEF vars, tests, engine
<1> QED
  BY <1>1, <1>2, <1>3, <1>4, <1>5 DEF Next

\* Only a rejected start, the last query and an assertion make a test fail.
LEMMA FailsHold ==
  TypeOK /\ PlaceInv /\ OrderInv /\ PassedInv /\ WaitInv /\ TakenInv
    /\ FailsForAReason /\ [Next]_vars /\ RejectedInv' => FailsForAReason'
<1> SUFFICES ASSUME TypeOK, PlaceInv, OrderInv, PassedInv, WaitInv, TakenInv,
                    FailsForAReason, [Next]_vars, RejectedInv',
                    NEW t \in T, test'[t] = "failed", ~Overtaken(t)'
             PROVE  instance'[t] \in {"none", "failed"} \/ tries'[t] = MaxTries
  BY DEF FailsForAReason, RejectedInv
<1>1. ~Overtaken(t)
  BY Lasting
<1>2. CASE test[t] = "failed"
  BY <1>1, <1>2, FailedStays DEF FailsForAReason
<1> SUFFICES ASSUME test[t] # "failed"
             PROVE  instance'[t] \in {"none", "failed"} \/ tries'[t] = MaxTries
  BY <1>2
<1>3. Test(t)
  <2>1. CASE Fixture
    BY <1>1, <2>1, FixtureKeeps DEF Overtaken
  <2>2. ASSUME NEW p \in T, p # t, Test(p) \/ GiveUp(p) PROVE FALSE
    BY <2>2, TestSteps
  <2>3. ASSUME NEW p \in T, Engine(p) PROVE FALSE
    BY <2>3, EngineSteps
  <2>4. CASE GiveUp(t) \/ UNCHANGED vars
    BY <2>4 DEF GiveUp, vars, tests
  <2> QED
    BY <2>1, <2>2, <2>3, <2>4 DEF Next
<1>4. CASE startProcessInstance(t)
  <2>1. instance' = instance /\ test[t] = "not run"
    BY <1>4 DEF startProcessInstance, TypeOK
  <2> QED
    BY <2>1 DEF OrderInv
<1>5. CASE querySuspended(t)
  <2>1. /\ tries'[t] = tries[t] + 1 /\ ~(tries[t] + 1 < MaxTries)
        /\ tries[t] \in 0..MaxTries
    BY <1>5 DEF querySuspended, TypeOK
  <2>2. tries[t] < MaxTries /\ MaxTries \in Nat
    BY TestsAreNumbered DEF PlaceInv
  <2> QED
    BY ONLY <2>1, <2>2
<1>6. CASE ListUserTasks(t)
  <2>1. /\ test[t] = "found" /\ t \notin passed /\ Tests[t].kind # "end"
        /\ t \notin rejected
    BY <1>1, <1>6 DEF ListUserTasks, PlaceInv, Overtaken
  <2>2. ~Disturbed(t)
    BY <1>1, <2>1, NotItself DEF Wrong, Overtaken
  <2>3. WaitingUserTasks(t) = TasksOf(t)
    BY <2>1, <2>2, ListsItsOwn DEF TakenInv, OwnTasks
  <2>4. Cardinality(WaitingUserTasks(t)) = Tests[t].tasks
    BY <2>3, NumberOfTasks
  <2> QED
    BY <1>6, <2>4 DEF ListUserTasks, TypeOK
<1>7. CASE subscribeOnce(t) \/ assertWaitingUserTask(t)
  BY <1>7 DEF subscribeOnce, assertWaitingUserTask, Rejected, TypeOK
<1>8. CASE finishUserTask(t)
  BY <1>8 DEF finishUserTask, Finish, Rejected, TypeOK
<1> QED
  BY <1>3, <1>4, <1>5, <1>6, <1>7, <1>8 DEF Test

-----------------------------------------------------------------------------
\* An instance of an undisturbed test that has not ended belongs to the tests
\* that run.
LEMMA NotEnded ==
  ASSUME TypeOK, OrderInv, PassedInv, RowsInv,
         NEW t \in T, ~Disturbed(t), instance[t] \notin {"none", "published"}
  PROVE  phase = "tests" /\ Tests[t].model \in models
<1>1. test[t] # "not run"
  BY DEF OrderInv
<1>2. ~Settled(t)
  BY NotItself DEF Settled, Wrong, PassedInv
<1>3. phase = "tests" /\ Tests[t].session = session
  BY <1>1, <1>2 DEF OrderInv
<1> QED
  BY <1>3 DEF RowsInv, ModelsOf, TestsOf

\* Every step keeps whose rows can be there.
LEMMA RowsHold ==
  TypeOK /\ OrderInv /\ PassedInv /\ WaitInv /\ RowsInv /\ [Next]_vars => RowsInv'
<1> SUFFICES ASSUME TypeOK, OrderInv, PassedInv, WaitInv, RowsInv, [Next]_vars
             PROVE  RowsInv'
  OBVIOUS
<1>0. \A t \in T : ~Disturbed(t)' => ~Disturbed(t)
  BY Lasting
<1> USE <1>0 DEF RowsInv, TypeOK, database, services, fixture, Starting, FirstOfTearDown,
        Ended
<1>1. ASSUME initializeAndStart PROVE RowsInv'
  BY <1>1 DEF initializeAndStart
<1>2. ASSUME runMigrations PROVE RowsInv'
  BY <1>2 DEF runMigrations
<1>3. ASSUME runPostMigrations PROVE RowsInv'
  BY <1>3 DEF runPostMigrations
<1>4. ASSUME initializeBootstrapper PROVE RowsInv'
  BY <1>4 DEF initializeBootstrapper
<1>5. ASSUME startBootstrapper PROVE RowsInv'
  BY <1>5 DEF startBootstrapper
<1>6. ASSUME resolveWorker PROVE RowsInv'
  BY <1>6 DEF resolveWorker
<1>7. ASSUME configureGlobalRoutes PROVE RowsInv'
  BY <1>7 DEF configureGlobalRoutes
<1>8. ASSUME resolveClients PROVE RowsInv'
  BY <1>8 DEF resolveClients
<1>9. ASSUME importProcessFiles PROVE RowsInv'
  BY <1>9 DEF importProcessFiles
<1>10. ASSUME BeforeHookFails PROVE RowsInv'
  BY <1>10 DEF BeforeHookFails
<1>11. ASSUME AfterTests PROVE RowsInv'
  BY <1>11 DEF AfterTests
<1>12. ASSUME closeHttp PROVE RowsInv'
  BY <1>12 DEF closeHttp
<1>13. ASSUME stopWorker PROVE RowsInv'
  BY <1>13 DEF stopWorker
<1>14. ASSUME getProcessModels PROVE RowsInv'
  BY <1>14 DEF getProcessModels
<1>15. ASSUME NEW m \in toDelete, deleteProcessModel(m) PROVE RowsInv'
  BY <1>15 DEF deleteProcessModel
<1>16. ASSUME deleteFails PROVE RowsInv'
  BY <1>16 DEF deleteFails
<1>17. ASSUME clearLogsAndMetrics PROVE RowsInv'
  BY <1>17 DEF clearLogsAndMetrics
<1>18. ASSUME stopBootstrapper PROVE RowsInv'
  BY <1>18 DEF stopBootstrapper
<1>19. ASSUME NextSession PROVE RowsInv'
  BY <1>19 DEF NextSession
<1>20. ASSUME NEW p \in T, startProcessInstance(p) PROVE RowsInv'
  <2>1. p \in TestsOf(session) /\ phase = "tests" /\ rows' \subseteq rows \union {p}
    BY <1>20 DEF startProcessInstance, TestsOf
  <2>2. Tests[p].model \in models
    BY <2>1 DEF ModelsOf
  <2>3. UNCHANGED <<session, phase, models, toDelete>>
    BY <1>20 DEF startProcessInstance
  <2> QED
    BY <2>1, <2>2, <2>3 DEF ModelsOf, TestsOf
<1>21. ASSUME NEW p \in T, NEW u \in T, instance[u] \notin {"none", "published"},
              rows' = rows \union {u}, Test(p) \/ Engine(p)
       PROVE  RowsInv'
  <2>1. ~Disturbed(u) => phase = "tests" /\ Tests[u].model \in models
    BY <1>21, NotEnded
  <2>2. UNCHANGED <<session, phase, models, toDelete>>
    BY <1>21, OthersAlone
  <2> QED
    BY <1>21, <2>1, <2>2 DEF ModelsOf, TestsOf
<1>22. ASSUME NEW p \in T, finishUserTask(p) \/ processExternalTask(p), rows' # rows
       PROVE  RowsInv'
  <2>1. PICK x \in waiting : rows' = rows \union {x[1]}
    BY <1>22 DEF finishUserTask, processExternalTask, Finish
  <2>2. x[1] \in T /\ instance[x[1]] = "running"
    BY TasksHaveTests DEF WaitInv
  <2> QED
    BY <1>21, <1>22, <2>1, <2>2 DEF Test, Engine
<1>23. ASSUME NEW p \in T, ReachTask(p) \/ EndInstance(p) \/ FailInstance(p)
       PROVE  RowsInv'
  <2>1. instance[p] \notin {"none", "published"} /\ rows' = rows \union {p}
    BY <1>23 DEF ReachTask, EndInstance, FailInstance
  <2> QED
    BY <1>21, <1>23, <2>1 DEF Engine
<1>24. ASSUME NEW p \in T, Test(p) \/ GiveUp(p) \/ Engine(p), rows' = rows
       PROVE  RowsInv'
  <2>1. UNCHANGED <<session, phase, models, toDelete>>
    BY <1>24, OthersAlone
  <2> QED
    BY <1>24, <2>1 DEF ModelsOf, TestsOf
<1>25. ASSUME NEW p \in T, Test(p) \/ GiveUp(p) \/ Engine(p) PROVE RowsInv'
  <2>1. CASE \/ querySuspended(p) \/ ListUserTasks(p) \/ subscribeOnce(p)
             \/ assertWaitingUserTask(p) \/ GiveUp(p) \/ PublishEnd(p)
    BY <1>24, <1>25, <2>1 DEF querySuspended, ListUserTasks, subscribeOnce,
       assertWaitingUserTask, GiveUp, PublishEnd
  <2> QED
    BY <1>20, <1>22, <1>23, <1>24, <1>25, <2>1 DEF Test, Engine
<1>26. CASE UNCHANGED vars
  BY <1>26 DEF vars, ModelsOf, TestsOf
<1> QED
  BY <1>1, <1>2, <1>3, <1>4, <1>5, <1>6, <1>7, <1>8, <1>9, <1>10,
     <1>11, <1>12, <1>13, <1>14, <1>15, <1>16, <1>17, <1>18, <1>19, <1>25, <1>26
     DEF Next, Fixture

-----------------------------------------------------------------------------
(* The types of what the fixture changes, and of the rest.                 *)
FixtureOK ==
  /\ session \in 1..Sessions
  /\ phase \in Phases
  /\ enableHttp \in BOOLEAN
  /\ fields \subseteq {"container", "bootstrapper", "worker", "clients"}
  /\ listening \subseteq 1..Sessions /\ polling \subseteq 1..Sessions
  /\ toDelete \subseteq models
  /\ models \subseteq {Tests[t].model : t \in T}

TestsOK ==
  /\ rows \union passed \union rejected \union abandoned \subseteq T
  /\ instance \in [T -> States]
  /\ waiting \union done \subseteq AllTasks
  /\ test \in [T -> Places]
  /\ tries \in [T -> 0..MaxTries]
  /\ taken \in [T -> SUBSET AllTasks]
  /\ awaited \in [T -> SUBSET T]

\* A file imports models of its tests.
LEMMA ModelsExist == \A s : ModelsOf(s) \subseteq {Tests[t].model : t \in T}
BY DEF ModelsOf, TestsOf

\* Every step of the fixture keeps its types.
LEMMA FixtureTypes == FixtureOK /\ [Next]_vars => FixtureOK'
<1> SUFFICES ASSUME FixtureOK, [Next]_vars PROVE FixtureOK'
  OBVIOUS
<1> USE DEF FixtureOK, database, services, fixture, Phases, Starting, Stopping,
        FirstOfTearDown, Ended
<1>1. ASSUME initializeAndStart PROVE FixtureOK'
  BY <1>1 DEF initializeAndStart
<1>2. ASSUME runMigrations PROVE FixtureOK'
  BY <1>2 DEF runMigrations
<1>3. ASSUME runPostMigrations PROVE FixtureOK'
  BY <1>3 DEF runPostMigrations
<1>4. ASSUME initializeBootstrapper PROVE FixtureOK'
  BY <1>4 DEF initializeBootstrapper
<1>5. ASSUME startBootstrapper PROVE FixtureOK'
  BY <1>5 DEF startBootstrapper
<1>6. ASSUME resolveWorker PROVE FixtureOK'
  BY <1>6 DEF resolveWorker
<1>7. ASSUME configureGlobalRoutes PROVE FixtureOK'
  BY <1>7 DEF configureGlobalRoutes
<1>8. ASSUME resolveClients PROVE FixtureOK'
  BY <1>8 DEF resolveClients
<1>9. ASSUME importProcessFiles PROVE FixtureOK'
  <2>1. models' \subseteq {Tests[t].model : t \in T}
    BY <1>9, ModelsExist DEF importProcessFiles
  <2> QED
    BY <1>9, <2>1 DEF importProcessFiles
<1>10. ASSUME BeforeHookFails PROVE FixtureOK'
  <2>1. models \subseteq models' /\ models' \subseteq models \union ModelsOf(session)
    BY <1>10 DEF BeforeHookFails
  <2>2. models' \subseteq {Tests[t].model : t \in T}
    BY <2>1, ModelsExist
  <2> QED
    BY <1>10, <2>1, <2>2 DEF BeforeHookFails
<1>11. ASSUME AfterTests PROVE FixtureOK'
  BY <1>11 DEF AfterTests
<1>12. ASSUME closeHttp PROVE FixtureOK'
  BY <1>12 DEF closeHttp
<1>13. ASSUME stopWorker PROVE FixtureOK'
  BY <1>13 DEF stopWorker
<1>14. ASSUME getProcessModels PROVE FixtureOK'
  BY <1>14 DEF getProcessModels
<1>15. ASSUME NEW m \in toDelete, deleteProcessModel(m) PROVE FixtureOK'
  BY <1>15 DEF deleteProcessModel
<1>16. ASSUME deleteFails PROVE FixtureOK'
  BY <1>16 DEF deleteFails
<1>17. ASSUME clearLogsAndMetrics PROVE FixtureOK'
  BY <1>17 DEF clearLogsAndMetrics
<1>18. ASSUME stopBootstrapper PROVE FixtureOK'
  BY <1>18 DEF stopBootstrapper
<1>19. ASSUME NextSession PROVE FixtureOK'
  <2>1. session' \in 1..Sessions
    <3>1. session' = session + 1 /\ session < Sessions /\ session \in 1..Sessions
      BY <1>19 DEF NextSession
    <3>2. Sessions \in Nat
      BY TestsAreNumbered
    <3> QED
      BY ONLY <3>1, <3>2
  <2> QED
    BY <1>19, <2>1 DEF NextSession
<1>20. ASSUME NEW p \in T, Test(p) \/ GiveUp(p) \/ Engine(p) PROVE FixtureOK'
  BY <1>20, OthersAlone
<1>21. CASE UNCHANGED vars
  BY <1>21 DEF vars
<1> QED
  BY <1>1, <1>2, <1>3, <1>4, <1>5, <1>6, <1>7, <1>8, <1>9, <1>10,
     <1>11, <1>12, <1>13, <1>14, <1>15, <1>16, <1>17, <1>18, <1>19, <1>20, <1>21
     DEF Next, Fixture

\* Every step keeps the types of the tests and of the engine.
LEMMA TestTypes == TestsOK /\ PlaceInv /\ [Next]_vars => TestsOK'
<1> SUFFICES ASSUME TestsOK, PlaceInv, [Next]_vars PROVE TestsOK'
  OBVIOUS
<1> USE DEF TestsOK, database, engine, tests, States, Places
<1>1. CASE Fixture
  BY <1>1, FixtureAlone
<1>2. ASSUME NEW p \in T, startProcessInstance(p) PROVE TestsOK'
  BY <1>2 DEF startProcessInstance
<1>3. ASSUME NEW p \in T, querySuspended(p) PROVE TestsOK'
  <2>1. tries[p] \in 0..MaxTries /\ tries[p] < MaxTries /\ MaxTries \in Nat
    BY <1>3, TestsAreNumbered DEF querySuspended, PlaceInv
  <2>2. tries[p] + 1 \in 0..MaxTries /\ 0 \in 0..MaxTries
    BY ONLY <2>1
  <2>3. tries' \in [T -> 0..MaxTries]
    BY <1>3, <2>2 DEF querySuspended
  <2> QED
    BY <1>3, <2>3 DEF querySuspended
<1>4. ASSUME NEW p \in T, ListUserTasks(p) PROVE TestsOK'
  <2>1. WaitingUserTasks(p) \subseteq AllTasks
    BY DEF WaitingUserTasks
  <2>2. \A x \in WaitingUserTasks(p) : x[1] \in T
    BY <2>1, TasksHaveTests
  <2>3. taken' \in [T -> SUBSET AllTasks]
    <3>1. taken' = taken \/ taken' = [taken EXCEPT ![p] = WaitingUserTasks(p)]
      BY <1>4 DEF ListUserTasks
    <3>2. taken \in [T -> SUBSET AllTasks]
      OBVIOUS
    <3>3. CASE taken' = taken
      BY ONLY <3>2, <3>3
    <3>4. CASE taken' = [taken EXCEPT ![p] = WaitingUserTasks(p)]
      BY ONLY <2>1, <3>2, <3>4
    <3> QED
      BY <3>1, <3>3, <3>4
  <2>4. awaited' \in [T -> SUBSET T]
    <3>1. \/ awaited' = awaited
          \/ \E x \in WaitingUserTasks(p) : awaited' = [awaited EXCEPT ![p] = {x[1]}]
      BY <1>4 DEF ListUserTasks
    <3>2. \A u \in T : [awaited EXCEPT ![p] = {u}] \in [T -> SUBSET T]
      OBVIOUS
    <3>3. CASE awaited' = awaited
      BY <3>3
    <3>4. ASSUME NEW x \in WaitingUserTasks(p), awaited' = [awaited EXCEPT ![p] = {x[1]}]
          PROVE  awaited' \in [T -> SUBSET T]
      BY ONLY <2>2, <3>2, <3>4
    <3> QED
      BY <3>1, <3>3, <3>4
  <2> QED
    BY <1>4, <2>3, <2>4 DEF ListUserTasks
<1>5. ASSUME NEW p \in T, subscribeOnce(p) PROVE TestsOK'
  BY <1>5 DEF subscribeOnce
<1>6. ASSUME NEW p \in T, assertWaitingUserTask(p) PROVE TestsOK'
  <2>1. test' \in [T -> Places]
    BY <1>6 DEF assertWaitingUserTask, Rejected
  <2>2. taken' \in [T -> SUBSET AllTasks]
    BY <1>6 DEF assertWaitingUserTask, Rejected
  <2>3. rejected' \subseteq T
    BY <1>6 DEF assertWaitingUserTask, Rejected
  <2> QED
    BY <1>6, <2>1, <2>2, <2>3 DEF assertWaitingUserTask
<1>7. ASSUME NEW p \in T, NEW x, Finish(p, x)
      PROVE  waiting' \union done' \subseteq AllTasks /\ rows' \subseteq T
  <2>1. x \in AllTasks
    BY <1>7 DEF Finish
  <2>2. x[1] \in T
    BY <2>1, TasksHaveTests
  <2>3. waiting' = waiting \ {x} /\ done' = done \union {x} /\ rows' = rows \union {x[1]}
    BY <1>7 DEF Finish
  <2> QED
    BY <2>1, <2>2, <2>3
<1>8. ASSUME NEW p \in T, finishUserTask(p) PROVE TestsOK'
  <2>1. waiting' \union done' \subseteq AllTasks /\ rows' \subseteq T
    BY <1>7, <1>8 DEF finishUserTask
  <2>2. PICK x \in taken[p] :
          \/ /\ taken' = [taken EXCEPT ![p] = @ \ {x}]
             /\ test' = [test EXCEPT ![p] = IF taken[p] = {x} THEN "listening" ELSE @]
             /\ rejected' = rejected
          \/ Rejected(p)
    BY <1>8 DEF finishUserTask, Finish
  <2>3. taken' \in [T -> SUBSET AllTasks]
    <3>1. \A S \in SUBSET AllTasks : [taken EXCEPT ![p] = S] \in [T -> SUBSET AllTasks]
      OBVIOUS
    <3>2. taken[p] \ {x} \subseteq AllTasks
      OBVIOUS
    <3>3. \/ taken' = [taken EXCEPT ![p] = taken[p] \ {x}]
          \/ taken' = [taken EXCEPT ![p] = {}]
      BY <2>2 DEF Rejected
    <3> QED
      BY ONLY <3>1, <3>2, <3>3
  <2>4. test' \in [T -> Places]
    BY <2>2 DEF Rejected
  <2>5. rejected' \subseteq T
    BY <2>2 DEF Rejected
  <2> QED
    BY <1>8, <2>1, <2>3, <2>4, <2>5 DEF finishUserTask
<1>9. ASSUME NEW p \in T, GiveUp(p) PROVE TestsOK'
  BY <1>9 DEF GiveUp
<1>10. ASSUME NEW p \in T, ReachTask(p) PROVE TestsOK'
  BY <1>10, TasksHaveTests DEF ReachTask
<1>11. ASSUME NEW p \in T, processExternalTask(p) PROVE TestsOK'
  <2>1. waiting' \union done' \subseteq AllTasks /\ rows' \subseteq T /\ rejected' = rejected
    BY <1>7, <1>11 DEF processExternalTask, Finish
  <2> QED
    BY <1>11, <2>1 DEF processExternalTask
<1>12. ASSUME NEW p \in T, EndInstance(p) PROVE TestsOK'
  BY <1>12 DEF EndInstance
<1>13. ASSUME NEW p \in T, PublishEnd(p) PROVE TestsOK'
  BY <1>13 DEF PublishEnd
<1>14. ASSUME NEW p \in T, FailInstance(p) PROVE TestsOK'
  BY <1>14 DEF FailInstance
<1>15. CASE UNCHANGED vars
  BY <1>15 DEF vars
<1> QED
  BY <1>1, <1>2, <1>3, <1>4, <1>5, <1>6, <1>8, <1>9, <1>10, <1>11, <1>12, <1>13, <1>14,
     <1>15 DEF Next, Test, Engine

\* Every step keeps where the tests are.
LEMMA PlacesHold == TypeOK /\ PlaceInv /\ OrderInv /\ [Next]_vars => PlaceInv'
<1> DEFINE At(t) ==
      /\ test[t] # "failed" => tries[t] < MaxTries
      /\ test[t] \in {"polling", "found", "subscribed", "asserted"} =>
           Tests[t].kind # "end"
      /\ taken[t] # {} => Tests[t].kind # "end"
      /\ taken[t] # {} \/ awaited[t] # {} \/ t \in passed =>
           test[t] \in {"subscribed", "asserted", "listening", "failed"}
      /\ t \in rejected => test[t] = "listening" \/ t \in abandoned
<1> SUFFICES ASSUME TypeOK, PlaceInv, OrderInv, [Next]_vars, NEW t \in T PROVE At(t)'
  BY DEF PlaceInv
<1>0. At(t)
  BY DEF PlaceInv
<1>1. CASE Fixture
  BY <1>0, <1>1, FixtureAlone, FixtureKeeps DEF TypeOK
<1>2. ASSUME NEW p \in T, p # t, Test(p) \/ GiveUp(p) PROVE At(t)'
  <2>1. /\ test'[t] = test[t] /\ tries'[t] = tries[t] /\ taken'[t] = taken[t]
        /\ awaited'[t] = awaited[t] /\ passed' = passed
        /\ rejected' \in {rejected, rejected \union {p}} /\ abandoned \subseteq abandoned'
    BY <1>2, TestSteps
  <2> QED
    BY <1>0, <1>2, <2>1
<1>3. CASE startProcessInstance(t)
  BY <1>0, <1>3, TestsAreNumbered DEF startProcessInstance, TypeOK
<1>4. CASE querySuspended(t)
  <2>1. /\ test[t] = "polling" /\ UNCHANGED <<taken, awaited, passed, rejected, abandoned>>
        /\ test'[t] \in {"found", "polling", "failed"}
    BY <1>4 DEF querySuspended, TypeOK
  <2>2. test'[t] # "failed" => tries'[t] < MaxTries
    BY <1>4, TestsAreNumbered DEF querySuspended, TypeOK
  <2> QED
    BY <1>0, <2>1, <2>2
<1>5. CASE ListUserTasks(t)
  <2>1. /\ test[t] = "found" /\ UNCHANGED <<tries, passed, rejected, abandoned>>
        /\ \/ test'[t] = "subscribed"
           \/ test'[t] = "failed" /\ UNCHANGED <<taken, awaited>>
    BY <1>5 DEF ListUserTasks, TypeOK
  <2> QED
    BY <1>0, <2>1
<1>6. CASE subscribeOnce(t)
  <2>1. /\ test[t] = "started" /\ UNCHANGED <<tries, taken, passed, rejected, abandoned>>
        /\ test'[t] = "listening"
    BY <1>6 DEF subscribeOnce, TypeOK
  <2> QED
    BY <1>0, <2>1
<1>7. CASE assertWaitingUserTask(t)
  <2>1. /\ test[t] = "subscribed" /\ UNCHANGED <<tries, awaited, passed, abandoned>>
        /\ \/ test'[t] = "asserted" /\ UNCHANGED <<taken, rejected>>
           \/ test'[t] = "listening" /\ taken'[t] = {}
    BY <1>7 DEF assertWaitingUserTask, Rejected, TypeOK
  <2> QED
    BY <1>0, <2>1
<1>8. CASE finishUserTask(t)
  <2>1. /\ test[t] \in {"subscribed", "asserted"}
        /\ UNCHANGED <<tries, awaited, passed, abandoned>>
    BY <1>8 DEF finishUserTask, Requests
  <2>2. \/ /\ test'[t] \in {"listening", test[t]} /\ taken'[t] \subseteq taken[t]
           /\ rejected' = rejected
        \/ test'[t] = "listening" /\ taken'[t] = {}
    BY <1>8 DEF finishUserTask, Finish, Rejected, TypeOK
  <2> QED
    BY <1>0, <2>1, <2>2
<1>9. CASE GiveUp(t)
  BY <1>0, <1>9 DEF GiveUp
<1>10. ASSUME NEW p \in T, Engine(p) PROVE At(t)'
  <2>1. UNCHANGED <<test, tries, taken, rejected, abandoned>>
        /\ awaited'[t] \in {awaited[t], {}}
    BY <1>10, EngineSteps
  <2>2. t \in passed' => t \in passed \/ awaited[t] # {}
    BY <1>10, Passes DEF Next
  <2> QED
    BY <1>0, <2>1, <2>2
<1>11. CASE UNCHANGED vars
  BY <1>0, <1>11 DEF vars, tests
<1>12. ASSUME NEW p \in T, Test(p) \/ GiveUp(p) \/ Engine(p) PROVE At(t)'
  BY <1>2, <1>3, <1>4, <1>5, <1>6, <1>7, <1>8, <1>9, <1>10, <1>12 DEF Test
<1> QED
  BY <1>1, <1>11, <1>12 DEF Next

\* Every step keeps the types.
LEMMA TypesHold == Typed /\ OrderInv /\ [Next]_vars => Typed'
<1>1. TypeOK <=> FixtureOK /\ TestsOK
  BY DEF TypeOK, FixtureOK, TestsOK
<1>2. TypeOK' <=> FixtureOK' /\ TestsOK'
  BY DEF TypeOK, FixtureOK, TestsOK
<1> QED
  BY <1>1, <1>2, FixtureTypes, TestTypes, PlacesHold DEF Typed

-----------------------------------------------------------------------------
(* The invariant that every step keeps.                                    *)
IInv ==
  /\ TypeOK /\ PlaceInv /\ ServicesInv /\ OrderInv /\ PassedInv /\ RowsInv /\ WaitInv
  /\ TakenInv /\ RejectedInv /\ FailsForAReason

\* Before the first file nothing runs and nothing is stored.
LEMMA InitHolds == Init => IInv
<1> SUFFICES ASSUME Init PROVE IInv
  OBVIOUS
<1>1. /\ \A t \in T : /\ test[t] = "not run" /\ tries[t] = 0 /\ instance[t] = "none"
                      /\ taken[t] = {} /\ awaited[t] = {}
      /\ phase = "idle" /\ rows = {} /\ listening = {} /\ polling = {}
      /\ waiting = {} /\ passed = {} /\ rejected = {} /\ abandoned = {}
  BY DEF Init
<1>2. TypeOK
  <2>1. Sessions \in Nat \ {0} /\ MaxTries \in Nat \ {0}
    BY TestSessionAssumption
  <2>2. 1 \in 1..Sessions /\ 0 \in 0..MaxTries
    BY <2>1
  <2> QED
    BY <2>2 DEF Init, TypeOK, Phases, States, Places
<1>3. PlaceInv
  <2>1. 0 < MaxTries
    BY TestsAreNumbered
  <2> QED
    BY <1>1, <2>1 DEF PlaceInv
<1>4. ServicesInv /\ OrderInv /\ PassedInv /\ RowsInv
  BY <1>1 DEF ServicesInv, OrderInv, PassedInv, RowsInv
<1>5. WaitInv /\ TakenInv /\ RejectedInv /\ FailsForAReason
  BY <1>1 DEF WaitInv, TakenInv, OwnTasks, RejectedInv, FailsForAReason
<1> QED
  BY <1>2, <1>3, <1>4, <1>5 DEF IInv

\* What runs, what is stored, what waits and where the tests are, at every step
\* of any number of test files, whatever fails in them (test_fixture_provider.ts,
\* process_instance_handler.ts).
THEOREM InductiveInvariant == Spec => []IInv
<1>1. IInv /\ [Next]_vars => IInv'
  <2> SUFFICES ASSUME IInv, [Next]_vars PROVE IInv'
    OBVIOUS
  <2>1. TypeOK' /\ PlaceInv'
    BY TypesHold DEF IInv, Typed
  <2>2. ServicesInv' /\ OrderInv' /\ PassedInv' /\ WaitInv'
    BY ServicesHold, OrderHolds, PassedHolds, WaitHolds DEF IInv
  <2>3. RowsInv' /\ TakenInv' /\ RejectedInv'
    BY RowsHold, TakenHolds, RejectedHolds DEF IInv
  <2>4. FailsForAReason'
    BY <2>3, FailsHold DEF IInv
  <2> QED
    BY <2>1, <2>2, <2>3, <2>4 DEF IInv
<1> QED
  BY InitHolds, <1>1, PTL DEF Spec

\* The types (test_fixture_provider.ts, process_instance_handler.ts).
THEOREM TypeCorrect == Spec => []TypeOK
<1>1. IInv => TypeOK
  BY DEF IInv
<1> QED
  BY InductiveInvariant, <1>1, PTL

\* Between the files no server listens and no worker polls, whatever failed
\* (tearDown).
THEOREM NothingLeftRunning == Spec => []NothingKeepsRunning
<1>1. IInv => NothingKeepsRunning
  BY DEF IInv, ServicesInv, NothingKeepsRunning, Served, Polled, Ended
<1> QED
  BY InductiveInvariant, <1>1, PTL

\* A file that was torn down leaves no row of an undisturbed test
\* (clearDatabases).
THEOREM TornDownClean == Spec => []TornDownIsClean
<1>1. IInv => TornDownIsClean
  BY DEF IInv, RowsInv, TornDownIsClean
<1> QED
  BY InductiveInvariant, <1>1, PTL

\* The wait for its tasks returns with those of the test's own instance, and no
\* others are finished (waitForProcessInstanceToReachSuspendedTask,
\* getWaitingUserTasksForCorrelationId).
THEOREM OwnTasksFound == Spec => []FoundIsOwn
<1>1. IInv => FoundIsOwn
  BY DEF IInv, TakenInv, OwnTasks, FoundIsOwn
<1> QED
  BY InductiveInvariant, <1>1, PTL

\* The assertions of the tests and of the helper fail, and requests are rejected,
\* only where something else went wrong (finishUserTaskInCorrelation).
THEOREM FailuresHaveReasons == Spec => []FailsForAReason
<1>1. IInv => FailsForAReason
  BY DEF IInv
<1> QED
  BY InductiveInvariant, <1>1, PTL

\* A test whose request was rejected unnoticed does not pass by a later end
\* (finishUserTaskInCorrelation, waitForProcessWithInstanceIdToEnd).
THEOREM RejectionsShow == Spec => []RejectionNeverHidden
<1>1. IInv => RejectionNeverHidden
  BY DEF IInv, RejectedInv, RejectionNeverHidden, TypeOK
<1> QED
  BY InductiveInvariant, <1>1, PTL

=============================================================================

--------------------------- MODULE MigratorProofs ---------------------------
(***************************************************************************)
(* Proofs about the runner of the migrations and about the tables it       *)
(* leaves.  They hold for every store a start can find, every dialect, one *)
(* database or five, and every number of restarts.  Those about the runner *)
(* hold whatever the statements of the scripts do: Up, Succeeds, After and *)
(* Continuation are not expanded before the proofs about the tables.       *)
(***************************************************************************)
EXTENDS MigratorProperties, TLAPS

-----------------------------------------------------------------------------
(* The scripts and the repositories.                                       *)

\* The order in which runMigrations takes the repositories names each of the
\* five once.
LEMMA RepositoryOrderFacts ==
  /\ Len(RepositoryOrder) = 5
  /\ DOMAIN RepositoryOrder = 1..5
  /\ \A k \in 1..5 : RepositoryOrder[k] \in Repositories
  /\ \A r \in Repositories : \E k \in 1..5 : RepositoryOrder[k] = r
  /\ \A k, l \in 1..5 : RepositoryOrder[k] = RepositoryOrder[l] => k = l
BY DEF RepositoryOrder, Repositories

\* The scripts of a repository form a sequence.
LEMMA ScriptsOfType ==
  \A r \in Repositories :
    /\ Len(ScriptsOf[r]) \in Nat
    /\ DOMAIN ScriptsOf[r] = 1..Len(ScriptsOf[r])
<1>1. DOMAIN ScriptsOf["correlation"] = 1..7 /\ Len(ScriptsOf["correlation"]) = 7
  BY DEF ScriptsOf, Repositories
<1>2. DOMAIN ScriptsOf["cronjob_history"] = 1..1 /\ Len(ScriptsOf["cronjob_history"]) = 1
  BY DEF ScriptsOf, Repositories
<1>3. DOMAIN ScriptsOf["external_task"] = 1..4 /\ Len(ScriptsOf["external_task"]) = 4
  BY DEF ScriptsOf, Repositories
<1>4. DOMAIN ScriptsOf["flow_node_instance"] = 1..8 /\ Len(ScriptsOf["flow_node_instance"]) = 8
  BY DEF ScriptsOf, Repositories
<1>5. DOMAIN ScriptsOf["process_model"] = 1..5 /\ Len(ScriptsOf["process_model"]) = 5
  BY DEF ScriptsOf, Repositories
<1> QED
  BY <1>1, <1>2, <1>3, <1>4, <1>5 DEF Repositories

\* No two files have the same name, in one repository or in two: in a shared
\* database one SequelizeMeta table logs the scripts of all repositories.
LEMMA ScriptNamesUnique ==
  \A r, s \in Repositories : \A i \in DOMAIN ScriptsOf[r], j \in DOMAIN ScriptsOf[s] :
    ScriptsOf[r][i] = ScriptsOf[s][j] => r = s /\ i = j
BY DEF ScriptsOf, Repositories

\* No script has the name that stands for none.
LEMMA NoScriptIsNoName == NoScript \notin ScriptNames
BY DEF NoScript, ScriptNames, ScriptsOf, Repositories, ToSet

-----------------------------------------------------------------------------
(* The inductive invariant.  LogIsPrefix and RepositoriesInOrder are not   *)
(* inductive by themselves: that logging the running script keeps them     *)
(* needs that it is the next one of the repository, which BeginScript saw  *)
(* when it started and which must still be so when its up() resolves.      *)

RunningScriptIsNext ==
  script # NoScript =>
    /\ status \in {"migrating", "failed"}
    /\ \E i \in DOMAIN Scripts :
         /\ script = Scripts[i]
         /\ ~Logged(Repository, i)
         /\ \A j \in 1..(i - 1) : Logged(Repository, j)

RunnerInv ==
  /\ RunnerTypeOK
  /\ LogIsPrefix
  /\ RepositoriesInOrder
  /\ RunningScriptIsNext
  /\ TodoBelongsToScript

\* The repository being migrated is one of the five, its scripts have names.
LEMMA CurrentFacts ==
  ASSUME RunnerTypeOK
  PROVE  /\ current \in 1..5
         /\ Repository \in Repositories
         /\ Database \in Databases
         /\ \A r \in Repositories : DatabaseOf(r) \in Databases
         /\ \A i \in DOMAIN Scripts : Scripts[i] \in ScriptNames
<1>1. current \in 1..5 /\ Repository \in Repositories
  BY RepositoryOrderFacts DEF RunnerTypeOK, Repository
<1>2. \A r \in Repositories : DatabaseOf(r) \in Databases
  BY DEF RunnerTypeOK, Layouts, DatabaseOf
<1>3. \A i \in DOMAIN Scripts : Scripts[i] \in ScriptNames
  BY <1>1 DEF Scripts, ScriptNames, ToSet
<1> QED
  BY <1>1, <1>2, <1>3 DEF Database

\* A store a start finds satisfies the invariant.
LEMMA RunnerInvInit == Init => RunnerInv
<1> SUFFICES ASSUME Init PROVE RunnerInv
  OBVIOUS
<1>1. IsLog(meta)
  BY InitialStoresAssumption DEF Init
<1>2. RunnerTypeOK
  BY <1>1, RepositoryOrderFacts, MaxRestartsAssumption
  DEF Init, RunnerTypeOK, IsLog, Statuses, Databases
<1>3. LogIsPrefix
  BY <1>1 DEF IsLog, LogIsPrefix, Logged, DatabaseOf, Databases
<1> QED
  BY <1>2, <1>3
  DEF Init, RunnerInv, RepositoriesInOrder, RunningScriptIsNext, TodoBelongsToScript

\* A step that leaves the log, the running script and its repository alone, and
\* neither starts nor ends a run, keeps the invariant.
LEMMA RunnerInvUnchanged ==
  ASSUME RunnerInv, UNCHANGED <<meta, status, current, script, restarts>>,
         TodoBelongsToScript'
  PROVE  RunnerInv'
BY DEF RunnerInv, RunnerTypeOK, LogIsPrefix, RepositoriesInOrder,
       RunningScriptIsNext, Logged, Complete, Scripts, Repository, Databases,
       DatabaseOf

\* What logging the next script of a repository does to the log, also when the
\* repositories share one SequelizeMeta.
LEMMA LoggedAfter ==
  ASSUME RunnerInv, LogMigration,
         NEW k \in DOMAIN Scripts, script = Scripts[k]
  PROVE  \A r \in Repositories : \A i \in DOMAIN ScriptsOf[r] :
           Logged(r, i)' <=> Logged(r, i) \/ (r = Repository /\ i = k)
<1>1. /\ Repository \in Repositories
      /\ Database \in Databases
      /\ \A r \in Repositories : DatabaseOf(r) \in Databases
  BY CurrentFacts DEF RunnerInv
<1>2. meta' = [meta EXCEPT ![Database] = @ \union {script}]
  BY DEF LogMigration
<1>3. DOMAIN meta = Databases
  BY DEF RunnerInv, RunnerTypeOK
<1> SUFFICES ASSUME NEW r \in Repositories, NEW i \in DOMAIN ScriptsOf[r]
             PROVE  Logged(r, i)' <=> Logged(r, i) \/ (r = Repository /\ i = k)
  OBVIOUS
<1>4. /\ DatabaseOf(r)' = DatabaseOf(r)
      /\ meta'[DatabaseOf(r)] = IF DatabaseOf(r) = Database
                                THEN meta[DatabaseOf(r)] \union {script}
                                ELSE meta[DatabaseOf(r)]
  BY <1>1, <1>2, <1>3 DEF DatabaseOf, Databases
<1>5. script = ScriptsOf[r][i] <=> r = Repository /\ i = k
  BY <1>1, ScriptNamesUnique DEF Scripts
<1> QED
  BY <1>4, <1>5 DEF Logged, Database

\* The invariant is preserved.
LEMMA RunnerInvStep == RunnerInv /\ [Next]_vars => RunnerInv'
<1> SUFFICES ASSUME RunnerInv, [Next]_vars PROVE RunnerInv'
  OBVIOUS
<1> USE DEF RunnerInv
<1>0. /\ current \in 1..5
      /\ Repository \in Repositories
      /\ \A i \in DOMAIN Scripts : Scripts[i] \in ScriptNames
  BY CurrentFacts
<1>1. CASE StartRuntime
  <2>1. RunnerTypeOK' /\ LogIsPrefix'
    BY <1>1, RepositoryOrderFacts
    DEF StartRuntime, store, RunnerTypeOK, LogIsPrefix, Logged, DatabaseOf,
        Databases, Statuses
  <2>2. script' = NoScript
    BY <1>1 DEF StartRuntime, RunningScriptIsNext
  <2>3. status' = "migrating" /\ current' = 1
    BY <1>1 DEF StartRuntime
  <2> QED
    BY <1>1, <2>1, <2>2, <2>3
    DEF RepositoriesInOrder, RunningScriptIsNext, StartRuntime, TodoBelongsToScript
<1>2. CASE BeginScript
  <2>1. PICK i \in DOMAIN Scripts :
          IsPending(i) /\ (\A j \in 1..(i - 1) : ~IsPending(j)) /\ script' = Scripts[i]
    BY <1>2 DEF BeginScript
  <2>2. UNCHANGED <<meta, status, current, restarts>> /\ status = "migrating"
    BY <1>2 DEF BeginScript, store
  <2>3. RunnerTypeOK'
    BY <2>1, <2>2, <1>0 DEF RunnerTypeOK, DatabaseOf, Databases
  <2>4. LogIsPrefix' /\ RepositoriesInOrder'
    BY <2>2 DEF LogIsPrefix, RepositoriesInOrder, Logged, DatabaseOf, Databases,
                Complete
  <2>5. RunningScriptIsNext' /\ script' # NoScript
    BY <2>1, <2>2, <1>0, NoScriptIsNoName
    DEF RunningScriptIsNext, IsPending, Logged, DatabaseOf, Databases, Scripts,
        Repository, Database
  <2> QED
    BY <2>3, <2>4, <2>5 DEF TodoBelongsToScript
<1>3. CASE SendUnawaited
  BY <1>3, RunnerInvUnchanged DEF SendUnawaited, store, TodoBelongsToScript
<1>4. CASE ExecuteStatement
  BY <1>4, RunnerInvUnchanged DEF ExecuteStatement, TodoBelongsToScript
<1>5. CASE StatementFails
  BY <1>5 DEF StatementFails, store, RunnerTypeOK, Statuses, LogIsPrefix,
              RepositoriesInOrder, RunningScriptIsNext, Logged, DatabaseOf, Databases, Complete,
              Scripts, Repository, TodoBelongsToScript
<1>6. CASE UnawaitedTakesEffect
  BY <1>6, RunnerInvUnchanged DEF UnawaitedTakesEffect, TodoBelongsToScript
<1>7. CASE LogMigration
  <2>1. PICK k \in DOMAIN Scripts :
          /\ script = Scripts[k]
          /\ ~Logged(Repository, k)
          /\ \A j \in 1..(k - 1) : Logged(Repository, j)
    BY <1>7 DEF LogMigration, RunningScriptIsNext
  <2>2. \A r \in Repositories : \A i \in DOMAIN ScriptsOf[r] :
          Logged(r, i)' <=> Logged(r, i) \/ (r = Repository /\ i = k)
    BY <1>7, <2>1, LoggedAfter
  <2>3. UNCHANGED <<status, current, restarts>> /\ script' = NoScript
        /\ status = "migrating"
    BY <1>7 DEF LogMigration
  <2>4. RunnerTypeOK'
    BY <1>7, <2>3 DEF RunnerTypeOK, LogMigration, DatabaseOf, Databases
  <2>5. LogIsPrefix'
    <3> SUFFICES ASSUME NEW r \in Repositories, NEW j \in DOMAIN ScriptsOf[r],
                        Logged(r, j)', NEW i \in 1..(j - 1)
                 PROVE  Logged(r, i)'
      BY DEF LogIsPrefix
    <3>1. i \in DOMAIN ScriptsOf[r]
      BY ScriptsOfType
    <3>2. Logged(r, i)
      BY <2>1, <2>2 DEF LogIsPrefix
    <3> QED
      BY <3>1, <3>2, <2>2
  <2>6. RepositoriesInOrder'
    BY <2>2, <2>3, <1>0, RepositoryOrderFacts DEF RepositoriesInOrder, Complete
  <2> QED
    BY <1>7, <2>3, <2>4, <2>5, <2>6
    DEF RunningScriptIsNext, LogMigration, TodoBelongsToScript
<1>8. CASE FinishRepository
  <2>1. Complete(Repository)
    BY <1>8 DEF FinishRepository, IsPending, Complete, Logged, Scripts, Database
  <2>2. UNCHANGED <<meta, script, todo, restarts>> /\ script = NoScript
        /\ status = "migrating"
    BY <1>8 DEF FinishRepository, store
  <2>3. \A r \in Repositories : Complete(r)' <=> Complete(r)
    BY <2>2 DEF Complete, Logged, DatabaseOf, Databases
  <2>4. \A k \in 1..current : Complete(RepositoryOrder[k])
    BY <2>1, <2>2, <1>0 DEF RepositoriesInOrder, Repository
  <2>5. CASE current < 5
    <3>1. current' = current + 1 /\ status' = "migrating"
      BY <1>8, <2>5, RepositoryOrderFacts DEF FinishRepository
    <3>2. RepositoriesInOrder'
      BY <2>3, <2>4, <2>5, <3>1, <1>0, RepositoryOrderFacts
      DEF RepositoriesInOrder
    <3> QED
      BY <2>2, <2>5, <3>1, <3>2, <1>0, RepositoryOrderFacts
      DEF RunnerTypeOK, LogIsPrefix, Logged, DatabaseOf, Databases,
          RunningScriptIsNext, TodoBelongsToScript
  <2>6. CASE current = 5
    <3>1. current' = current /\ status' = "migrated"
      BY <1>8, <2>6, RepositoryOrderFacts DEF FinishRepository
    <3>2. RepositoriesInOrder'
      BY <2>3, <2>4, <2>6, <3>1, RepositoryOrderFacts DEF RepositoriesInOrder
    <3> QED
      BY <2>2, <3>1, <3>2
      DEF RunnerTypeOK, Statuses, LogIsPrefix, Logged, DatabaseOf, Databases,
          RunningScriptIsNext, TodoBelongsToScript
  <2> QED
    BY <2>5, <2>6, <1>0
<1>9. CASE Stop
  <2>1. restarts' \in 0..MaxRestarts
    BY <1>9, MaxRestartsAssumption DEF Stop, RunnerTypeOK
  <2>2. UNCHANGED <<meta, current>> /\ status' = "down" /\ script' = NoScript
    BY <1>9 DEF Stop, store
  <2> QED
    BY <1>9, <2>1, <2>2
    DEF Stop, RunnerTypeOK, Statuses, LogIsPrefix, Logged, DatabaseOf,
        Databases, RepositoriesInOrder, RunningScriptIsNext, TodoBelongsToScript
<1>10. CASE UNCHANGED vars
  BY <1>10, RunnerInvUnchanged DEF vars, TodoBelongsToScript
<1> QED
  BY <1>1, <1>2, <1>3, <1>4, <1>5, <1>6, <1>7, <1>8, <1>9, <1>10
  DEF Next, Progress

\* The inductive invariant holds in every state of every behaviour of the
\* runner (main.ts, runMigrations; migrator.ts, migrate).
THEOREM RunnerInvariant == Spec => []RunnerInv
BY RunnerInvInit, RunnerInvStep, PTL DEF Spec

-----------------------------------------------------------------------------
(* What follows from it.                                                   *)

\* What the runner keeps has its type: the part of TypeOK that does not depend
\* on the statements of the scripts.
THEOREM RunnerTypeCorrect == Spec => []RunnerTypeOK
BY RunnerInvariant, PTL DEF RunnerInv

\* The log of every repository is a prefix of its scripts, whatever databases
\* the repositories share and wherever earlier starts ended (umzug.up()).
THEOREM LogAlwaysPrefix == Spec => []LogIsPrefix
BY RunnerInvariant, PTL DEF RunnerInv

\* A repository is migrated after those before it, and the runtime goes on only
\* when all are complete (main.ts, runMigrations).
THEOREM AlwaysInOrder == Spec => []RepositoriesInOrder
BY RunnerInvariant, PTL DEF RunnerInv

\* A start of an up to date runtime changes no table (umzug.up()).
THEOREM UpToDateStoreUntouched == Spec => CompleteStoreUntouched
<1>1. RunnerInv /\ [Next]_vars =>
        [(\A r \in Repositories : Complete(r)) /\ unawaited = <<>>
           => databases' = databases]_vars
  <2> SUFFICES ASSUME RunnerInv, Next, unawaited = <<>>,
                      \A r \in Repositories : Complete(r)
               PROVE  databases' = databases
    OBVIOUS
  <2>1. Repository \in Repositories
    BY CurrentFacts DEF RunnerInv
  <2>2. script = NoScript
    BY <2>1 DEF RunnerInv, RunningScriptIsNext, Complete, Scripts
  <2>3. todo = <<>>
    BY <2>2 DEF RunnerInv, TodoBelongsToScript
  <2> QED
    BY <2>3 DEF Next, Progress, StartRuntime, BeginScript, SendUnawaited,
                ExecuteStatement, StatementFails, UnawaitedTakesEffect,
                LogMigration, FinishRepository, Stop, store
<1> QED
  BY <1>1, RunnerInvariant, PTL DEF Spec, CompleteStoreUntouched

-----------------------------------------------------------------------------
(* Refinement: the runner implements MigrationLog.                         *)

\* The log is about the five repositories.
LEMMA LogNames == Log!Names = Repositories
BY RepositoryOrderFacts DEF Log!Names

\* A repository is complete when all its positions are applied.
LEMMA CompleteIsAllApplied ==
  \A r \in Repositories : Complete(r) <=> Log!AllApplied(r)
BY ScriptsOfType DEF Complete, Log!AllApplied, Applied, ScriptCount

\* The initial states are initial states of the log.
LEMMA LogInit == Init => Log!Init
<1> SUFFICES ASSUME Init PROVE Log!Init
  OBVIOUS
<1>1. LogIsPrefix
  BY RunnerInvInit DEF RunnerInv
<1>2. DOMAIN Applied = Log!Names
  BY LogNames DEF Applied
<1>3. ASSUME NEW r \in Repositories
      PROVE  Applied[r] \subseteq 1..ScriptCount[r] /\ Log!InOrder(Applied[r])
  <2>1. Applied[r] = {i \in DOMAIN ScriptsOf[r] : Logged(r, i)}
    BY DEF Applied
  <2>2. DOMAIN ScriptsOf[r] = 1..ScriptCount[r] /\ ScriptCount[r] \in Nat
    BY ScriptsOfType DEF ScriptCount
  <2>3. ASSUME NEW j \in Applied[r], NEW i \in 1..(j - 1)
        PROVE  i \in Applied[r]
    <3>1. i \in DOMAIN ScriptsOf[r] /\ j \in DOMAIN ScriptsOf[r] /\ Logged(r, j)
      BY <2>1, <2>2, <2>3
    <3> QED
      BY <3>1, <1>1, <2>1 DEF LogIsPrefix
  <2> QED
    BY <2>1, <2>2, <2>3 DEF Log!InOrder
<1> QED
  BY <1>2, <1>3, LogNames DEF Log!Init, Init

\* Logging a script is the step that applies it; the end of the last repository
\* lets the runtime serve; a stop ends it; no other step shows.
LEMMA LogStep == RunnerInv /\ [Next]_vars => [Log!Next]_(Log!logVars)
<1> SUFFICES ASSUME RunnerInv, [Next]_vars
             PROVE  Log!Next \/ UNCHANGED Log!logVars
  OBVIOUS
<1>0. /\ current \in 1..5
      /\ Repository \in Repositories
  BY CurrentFacts DEF RunnerInv
<1>1. ASSUME UNCHANGED <<meta, status>> PROVE UNCHANGED Log!logVars
  BY <1>1 DEF Log!logVars, Applied, Logged, DatabaseOf, Databases
<1>2. ASSUME UNCHANGED meta, status # "migrated", status' # "migrated"
      PROVE  UNCHANGED Log!logVars
  BY <1>2 DEF Log!logVars, Applied, Logged, DatabaseOf, Databases
<1>3. CASE LogMigration
  <2>1. PICK k \in DOMAIN Scripts :
          /\ script = Scripts[k]
          /\ ~Logged(Repository, k)
          /\ \A j \in 1..(k - 1) : Logged(Repository, j)
    BY <1>3 DEF LogMigration, RunnerInv, RunningScriptIsNext
  <2>2. \A r \in Repositories : \A i \in DOMAIN ScriptsOf[r] :
          Logged(r, i)' <=> Logged(r, i) \/ (r = Repository /\ i = k)
    BY <1>3, <2>1, LoggedAfter
  <2>3. status = "migrating" /\ status' = status
    BY <1>3 DEF LogMigration
  <2>4. \A l \in 1..(current - 1) : Log!AllApplied(RepositoryOrder[l])
    BY <2>3, <1>0, CompleteIsAllApplied, RepositoryOrderFacts
    DEF RunnerInv, RepositoriesInOrder
  <2>5. k \in 1..ScriptCount[Repository]
    BY <1>0, ScriptsOfType DEF Scripts, ScriptCount
  <2>6. k \notin Applied[Repository] /\ 1..(k - 1) \subseteq Applied[Repository]
    BY <2>1, <1>0, ScriptsOfType DEF Applied, Scripts
  <2>7. Applied' = [Applied EXCEPT ![Repository] = @ \union {k}]
    <3>1. ASSUME NEW r \in Repositories
          PROVE  Applied'[r] = IF r = Repository THEN Applied[r] \union {k}
                               ELSE Applied[r]
      <4>1. k \in DOMAIN ScriptsOf[Repository]
        BY DEF Scripts
      <4> QED
        BY <2>2, <4>1 DEF Applied
    <3> QED
      BY <3>1, <1>0 DEF Applied
  <2>8. Log!Apply(current)
    BY <2>3, <2>4, <2>5, <2>6, <2>7 DEF Log!Apply, Repository
  <2> QED
    BY <2>8, <1>0, RepositoryOrderFacts DEF Log!Next
<1>4. CASE FinishRepository
  <2>1. Complete(Repository)
    BY <1>4 DEF FinishRepository, IsPending, Complete, Logged, Scripts, Database
  <2>2. UNCHANGED meta /\ status = "migrating"
    BY <1>4 DEF FinishRepository, store
  <2>3. CASE current < 5
    BY <1>2, <1>4, <2>2, <2>3, RepositoryOrderFacts DEF FinishRepository
  <2>4. CASE current = 5
    <3>1. status' = "migrated"
      BY <1>4, <2>4, RepositoryOrderFacts DEF FinishRepository
    <3>2. \A l \in 1..5 : Complete(RepositoryOrder[l])
      BY <2>1, <2>2, <2>4 DEF RunnerInv, RepositoriesInOrder, Repository
    <3>3. \A r \in Log!Names : Log!AllApplied(r)
      BY <3>2, LogNames, CompleteIsAllApplied, RepositoryOrderFacts
    <3>4. Applied' = Applied
      BY <2>2 DEF Applied, Logged, DatabaseOf, Databases
    <3>5. Log!Serve
      BY <2>2, <3>1, <3>3, <3>4 DEF Log!Serve
    <3> QED
      BY <3>5 DEF Log!Next
  <2> QED
    BY <2>3, <2>4, <1>0
<1>5. CASE Stop
  <2>1. UNCHANGED meta /\ status' = "down"
    BY <1>5 DEF Stop, store
  <2>2. CASE status = "migrated"
    <3>1. Applied' = Applied
      BY <2>1 DEF Applied, Logged, DatabaseOf, Databases
    <3>2. Log!Stop
      BY <2>1, <2>2, <3>1 DEF Log!Stop
    <3> QED
      BY <3>2 DEF Log!Next
  <2>3. CASE status # "migrated"
    BY <1>2, <2>1, <2>3
  <2> QED
    BY <2>2, <2>3
<1>6. CASE StartRuntime
  BY <1>2, <1>6 DEF StartRuntime, store
<1>7. CASE StatementFails
  BY <1>2, <1>7 DEF StatementFails, store
<1>8. CASE BeginScript \/ SendUnawaited \/ ExecuteStatement \/ UnawaitedTakesEffect
  BY <1>1, <1>8
  DEF BeginScript, SendUnawaited, ExecuteStatement, UnawaitedTakesEffect, store
<1>9. CASE UNCHANGED vars
  BY <1>1, <1>9 DEF vars
<1> QED
  BY <1>3, <1>4, <1>5, <1>6, <1>7, <1>8, <1>9 DEF Next, Progress

\* Whoever starts the runtime sees scripts applied one by one in their order,
\* and a runtime that serves only when all are applied: runMigrations implements
\* MigrationLog (main.ts, runMigrations; migrator.ts, migrate).
THEOREM LogImplemented == Spec => ImplementsLog
<1>1. Spec => Log!Init /\ [][Log!Next]_(Log!logVars)
  BY LogInit, LogStep, RunnerInvariant, PTL DEF Spec
<1> QED
  BY <1>1 DEF ImplementsLog, Log!Spec

-----------------------------------------------------------------------------
(* Every table is well formed after every statement of every script.       *)

-----------------------------------------------------------------------------
(* What the scripts ask of a statement.                                    *)

TokenTables == {"ProcessTokens", "processtokens_new"}

ChangesTable ==
  {"addColumn", "changeColumn", "removeColumn", "addIndex", "insertRow", "setCell",
   "fillFrom"}

Operations ==
  ChangesTable \union
    {"describeTable", "select", "createTable", "dropTable", "renameTable", "copyRows"}

TaskTables == {"ExternalTasks", "external_tasks_new"}

\* A statement of a script, at any place in it.
Allowed(s) ==
  /\ s.op \in Operations
  /\ s.op = "createTable" =>
       /\ s.table \in TableNames
       /\ {"id", "createdAt"} \subseteq DOMAIN s.columns
       /\ s.unique \subseteq DOMAIN s.columns
       /\ \A t \in Rebuilt : s.table = TemporaryOf[t] =>
            s.columns = With(MigratedColumns[t], "id", "INTEGER")
       /\ s.table \in TokenTables => s.unique = {}
  /\ s.op = "renameTable" =>
       \E t \in Rebuilt : s.table = TemporaryOf[t] /\ s.to = t
  /\ s.op \in ChangesTable \ {"insertRow"} => s.table \in LiveTables
  /\ s.op \in {"changeColumn", "setCell"} => s.column \notin {"id", "createdAt"}
  /\ s.op \in {"addColumn", "removeColumn", "setCell"} => s.column \notin KeptColumns[s.table]
  /\ s.op = "removeColumn" =>
       s.table = "ProcessTokens" /\ s.column \notin {"id", "createdAt", "flowNodeInstanceId"}
  /\ s.op = "addIndex" /\ s.table = "ProcessTokens" =>
       s.columns = <<"flowNodeInstanceId">>
  /\ s.op = "fillFrom" =>
       DOMAIN s.assignments \intersect (KeptColumns[s.table] \union {"createdAt"}) = {}
  /\ s.op = "copyRows" =>
       \E t \in Rebuilt : /\ s.table = t /\ s.to = TemporaryOf[t]
                          /\ s.columns = DOMAIN MigratedColumns[t]
  /\ s.op = "insertRow" =>
       /\ s.table = "external_tasks_new"
       /\ DOMAIN s.row = DOMAIN MigratedTaskColumns
       /\ \A c \in DOMAIN s.row : s.row[c] # Null
  /\ s.op = "dropTable" => s.table \in Rebuilt \/ ~IsAwaited(s)
  /\ ~IsAwaited(s) => s.op = "dropTable" /\ s.table = "external_tasks_new"
  /\ IsCaught(s) => s.op = "setCell"

\* One that moves no rows and has nothing to do with the copy of the tasks.
Fits(s) ==
  /\ Allowed(s)
  /\ s.op \notin {"dropTable", "renameTable", "copyRows", "insertRow"}
  /\ s.op = "createTable" => s.table \notin TaskTables
  /\ s.op = "select" => s.use # "copy tasks"

\* The temporary tables have names of their own.
LEMMA Names ==
  /\ \A t, u \in Rebuilt : TemporaryOf[t] = TemporaryOf[u] => t = u
  /\ \A t \in Rebuilt : /\ t \in LiveTables /\ TemporaryOf[t] \notin LiveTables
                        /\ t \in TableNames /\ TemporaryOf[t] \in TableNames
                        /\ t \in TokenTables <=> t = "ProcessTokens"
                        /\ TemporaryOf[t] \in TokenTables <=> t = "ProcessTokens"
  /\ "ExternalTasks" \in Rebuilt /\ TemporaryOf["ExternalTasks"] = "external_tasks_new"
  /\ MigratedColumns["ExternalTasks"] = MigratedTaskColumns
  /\ TokenTables \intersect LiveTables = {"ProcessTokens"}
  /\ LiveTables \subseteq TableNames
BY DEF Rebuilt, LiveTables, TemporaryOf, TableNames, TokenTables, MigratedColumns

\* What the values of a row that no script computes anew are.
LEMMA KeptFacts ==
  /\ KeptColumns["Correlations"] = {"correlationId", "processModelHash"}
  /\ KeptColumns["ExternalTasks"] =
       {"topic", "flowNodeInstanceId", "correlationId", "processInstanceId", "state",
        "createdAt"}
  /\ KeptColumns["FlowNodeInstances"] =
       {"flowNodeInstanceId", "flowNodeId", "state", "error"}
  /\ KeptColumns["ProcessTokens"] = {"flowNodeInstanceId", "type", "payload"}
  /\ KeptColumns["ProcessDefinitions"] = {"name", "xml"}
BY DEF KeptColumns, LiveTables

\* The columns a table is created with, or copied to.
LEMMA ColumnsOfTyped ==
  ASSUME NEW f PROVE DOMAIN Typed(f) = UNION {f[type] : type \in DOMAIN f}
BY DEF Typed

\* A rebuilt table has its time stamps, and no id but the new one.
LEMMA Migrated ==
  \A t \in Rebuilt :
    /\ "createdAt" \in DOMAIN MigratedColumns[t]
    /\ "id" \notin DOMAIN MigratedColumns[t]
BY DEF Rebuilt, LiveTables, MigratedColumns, MigratedCorrelationColumns,
   MigratedTaskColumns, MigratedInstanceColumns, MigratedTokenColumns,
   MigratedModelColumns, Typed, Timestamps

-----------------------------------------------------------------------------
(* What a statement does to the table it changes.                          *)

IsSequence(p) == p \in Seq(ToSet(p))

\* A function on 1..n is a sequence of its values.
LEMMA Sequence ==
  ASSUME NEW rows, NEW n \in Nat, DOMAIN rows = 1..n, rows = [i \in 1..n |-> rows[i]]
  PROVE  rows \in Seq(ToSet(rows))
BY DEF ToSet

\* Two sequences joined have the elements of both.
LEMMA Concatenated ==
  ASSUME NEW p, NEW q, NEW r, IsSequence(p), IsSequence(q), r = p \o q
  PROVE  /\ IsSequence(r)
         /\ ToSet(r) = ToSet(p) \union ToSet(q)
<1> DEFINE S == ToSet(p) \union ToSet(q)
<1>1. p \in Seq(S) /\ q \in Seq(S)
  BY DEF IsSequence
<1> HIDE DEF S
<1>2. /\ Len(p) \in Nat /\ DOMAIN p = 1..Len(p)
      /\ Len(q) \in Nat /\ DOMAIN q = 1..Len(q)
      /\ DOMAIN r = 1..(Len(p) + Len(q))
      /\ \A i \in 1..(Len(p) + Len(q)) :
           r[i] = IF i <= Len(p) THEN p[i] ELSE q[i - Len(p)]
  BY <1>1
<1>3. IsSequence(r)
  <2>1. r \in Seq(S)
    BY <1>1
  <2>2. /\ Len(r) \in Nat /\ DOMAIN r = 1..Len(r)
        /\ r = [i \in 1..Len(r) |-> r[i]]
    BY ONLY <2>1
  <2> QED
    BY ONLY <2>2, Sequence DEF IsSequence
<1>4. ToSet(r) \subseteq ToSet(p) \union ToSet(q)
  <2> SUFFICES ASSUME NEW i \in 1..(Len(p) + Len(q))
               PROVE  r[i] \in ToSet(p) \union ToSet(q)
    BY <1>2 DEF ToSet
  <2>1. CASE i <= Len(p)
    <3>1. i \in DOMAIN p /\ r[i] = p[i]
      BY ONLY <1>2, <2>1, i \in 1..(Len(p) + Len(q))
    <3> QED
      BY <3>1 DEF ToSet
  <2>2. CASE ~(i <= Len(p))
    <3>1. i - Len(p) \in DOMAIN q /\ r[i] = q[i - Len(p)]
      BY ONLY <1>2, <2>2, i \in 1..(Len(p) + Len(q))
    <3> QED
      BY <3>1 DEF ToSet
  <2> QED
    BY <2>1, <2>2
<1>5. ToSet(p) \subseteq ToSet(r)
  <2> SUFFICES ASSUME NEW j \in DOMAIN p PROVE p[j] \in ToSet(r)
    BY DEF ToSet
  <2>1. j \in DOMAIN r /\ r[j] = p[j]
    BY ONLY <1>2, j \in DOMAIN p
  <2> QED
    BY <2>1 DEF ToSet
<1>6. ToSet(q) \subseteq ToSet(r)
  <2> SUFFICES ASSUME NEW j \in DOMAIN q PROVE q[j] \in ToSet(r)
    BY DEF ToSet
  <2>1. j + Len(p) \in DOMAIN r /\ r[j + Len(p)] = q[j]
    BY ONLY <1>2, j \in DOMAIN q
  <2> QED
    BY <2>1 DEF ToSet
<1> QED
  BY <1>3, <1>4, <1>5, <1>6

\* A sequence of rows, computed from another one row by row.
LEMMA MappedRows ==
  ASSUME NEW rows, rows \in Seq(ToSet(rows)),
         NEW mapped, mapped = [i \in DOMAIN rows |-> mapped[i]]
  PROVE  mapped \in Seq(ToSet(mapped)) /\ Len(mapped) = Len(rows)
BY DEF ToSet

\* What a statement that applies has found, operation by operation.
LEMMA AppliesBy ==
  ASSUME NEW db, NEW s, Applies(db, s)
  PROVE  /\ s.op = "renameTable" => ~Exists(db, s.to)
         /\ s.op = "addColumn" => s.column \notin DOMAIN db[s.table].columns
         /\ s.op \in {"changeColumn", "removeColumn", "setCell"} =>
              s.column \in DOMAIN db[s.table].columns
         /\ s.op = "addIndex" => ToSet(s.columns) \subseteq DOMAIN db[s.table].columns
         /\ s.op = "copyRows" => /\ HasColumns(db, s.table, s.columns)
                                 /\ HasColumns(db, s.to, s.columns)
         /\ s.op = "insertRow" => HasColumns(db, s.table, DOMAIN s.row)
<1>1. s.op = "renameTable" => ~Exists(db, s.to)
  BY Zenon DEF Applies
<1>2. s.op = "addColumn" => s.column \notin DOMAIN db[s.table].columns
  BY Zenon DEF Applies
<1>3. s.op \in {"changeColumn", "removeColumn", "setCell"} =>
        s.column \in DOMAIN db[s.table].columns
  BY Zenon DEF Applies
<1>4. s.op = "addIndex" => ToSet(s.columns) \subseteq DOMAIN db[s.table].columns
  BY Zenon DEF Applies
<1>5. s.op = "copyRows" => HasColumns(db, s.table, s.columns) /\ HasColumns(db, s.to, s.columns)
  BY Zenon DEF Applies
<1>6. s.op = "insertRow" => HasColumns(db, s.table, DOMAIN s.row)
  BY Zenon DEF Applies
<1> QED
  BY <1>1, <1>2, <1>3, <1>4, <1>5, <1>6

\* The columns for which a row has a value.
Stored(columns) == IF columns["id"] = "INTEGER" THEN DOMAIN columns \ {"id"}
                   ELSE DOMAIN columns

\* A table, with the columns of its rows under a name of their own.
LEMMA TableOf ==
  ASSUME NEW table
  PROVE  IsTable(table) <=>
           /\ DOMAIN table = {"columns", "unique", "indexes", "rows"}
           /\ {"id", "createdAt"} \subseteq DOMAIN table.columns
           /\ table.unique \subseteq DOMAIN table.columns
           /\ \A index \in table.indexes : ToSet(index) \subseteq DOMAIN table.columns
           /\ table.rows \in Seq(ToSet(table.rows))
           /\ \A i \in DOMAIN table.rows : DOMAIN table.rows[i] = Stored(table.columns)
BY DEF IsTable, Stored

\* A statement that changes a table leaves a table.
LEMMA ChangedTable ==
  ASSUME NEW db, NEW s, Allowed(s), s.op \in ChangesTable, Exists(db, s.table),
         Applies(db, s), WellFormed(db), s.table \in DOMAIN db
  PROVE  /\ IsTable(Changed(db, s))
         /\ s.table \notin LiveTables =>
              Changed(db, s).columns = db[s.table].columns
         /\ s.table \in TokenTables =>
              /\ Changed(db, s).unique = {}
              /\ Changed(db, s).indexes \subseteq {<<"flowNodeInstanceId">>}
<1> DEFINE table == db[s.table]
           new == Changed(db, s)
<1>0. /\ DOMAIN table = {"columns", "unique", "indexes", "rows"}
      /\ {"id", "createdAt"} \subseteq DOMAIN table.columns
      /\ table.unique \subseteq DOMAIN table.columns
      /\ \A index \in table.indexes : ToSet(index) \subseteq DOMAIN table.columns
      /\ table.rows \in Seq(ToSet(table.rows))
      /\ \A i \in DOMAIN table.rows : DOMAIN table.rows[i] = Stored(table.columns)
      /\ s.table \in TokenTables =>
           table.unique = {} /\ table.indexes \subseteq {<<"flowNodeInstanceId">>}
  <2>1. IsTable(table)
    BY DEF WellFormed, IsDatabase
  <2>2. s.table \in TokenTables =>
          table.unique = {} /\ table.indexes \subseteq {<<"flowNodeInstanceId">>}
    BY DEF WellFormed, TokensFit, TokenTables
  <2> QED
    BY <2>1, <2>2, TableOf
<1> HIDE DEF table
<1>1. CASE s.op = "addColumn"
  <2>1. Changed(db, s) = [db[s.table] EXCEPT !.columns = With(@, s.column, s.type),
                            !.rows = [i \in DOMAIN @ |-> With(@[i], s.column, s.default)]]
    BY <1>1, Zenon DEF Changed, MapRows
  <2>2. s.column \notin DOMAIN table.columns /\ s.table \in LiveTables
    BY <1>1, AppliesBy DEF table, Allowed
  <2>3. /\ DOMAIN new = {"columns", "unique", "indexes", "rows"}
        /\ new.columns = With(table.columns, s.column, s.type)
        /\ new.rows = [i \in DOMAIN table.rows |-> With(table.rows[i], s.column, s.default)]
        /\ new.unique = table.unique /\ new.indexes = table.indexes
    BY <1>0, <2>1 DEF table
  <2>4. DOMAIN new.columns = DOMAIN table.columns \union {s.column}
        /\ new.columns["id"] = table.columns["id"]
    BY <1>0, <2>2, <2>3 DEF With
  <2>5. new.rows \in Seq(ToSet(new.rows)) /\ DOMAIN new.rows = DOMAIN table.rows
    BY <1>0, <2>3, MappedRows
  <2>6. \A i \in DOMAIN new.rows : DOMAIN new.rows[i] = Stored(new.columns)
    BY <1>0, <2>2, <2>3, <2>4, <2>5 DEF With, Stored
  <2> HIDE DEF new
  <2>7. IsTable(new)
    BY <1>0, <2>3, <2>4, <2>5, <2>6, TableOf
  <2> QED
    BY <1>0, <2>2, <2>3, <2>7 DEF new
<1>2. CASE s.op = "changeColumn"
  <2>1. Changed(db, s) = [db[s.table] EXCEPT !.columns[s.column] = s.type]
    BY <1>2, Zenon DEF Changed, MapRows
  <2>2. s.column # "id" /\ s.table \in LiveTables
    BY <1>2 DEF Allowed, ChangesTable
  <2>3. /\ DOMAIN new = {"columns", "unique", "indexes", "rows"}
        /\ new.columns = [table.columns EXCEPT ![s.column] = s.type]
        /\ new.rows = table.rows
        /\ new.unique = table.unique /\ new.indexes = table.indexes
    BY <1>0, <2>1 DEF table
  <2>4. DOMAIN new.columns = DOMAIN table.columns /\ new.columns["id"] = table.columns["id"]
    BY <1>0, <2>2, <2>3
  <2>5. Stored(new.columns) = Stored(table.columns)
    BY <2>4 DEF Stored
  <2> HIDE DEF new
  <2>6. IsTable(new)
    BY <1>0, <2>3, <2>4, <2>5, TableOf
  <2> QED
    BY <1>0, <2>2, <2>3, <2>6 DEF new
<1>3. CASE s.op = "removeColumn"
  <2>1. Changed(db, s) = [db[s.table] EXCEPT !.columns = Without(@, s.column),
                            !.rows = [i \in DOMAIN @ |-> Without(@[i], s.column)]]
    BY <1>3, Zenon DEF Changed, MapRows
  <2>2. /\ s.table = "ProcessTokens"
        /\ s.column \notin {"id", "createdAt", "flowNodeInstanceId"}
    BY <1>3 DEF Allowed
  <2>3. /\ DOMAIN new = {"columns", "unique", "indexes", "rows"}
        /\ new.columns = Without(table.columns, s.column)
        /\ new.rows = [i \in DOMAIN table.rows |-> Without(table.rows[i], s.column)]
        /\ new.unique = table.unique /\ new.indexes = table.indexes
    BY <1>0, <2>1 DEF table
  <2>4. DOMAIN new.columns = DOMAIN table.columns \ {s.column}
        /\ new.columns["id"] = table.columns["id"]
    BY <1>0, <2>2, <2>3 DEF Without
  <2>5. new.rows \in Seq(ToSet(new.rows)) /\ DOMAIN new.rows = DOMAIN table.rows
    BY <1>0, <2>3, MappedRows
  <2>6. \A i \in DOMAIN new.rows : DOMAIN new.rows[i] = Stored(new.columns)
    BY <1>0, <2>2, <2>3, <2>4, <2>5 DEF Without, Stored
  <2>7. \A index \in table.indexes : ToSet(index) \subseteq DOMAIN table.columns \ {s.column}
    <3>1. ToSet(<<"flowNodeInstanceId">>) = {"flowNodeInstanceId"}
      BY DEF ToSet
    <3> QED
      BY <1>0, <2>2, <3>1 DEF TokenTables
  <2> HIDE DEF new
  <2>8. IsTable(new)
    BY <1>0, <2>2, <2>3, <2>4, <2>5, <2>6, <2>7, TableOf DEF TokenTables
  <2> QED
    BY <1>0, <2>2, <2>3, <2>8, Names DEF new
<1>4. CASE s.op = "addIndex"
  <2>1. Changed(db, s) = [db[s.table] EXCEPT !.indexes = @ \union {s.columns}]
    BY <1>4, Zenon DEF Changed, MapRows
  <2>2. /\ ToSet(s.columns) \subseteq DOMAIN table.columns /\ s.table \in LiveTables
        /\ s.table = "ProcessTokens" => s.columns = <<"flowNodeInstanceId">>
    BY <1>4, AppliesBy DEF table, Allowed, ChangesTable
  <2>3. /\ DOMAIN new = {"columns", "unique", "indexes", "rows"}
        /\ new.columns = table.columns /\ new.rows = table.rows
        /\ new.unique = table.unique /\ new.indexes = table.indexes \union {s.columns}
    BY <1>0, <2>1 DEF table
  <2> HIDE DEF new
  <2>4. IsTable(new)
    BY <1>0, <2>2, <2>3, TableOf
  <2>5. s.table \in TokenTables => s.table = "ProcessTokens"
    BY <2>2, Names
  <2> QED
    BY <1>0, <2>2, <2>3, <2>4, <2>5 DEF new
<1>5. CASE s.op = "insertRow"
  <2>1. Changed(db, s) = [db[s.table] EXCEPT !.rows = Append(@, s.row)]
    BY <1>5, Zenon DEF Changed, MapRows
  <2>2. /\ s.table = "external_tasks_new" /\ s.table \notin TokenTables
        /\ DOMAIN s.row = DOMAIN MigratedTaskColumns
    BY <1>5 DEF Allowed, TokenTables
  <2>3. /\ DOMAIN new = {"columns", "unique", "indexes", "rows"}
        /\ new.columns = table.columns /\ new.rows = Append(table.rows, s.row)
        /\ new.unique = table.unique /\ new.indexes = table.indexes
    BY <1>0, <2>1 DEF table
  <2>4. table.columns = With(MigratedTaskColumns, "id", "INTEGER")
    BY <2>2, Names DEF WellFormed, TemporaryFits, table
  <2>5. DOMAIN s.row = Stored(table.columns)
    <3>1. "id" \notin DOMAIN MigratedTaskColumns
      BY Names, Migrated
    <3>2. /\ DOMAIN table.columns = DOMAIN MigratedTaskColumns \union {"id"}
          /\ table.columns["id"] = "INTEGER"
      BY <2>4 DEF With
    <3> QED
      BY <2>2, <3>1, <3>2 DEF Stored
  <2>6. new.rows \in Seq(ToSet(new.rows))
    <3>1. /\ DOMAIN new.rows = 1..(Len(table.rows) + 1) /\ Len(table.rows) + 1 \in Nat
          /\ new.rows = [i \in DOMAIN new.rows |-> new.rows[i]]
      BY <1>0, <2>3
    <3> QED
      BY <3>1, Sequence
  <2>7. \A i \in DOMAIN new.rows : DOMAIN new.rows[i] = Stored(table.columns)
    BY <1>0, <2>3, <2>5
  <2> HIDE DEF new
  <2>8. IsTable(new)
    BY <1>0, <2>3, <2>6, <2>7, TableOf
  <2> QED
    BY <2>2, <2>3, <2>8 DEF new, table
<1>6. CASE s.op = "setCell"
  <2>1. Changed(db, s) = [db[s.table] EXCEPT !.rows[s.position][s.column] = s.value]
    BY <1>6, Zenon DEF Changed, MapRows
  <2>2. s.table \in LiveTables
    BY <1>6 DEF Allowed, ChangesTable
  <2>3. /\ DOMAIN new = {"columns", "unique", "indexes", "rows"}
        /\ new.columns = table.columns
        /\ new.rows = [table.rows EXCEPT ![s.position][s.column] = s.value]
        /\ new.unique = table.unique /\ new.indexes = table.indexes
    BY <1>0, <2>1 DEF table
  <2>4. new.rows = [i \in DOMAIN table.rows |-> new.rows[i]]
    BY <2>3
  <2>5. new.rows \in Seq(ToSet(new.rows)) /\ DOMAIN new.rows = DOMAIN table.rows
    BY <1>0, <2>4, MappedRows
  <2>6. \A i \in DOMAIN table.rows : DOMAIN new.rows[i] = DOMAIN table.rows[i]
    BY <1>0, <2>3
  <2> HIDE DEF new
  <2>7. IsTable(new)
    BY <1>0, <2>3, <2>5, <2>6, TableOf
  <2> QED
    BY <1>0, <2>2, <2>3, <2>7 DEF new
<1>7. CASE s.op = "fillFrom"
  <2>1. Changed(db, s) = [db[s.table] EXCEPT !.rows = [i \in DOMAIN @ |-> Filled(db, s, @[i])]]
    BY <1>7, Zenon DEF Changed, MapRows
  <2>2. s.table \in LiveTables
    BY <1>7 DEF Allowed, ChangesTable
  <2>3. /\ DOMAIN new = {"columns", "unique", "indexes", "rows"}
        /\ new.columns = table.columns
        /\ new.rows = [i \in DOMAIN table.rows |-> Filled(db, s, table.rows[i])]
        /\ new.unique = table.unique /\ new.indexes = table.indexes
    BY <1>0, <2>1 DEF table
  <2>5. new.rows \in Seq(ToSet(new.rows)) /\ DOMAIN new.rows = DOMAIN table.rows
    BY <1>0, <2>3, MappedRows
  <2>6. \A i \in DOMAIN table.rows : DOMAIN new.rows[i] = DOMAIN table.rows[i]
    BY <1>0, <2>3 DEF Filled
  <2> HIDE DEF new
  <2>7. IsTable(new)
    BY <1>0, <2>3, <2>5, <2>6, TableOf
  <2> QED
    BY <1>0, <2>2, <2>3, <2>7 DEF new
<1> QED
  BY <1>1, <1>2, <1>3, <1>4, <1>5, <1>6, <1>7 DEF ChangesTable

-----------------------------------------------------------------------------
(* What a statement does to the database.                                  *)

\* The effect of a statement, operation by operation.
LEMMA AfterBy ==
  ASSUME NEW db, NEW s
  PROVE  /\ s.op \in {"describeTable", "select"} => After(db, s) = db
         /\ s.op = "createTable" => After(db, s) =
              IF Exists(db, s.table) THEN db
              ELSE With(db, s.table, [columns |-> s.columns, unique |-> s.unique,
                                      indexes |-> {}, rows |-> <<>>])
         /\ s.op = "dropTable" => After(db, s) = Without(db, s.table)
         /\ s.op = "renameTable" =>
              After(db, s) = With(Without(db, s.table), s.to, db[s.table])
         /\ s.op = "copyRows" => After(db, s) =
              [db EXCEPT ![s.to].rows =
                 @ \o [i \in DOMAIN db[s.table].rows |->
                         [c \in s.columns |-> db[s.table].rows[i][c]]]]
         /\ s.op \in ChangesTable =>
              After(db, s) = [db EXCEPT ![s.table] = Changed(db, s)]
<1>1. s.op \in {"describeTable", "select"} => After(db, s) = db
  BY Zenon DEF After
<1>2. s.op = "createTable" => After(db, s) =
        IF Exists(db, s.table) THEN db
        ELSE With(db, s.table, [columns |-> s.columns, unique |-> s.unique,
                                indexes |-> {}, rows |-> <<>>])
  BY Zenon DEF After
<1>3. s.op = "dropTable" => After(db, s) = Without(db, s.table)
  BY Zenon DEF After
<1>4. s.op = "renameTable" =>
        After(db, s) = With(Without(db, s.table), s.to, db[s.table])
  BY Zenon DEF After
<1>5. s.op = "copyRows" => After(db, s) =
        [db EXCEPT ![s.to].rows =
           @ \o [i \in DOMAIN db[s.table].rows |->
                   [c \in s.columns |-> db[s.table].rows[i][c]]]]
  BY Zenon DEF After, MapRows
<1>6. s.op \in ChangesTable => After(db, s) = [db EXCEPT ![s.table] = Changed(db, s)]
  BY Zenon DEF After, ChangesTable
<1> QED
  BY <1>1, <1>2, <1>3, <1>4, <1>5, <1>6

\* A database remains well formed if the tables it is changed in are.
LEMMA OneTable ==
  ASSUME NEW db, WellFormed(db), NEW after, NEW x \in TableNames,
         DOMAIN after \subseteq DOMAIN db \union {x},
         \A y \in DOMAIN after \ {x} : after[y] = db[y],
         x \in DOMAIN after =>
           /\ IsTable(after[x])
           /\ \A t \in Rebuilt : x = TemporaryOf[t] =>
                after[x].columns = With(MigratedColumns[t], "id", "INTEGER")
           /\ x \in TokenTables =>
                after[x].unique = {} /\ after[x].indexes \subseteq {<<"flowNodeInstanceId">>}
  PROVE  WellFormed(after)
<1>1. IsDatabase(after)
  BY DEF WellFormed, IsDatabase
<1>2. TemporaryFits(after)
  BY DEF WellFormed, TemporaryFits, Exists
<1>3. TokensFit(after)
  BY DEF WellFormed, TokensFit, TokenTables, Exists
<1> QED
  BY <1>1, <1>2, <1>3 DEF WellFormed

\* Rows that are copied fit the table they are copied to.
LEMMA CopiedRows ==
  ASSUME NEW db, NEW t \in Rebuilt, WellFormed(db), Exists(db, t),
         Exists(db, TemporaryOf[t]), HasColumns(db, t, DOMAIN MigratedColumns[t]),
         NEW rows, rows = db[TemporaryOf[t]].rows \o
           [i \in DOMAIN db[t].rows |->
              [c \in DOMAIN MigratedColumns[t] |-> db[t].rows[i][c]]]
  PROVE  IsTable([db[TemporaryOf[t]] EXCEPT !.rows = rows])
<1> DEFINE from == db[t].rows
           old == db[TemporaryOf[t]]
           brought == [i \in DOMAIN from |-> [c \in DOMAIN MigratedColumns[t] |-> from[i][c]]]
           new == [old EXCEPT !.rows = rows]
<1>1. IsTable(db[t]) /\ IsTable(old)
  BY DEF WellFormed, IsDatabase, Exists
<1>2. from \in Seq(ToSet(from)) /\ old.rows \in Seq(ToSet(old.rows))
  BY <1>1, TableOf
<1>3. brought \in Seq(ToSet(brought))
  <2>1. DOMAIN brought = 1..Len(from) /\ Len(from) \in Nat
    BY <1>2
  <2>2. brought = [i \in 1..Len(from) |-> brought[i]]
    BY <2>1
  <2> QED
    BY ONLY <2>1, <2>2, Sequence
<1>4. Stored(old.columns) = DOMAIN MigratedColumns[t]
  <2>1. old.columns = With(MigratedColumns[t], "id", "INTEGER")
    BY DEF WellFormed, TemporaryFits
  <2> QED
    BY <2>1, Migrated DEF With, Stored
<1>5. \A i \in DOMAIN brought : DOMAIN brought[i] = Stored(old.columns)
  BY <1>4
<1>6. \A i \in DOMAIN old.rows : DOMAIN old.rows[i] = Stored(old.columns)
  BY <1>1, TableOf
<1> HIDE DEF brought
<1>7. rows = old.rows \o brought
  BY DEF brought
<1> DEFINE first == old.rows
<1>8. /\ rows \in Seq(ToSet(rows))
      /\ ToSet(rows) = ToSet(first) \union ToSet(brought)
  <2>1. IsSequence(first) /\ IsSequence(brought)
    BY <1>2, <1>3 DEF IsSequence
  <2>2. rows = first \o brought
    BY <1>7
  <2> HIDE DEF first
  <2>3. IsSequence(rows) /\ ToSet(rows) = ToSet(first) \union ToSet(brought)
    BY ONLY <2>1, <2>2, Concatenated
  <2> QED
    BY <2>3 DEF IsSequence
<1>9. rows \in Seq(ToSet(rows))
  BY <1>8
<1>10. \A i \in DOMAIN rows : DOMAIN rows[i] = Stored(old.columns)
  <2>1. \A row \in ToSet(first) \union ToSet(brought) : DOMAIN row = Stored(old.columns)
    BY <1>5, <1>6 DEF ToSet
  <2>2. \A i \in DOMAIN rows : rows[i] \in ToSet(rows)
    BY DEF ToSet
  <2> QED
    BY ONLY <1>8, <2>1, <2>2
<1>11. /\ DOMAIN new = {"columns", "unique", "indexes", "rows"}
       /\ new.columns = old.columns /\ new.unique = old.unique
       /\ new.indexes = old.indexes /\ new.rows = rows
  BY <1>1, TableOf
<1> HIDE DEF new
<1>12. IsTable(new)
  BY <1>1, <1>9, <1>10, <1>11, TableOf
<1> QED
  BY <1>12 DEF new

\* A statement that succeeds leaves a well formed database.
LEMMA AfterWellFormed ==
  ASSUME NEW db, NEW s, WellFormed(db), Allowed(s), Succeeds(db, s)
  PROVE  WellFormed(After(db, s))
<1>1. CASE s.op \in {"describeTable", "select"}
  BY <1>1, AfterBy
<1>2. CASE s.op = "createTable"
  <2> DEFINE new == [columns |-> s.columns, unique |-> s.unique, indexes |-> {},
                     rows |-> <<>>]
  <2>1. After(db, s) = IF Exists(db, s.table) THEN db ELSE With(db, s.table, new)
    BY <1>2, AfterBy
  <2>2. IsTable(new)
    <3>1. {"id", "createdAt"} \subseteq DOMAIN s.columns /\ s.unique \subseteq DOMAIN s.columns
      BY <1>2 DEF Allowed
    <3>2. <<>> \in Seq(ToSet(<<>>)) /\ DOMAIN <<>> = {}
      BY DEF ToSet
    <3> QED
      BY <3>1, <3>2 DEF IsTable
  <2>3. WellFormed(With(db, s.table, new))
    <3>1. /\ s.table \in TableNames
          /\ \A t \in Rebuilt : s.table = TemporaryOf[t] =>
               new.columns = With(MigratedColumns[t], "id", "INTEGER")
          /\ s.table \in TokenTables => new.unique = {}
          /\ new.indexes = {}
      BY <1>2 DEF Allowed
    <3> HIDE DEF new
    <3>2. /\ DOMAIN With(db, s.table, new) = DOMAIN db \union {s.table}
          /\ With(db, s.table, new)[s.table] = new
          /\ \A y \in DOMAIN db \ {s.table} : With(db, s.table, new)[y] = db[y]
      BY DEF With
    <3> QED
      BY <2>2, <3>1, <3>2, OneTable
  <2> QED
    BY <2>1, <2>3
<1>3. CASE s.op = "dropTable"
  <2>1. After(db, s) = Without(db, s.table)
    BY <1>3, AfterBy
  <2> QED
    BY <2>1 DEF Without, WellFormed, IsDatabase, TemporaryFits, TokensFit, Exists
<1>4. CASE s.op = "renameTable"
  <2>1. After(db, s) = With(Without(db, s.table), s.to, db[s.table])
    BY <1>4, AfterBy
  <2>2. PICK t \in Rebuilt : s.table = TemporaryOf[t] /\ s.to = t
    BY <1>4 DEF Allowed
  <2>3. Exists(db, s.table)
    BY <1>4 DEF Succeeds
  <2>4. WellFormed(Without(db, s.table))
    BY DEF Without, WellFormed, IsDatabase, TemporaryFits, TokensFit, Exists
  <2>5. IsTable(db[s.table])
    BY <2>3 DEF WellFormed, IsDatabase, Exists
  <2>6. t \in TokenTables =>
          /\ db[s.table].unique = {}
          /\ db[s.table].indexes \subseteq {<<"flowNodeInstanceId">>}
    <3>1. t \in TokenTables => s.table \in TokenTables
      BY <2>2, Names
    <3> QED
      BY <2>3, <3>1 DEF WellFormed, TokensFit, TokenTables
  <2>7. \A u \in Rebuilt : t # TemporaryOf[u]
    BY Names
  <2>8. /\ DOMAIN With(Without(db, s.table), t, db[s.table])
             = DOMAIN Without(db, s.table) \union {t}
        /\ With(Without(db, s.table), t, db[s.table])[t] = db[s.table]
        /\ \A y \in DOMAIN Without(db, s.table) \ {t} :
             With(Without(db, s.table), t, db[s.table])[y] = Without(db, s.table)[y]
    BY DEF With
  <2>9. WellFormed(With(Without(db, s.table), t, db[s.table]))
    BY <2>4, <2>5, <2>6, <2>7, <2>8, Names, OneTable
  <2> QED
    BY <2>1, <2>2, <2>9
<1>5. CASE s.op = "copyRows"
  <2>1. PICK t \in Rebuilt : /\ s.table = t /\ s.to = TemporaryOf[t]
                             /\ s.columns = DOMAIN MigratedColumns[t]
    BY <1>5 DEF Allowed
  <2> DEFINE rows == db[TemporaryOf[t]].rows \o
               [i \in DOMAIN db[t].rows |->
                  [c \in DOMAIN MigratedColumns[t] |-> db[t].rows[i][c]]]
             new == [db[TemporaryOf[t]] EXCEPT !.rows = rows]
  <2>2. After(db, s) = [db EXCEPT ![TemporaryOf[t]] = new]
    <3> DEFINE brought == [i \in DOMAIN db[t].rows |->
                             [c \in DOMAIN MigratedColumns[t] |-> db[t].rows[i][c]]]
               held == db[TemporaryOf[t]]
    <3>1. After(db, s) = [db EXCEPT ![s.to].rows =
              @ \o [i \in DOMAIN db[s.table].rows |->
                      [c \in s.columns |-> db[s.table].rows[i][c]]]]
      BY <1>5, AfterBy
    <3>2. After(db, s) = [db EXCEPT ![TemporaryOf[t]].rows = @ \o brought]
      <4>1. TemporaryOf[t] = s.to /\ t = s.table /\ DOMAIN MigratedColumns[t] = s.columns
        BY <2>1
      <4>2. brought = [i \in DOMAIN db[s.table].rows |->
                        [c \in s.columns |-> db[s.table].rows[i][c]]]
        BY ONLY <4>1, Zenon
      <4> HIDE DEF brought
      <4> QED
        BY ONLY <3>1, <4>1, <4>2, Zenon
    <3>3. new = [held EXCEPT !.rows = held.rows \o brought]
      BY Zenon
    <3> HIDE DEF brought, new
    <3> QED
      BY ONLY <3>2, <3>3
  <2>3. /\ Exists(db, t) /\ Exists(db, TemporaryOf[t])
        /\ HasColumns(db, t, DOMAIN MigratedColumns[t])
    <3>1. Exists(db, t) /\ Applies(db, s)
      BY <1>5, <2>1 DEF Succeeds
    <3>2. /\ HasColumns(db, t, DOMAIN MigratedColumns[t])
          /\ HasColumns(db, TemporaryOf[t], DOMAIN MigratedColumns[t])
      BY <1>5, <2>1, <3>1, AppliesBy
    <3> QED
      BY <3>1, <3>2, Migrated DEF HasColumns, HasColumn
  <2>4. IsTable(new)
    BY <2>3, CopiedRows
  <2>5. /\ new.columns = db[TemporaryOf[t]].columns
        /\ new.unique = db[TemporaryOf[t]].unique
        /\ new.indexes = db[TemporaryOf[t]].indexes
    <3>1. IsTable(db[TemporaryOf[t]])
      BY <2>3 DEF WellFormed, IsDatabase, Exists
    <3> HIDE DEF rows
    <3> QED
      BY <3>1 DEF IsTable
  <2> HIDE DEF new
  <2>6. \A u \in Rebuilt : TemporaryOf[t] = TemporaryOf[u] =>
          new.columns = With(MigratedColumns[u], "id", "INTEGER")
    BY <2>3, <2>5, Names DEF WellFormed, TemporaryFits
  <2>7. TemporaryOf[t] \in TokenTables =>
          new.unique = {} /\ new.indexes \subseteq {<<"flowNodeInstanceId">>}
    BY <2>3, <2>5 DEF WellFormed, TokensFit, TokenTables
  <2> DEFINE after == [db EXCEPT ![TemporaryOf[t]] = new]
  <2>8. WellFormed(after)
    <3>1. /\ DOMAIN after = DOMAIN db /\ after[TemporaryOf[t]] = new
          /\ \A y \in DOMAIN db \ {TemporaryOf[t]} : after[y] = db[y]
      BY <2>3 DEF Exists
    <3> HIDE DEF after
    <3> QED
      BY <2>4, <2>6, <2>7, <3>1, Names, OneTable
  <2> QED
    BY <2>2, <2>8
<1>6. CASE s.op \in ChangesTable
  <2> DEFINE new == Changed(db, s)
  <2>1. After(db, s) = [db EXCEPT ![s.table] = new]
    BY <1>6, AfterBy
  <2>2. Exists(db, s.table) /\ Applies(db, s) /\ s.table \in DOMAIN db
    BY <1>6 DEF Succeeds, ChangesTable, Exists
  <2>3. /\ IsTable(new)
        /\ s.table \notin LiveTables => new.columns = db[s.table].columns
        /\ s.table \in TokenTables =>
             new.unique = {} /\ new.indexes \subseteq {<<"flowNodeInstanceId">>}
    BY <1>6, <2>2, ChangedTable
  <2> HIDE DEF new
  <2>4. \A u \in Rebuilt : s.table = TemporaryOf[u] =>
          new.columns = With(MigratedColumns[u], "id", "INTEGER")
    BY <2>2, <2>3, Names DEF WellFormed, TemporaryFits
  <2>5. s.table \in TableNames
    BY <2>2 DEF WellFormed, IsDatabase
  <2> DEFINE after == [db EXCEPT ![s.table] = new]
  <2>6. WellFormed(after)
    <3>1. /\ DOMAIN after = DOMAIN db /\ after[s.table] = new
          /\ \A y \in DOMAIN db \ {s.table} : after[y] = db[y]
      BY <2>2
    <3> HIDE DEF after
    <3> QED
      BY <2>3, <2>4, <2>5, <3>1, OneTable
  <2> QED
    BY <2>1, <2>6
<1> QED
  BY <1>1, <1>2, <1>3, <1>4, <1>5, <1>6 DEF Allowed, Operations

-----------------------------------------------------------------------------
(* The statements of the scripts.                                          *)

\* A plan moves no rows.
IsPlan(p) == IsSequence(p) /\ \A i \in DOMAIN p : Fits(p[i])

Copying(s, t) == s.op = "copyRows" /\ s.table = t
Replacing(s, t) == s.op = "renameTable" /\ s.to = t

\* A script that moves rows drops no table but one whose rows the statement
\* before has copied, and copies those of a table once, to one that will replace
\* it.
Drops(p, i) ==
  /\ Allowed(p[i]) /\ p[i].op = "dropTable" /\ IsAwaited(p[i])
  /\ p[i].table \notin TaskTables
  /\ i > 1 /\ p[i - 1].op = "copyRows" /\ p[i - 1].table = p[i].table

CopiesOnce(p, i) ==
  /\ Allowed(p[i]) /\ p[i].op = "copyRows" /\ p[i].table \notin TaskTables
  /\ \E j \in DOMAIN p : j > i /\ Replacing(p[j], p[i].table)
  /\ \A j \in DOMAIN p : /\ Copying(p[j], p[i].table) => j = i
                         /\ Replacing(p[j], p[i].table) => j > i

Renames(s) == Allowed(s) /\ s.op = "renameTable" /\ s.table \notin TaskTables

\* The rows it moves are those of some tables.
IsMove(p, tables) ==
  /\ IsSequence(p)
  /\ \A i \in DOMAIN p : \/ Fits(p[i])
                         \/ Drops(p, i)
                         \/ CopiesOnce(p, i) /\ p[i].table \in tables
                         \/ Renames(p[i]) /\ p[i].to \in tables

\* What is left of a plan at any time.
IsRest(p) == IsSequence(p) /\ \A s \in ToSet(p) : Allowed(s)

\* A plan is left as a whole when its script starts.
LEMMA PlanIsRest == ASSUME NEW p, IsPlan(p) PROVE IsRest(p)
BY DEF IsPlan, IsRest, Fits, ToSet

\* So is a script that moves rows.
LEMMA MoveIsRest == ASSUME NEW p, NEW tables, IsMove(p, tables) PROVE IsRest(p)
BY DEF IsMove, IsRest, Fits, Drops, CopiesOnce, Renames, ToSet

\* A plan moves the rows of no table, and so of none but any given ones.
LEMMA PlanIsMove ==
  ASSUME NEW p, IsPlan(p) PROVE \A tables : IsMove(p, tables)
BY DEF IsPlan, IsMove

\* What moves the rows of some tables moves those of no others.
LEMMA MoveOfMore ==
  ASSUME NEW p, NEW tables, NEW more, IsMove(p, tables), tables \subseteq more
  PROVE  IsMove(p, more)
BY DEF IsMove

\* A tuple of statements that fit is a plan.
LEMMA PlanBy ==
  ASSUME NEW p, NEW n \in Nat, DOMAIN p = 1..n, p = [i \in 1..n |-> p[i]],
         \A i \in 1..n : Fits(p[i])
  PROVE  IsPlan(p)
BY Sequence DEF IsPlan, IsSequence, ToSet

\* A tuple of allowed statements may be left of a script.
LEMMA RestBy ==
  ASSUME NEW p, NEW n \in Nat, DOMAIN p = 1..n, p = [i \in 1..n |-> p[i]],
         \A i \in 1..n : Allowed(p[i])
  PROVE  IsRest(p)
BY Sequence DEF IsRest, IsSequence, ToSet

\* A script may return at once.
LEMMA NoPlan == IsPlan(<<>>) /\ IsRest(<<>>)
BY DEF IsPlan, IsRest, IsSequence, ToSet

\* A plan of one statement.
LEMMA PlanOf1 == ASSUME NEW a, Fits(a) PROVE IsPlan(<<a>>)
<1> DEFINE p == <<a>>
<1>1. DOMAIN p = 1..1 /\ p = [i \in 1..1 |-> p[i]] /\ \A i \in 1..1 : Fits(p[i])
  OBVIOUS
<1> HIDE DEF p
<1>2. IsPlan(p)
  BY <1>1, PlanBy
<1> QED
  BY <1>2 DEF p

\* One allowed statement may be left of a script.
LEMMA RestOf1 == ASSUME NEW a, Allowed(a) PROVE IsRest(<<a>>)
<1> DEFINE p == <<a>>
<1>1. DOMAIN p = 1..1 /\ p = [i \in 1..1 |-> p[i]] /\ \A i \in 1..1 : Allowed(p[i])
  OBVIOUS
<1> HIDE DEF p
<1>2. IsRest(p)
  BY <1>1, RestBy
<1> QED
  BY <1>2 DEF p

\* Where the elements of two sequences are in the one they are joined to.
LEMMA Places ==
  ASSUME NEW p, NEW q, NEW r, IsSequence(p), IsSequence(q), r = p \o q
  PROVE  /\ Len(p) \in Nat /\ DOMAIN p = 1..Len(p)
         /\ Len(q) \in Nat /\ DOMAIN q = 1..Len(q)
         /\ DOMAIN r = 1..(Len(p) + Len(q))
         /\ \A i \in 1..(Len(p) + Len(q)) :
              r[i] = IF i <= Len(p) THEN p[i] ELSE q[i - Len(p)]
<1> DEFINE S == ToSet(p) \union ToSet(q)
<1>1. p \in Seq(S) /\ q \in Seq(S)
  BY DEF IsSequence
<1> HIDE DEF S
<1> QED
  BY <1>1

\* One plan after the other is a plan.
LEMMA PlanJoined ==
  ASSUME NEW p, NEW q, IsPlan(p), IsPlan(q) PROVE IsPlan(p \o q)
<1> DEFINE r == p \o q
<1>1. IsSequence(r) /\ ToSet(r) = ToSet(p) \union ToSet(q)
  BY Concatenated DEF IsPlan
<1>2. \A s \in ToSet(p) \union ToSet(q) : Fits(s)
  BY DEF IsPlan, ToSet
<1> HIDE DEF r
<1>3. \A i \in DOMAIN r : r[i] \in ToSet(r)
  BY DEF ToSet
<1>4. IsPlan(r)
  BY <1>1, <1>2, <1>3 DEF IsPlan
<1> QED
  BY <1>4 DEF r

\* One move after the other is a move, if they move the rows of different tables.
LEMMA MoveJoined ==
  ASSUME NEW p, NEW q, NEW T, NEW U, IsMove(p, T), IsMove(q, U), T \intersect U = {}
  PROVE  IsMove(p \o q, T \union U)
<1> DEFINE r == p \o q
<1>1. IsSequence(p) /\ IsSequence(q)
  BY DEF IsMove
<1>2. IsSequence(r)
  BY <1>1, Concatenated
<1>3. /\ Len(p) \in Nat /\ DOMAIN p = 1..Len(p)
      /\ Len(q) \in Nat /\ DOMAIN q = 1..Len(q)
      /\ DOMAIN r = 1..(Len(p) + Len(q))
      /\ \A i \in 1..(Len(p) + Len(q)) :
           r[i] = IF i <= Len(p) THEN p[i] ELSE q[i - Len(p)]
  BY <1>1, Places
<1> DEFINE m == Len(p)
<1> HIDE DEF r, m
<1>4. /\ \A i \in DOMAIN p : i \in DOMAIN r /\ r[i] = p[i] /\ i <= m
      /\ \A i \in DOMAIN q : m + i \in DOMAIN r /\ r[m + i] = q[i] /\ m + i > m
      /\ \A i \in DOMAIN r : i \in DOMAIN p \/ \E j \in DOMAIN q : i = m + j
      /\ DOMAIN p \subseteq Nat /\ DOMAIN q \subseteq Nat /\ m \in Nat
  <2>1. ASSUME NEW i \in DOMAIN p PROVE i \in DOMAIN r /\ r[i] = p[i] /\ i <= m
    BY ONLY <1>3, i \in DOMAIN p DEF m
  <2>2. ASSUME NEW i \in DOMAIN q
        PROVE  m + i \in DOMAIN r /\ r[m + i] = q[i] /\ m + i > m
    BY ONLY <1>3, i \in DOMAIN q DEF m
  <2>3. ASSUME NEW i \in DOMAIN r
        PROVE  i \in DOMAIN p \/ \E j \in DOMAIN q : i = m + j
    <3>1. CASE i <= m
      BY ONLY <1>3, <3>1, i \in DOMAIN r DEF m
    <3>2. CASE ~(i <= m)
      <4>1. i - m \in DOMAIN q /\ i = m + (i - m)
        BY ONLY <1>3, <3>2, i \in DOMAIN r DEF m
      <4> QED
        BY <4>1
    <3> QED
      BY <3>1, <3>2
  <2>4. DOMAIN p \subseteq Nat /\ DOMAIN q \subseteq Nat /\ m \in Nat
    BY ONLY <1>3 DEF m
  <2> QED
    BY ONLY <2>1, <2>2, <2>3, <2>4
<1>5. /\ \A i \in DOMAIN p : \A t : Copying(p[i], t) \/ Replacing(p[i], t) => t \in T
      /\ \A i \in DOMAIN q : \A t : Copying(q[i], t) \/ Replacing(q[i], t) => t \in U
  BY DEF IsMove, Fits, Drops, CopiesOnce, Renames, Copying, Replacing
<1>6. ASSUME NEW i \in DOMAIN p
      PROVE  /\ Drops(p, i) => Drops(r, i)
             /\ CopiesOnce(p, i) /\ p[i].table \in T => CopiesOnce(r, i)
  <2>1. Drops(p, i) => Drops(r, i)
    <3>1. r[i] = p[i] /\ (i > 1 => r[i - 1] = p[i - 1])
      BY ONLY <1>3, i \in DOMAIN p
    <3> QED
      BY <3>1 DEF Drops
  <2>2. ASSUME CopiesOnce(p, i), p[i].table \in T PROVE CopiesOnce(r, i)
    <3> DEFINE t == p[i].table
    <3>1. PICK j \in DOMAIN p : j > i /\ Replacing(p[j], t)
      BY <2>2 DEF CopiesOnce
    <3>2. j \in DOMAIN r /\ j > i /\ Replacing(r[j], t)
      BY <1>4, <3>1
    <3>3. ASSUME NEW k \in DOMAIN r
          PROVE  (Copying(r[k], t) => k = i) /\ (Replacing(r[k], t) => k > i)
      <4>1. CASE k \in DOMAIN p
        BY <1>4, <2>2, <4>1 DEF CopiesOnce
      <4>2. CASE \E l \in DOMAIN q : k = m + l
        BY <1>4, <1>5, <2>2, <4>2
      <4> QED
        BY <1>4, <4>1, <4>2
    <3> QED
      BY <1>4, <2>2, <3>2, <3>3 DEF CopiesOnce
  <2> QED
    BY <2>1, <2>2
<1>7. ASSUME NEW i \in DOMAIN q
      PROVE  /\ Drops(q, i) => Drops(r, m + i)
             /\ CopiesOnce(q, i) /\ q[i].table \in U => CopiesOnce(r, m + i)
  <2>1. Drops(q, i) => Drops(r, m + i)
    <3> DEFINE k == m + i
    <3>1. r[k] = q[i] /\ (i > 1 => k > 1 /\ r[k - 1] = q[i - 1])
      BY ONLY <1>3, i \in DOMAIN q DEF m
    <3> HIDE DEF k
    <3>2. Drops(q, i) => Drops(r, k)
      BY <3>1 DEF Drops
    <3> QED
      BY <3>2 DEF k
  <2>2. ASSUME CopiesOnce(q, i), q[i].table \in U PROVE CopiesOnce(r, m + i)
    <3> DEFINE t == q[i].table
    <3>1. PICK j \in DOMAIN q : j > i /\ Replacing(q[j], t)
      BY <2>2 DEF CopiesOnce
    <3>2. m + j \in DOMAIN r /\ m + j > m + i /\ Replacing(r[m + j], t)
      BY <1>4, <3>1
    <3>3. ASSUME NEW k \in DOMAIN r
          PROVE  (Copying(r[k], t) => k = m + i) /\ (Replacing(r[k], t) => k > m + i)
      <4>1. CASE k \in DOMAIN p
        BY <1>4, <1>5, <2>2, <4>1
      <4>2. ASSUME NEW l \in DOMAIN q, k = m + l
            PROVE  (Copying(r[k], t) => k = m + i) /\ (Replacing(r[k], t) => k > m + i)
        <5>1. r[k] = q[l]
          BY <1>4, <4>2
        <5>2. (Copying(q[l], t) => l = i) /\ (Replacing(q[l], t) => l > i)
          BY <2>2 DEF CopiesOnce
        <5>3. l > i => k > m + i
          BY <1>4, <4>2
        <5> QED
          BY <4>2, <5>1, <5>2, <5>3
      <4> QED
        BY <1>4, <4>1, <4>2
    <3> QED
      BY <1>4, <2>2, <3>2, <3>3 DEF CopiesOnce
  <2> QED
    BY <2>1, <2>2
<1>8. ASSUME NEW i \in DOMAIN r
      PROVE  \/ Fits(r[i]) \/ Drops(r, i)
             \/ CopiesOnce(r, i) /\ r[i].table \in T \union U
             \/ Renames(r[i]) /\ r[i].to \in T \union U
  <2>1. CASE i \in DOMAIN p
    BY <1>4, <1>6, <2>1 DEF IsMove
  <2>2. CASE \E j \in DOMAIN q : i = m + j
    BY <1>4, <1>7, <2>2 DEF IsMove
  <2> QED
    BY <1>4, <2>1, <2>2
<1>9. IsMove(r, T \union U)
  BY <1>2, <1>8 DEF IsMove
<1> QED
  BY <1>9 DEF r

\* One rest before the other is a rest.
LEMMA RestJoined ==
  ASSUME NEW p, NEW q, IsRest(p), IsRest(q) PROVE IsRest(p \o q)
<1> DEFINE r == p \o q
<1>1. IsSequence(r) /\ ToSet(r) = ToSet(p) \union ToSet(q)
  BY Concatenated DEF IsRest
<1> QED
  BY <1>1 DEF IsRest

\* What is left of a sequence without its head.
LEMMA TailOf ==
  ASSUME NEW p, IsSequence(p), p # <<>>
  PROVE  /\ Len(p) \in Nat /\ Len(p) > 0 /\ DOMAIN p = 1..Len(p) /\ Head(p) = p[1]
         /\ DOMAIN Tail(p) = 1..(Len(p) - 1)
         /\ \A i \in 1..(Len(p) - 1) : Tail(p)[i] = p[i + 1]
         /\ IsSequence(Tail(p))
<1> DEFINE S == ToSet(p)
           t == Tail(p)
<1>1. p \in Seq(S)
  BY DEF IsSequence
<1> HIDE DEF S
<1>2. /\ Len(p) \in Nat /\ Len(p) > 0 /\ DOMAIN p = 1..Len(p) /\ Head(p) = p[1]
      /\ DOMAIN t = 1..(Len(p) - 1) /\ t \in Seq(S)
      /\ \A i \in 1..(Len(p) - 1) : t[i] = p[i + 1]
  BY <1>1
<1> HIDE DEF t
<1>3. t = [i \in 1..(Len(p) - 1) |-> t[i]] /\ Len(p) - 1 \in Nat
  BY ONLY <1>2
<1>4. IsSequence(t)
  BY ONLY <1>2, <1>3, Sequence DEF IsSequence
<1> QED
  BY <1>2, <1>4 DEF t

\* The next statement of a rest is allowed, and leaves a rest.
LEMMA RestTail ==
  ASSUME NEW p, IsRest(p), p # <<>>
  PROVE  Allowed(Head(p)) /\ IsRest(Tail(p))
<1>1. /\ Len(p) \in Nat /\ Len(p) > 0 /\ DOMAIN p = 1..Len(p) /\ Head(p) = p[1]
      /\ DOMAIN Tail(p) = 1..(Len(p) - 1)
      /\ \A i \in 1..(Len(p) - 1) : Tail(p)[i] = p[i + 1]
      /\ IsSequence(Tail(p))
  BY TailOf DEF IsRest
<1>2. \A i \in 1..Len(p) : Allowed(p[i])
  BY <1>1 DEF IsRest, ToSet
<1>3. \A i \in 1..(Len(p) - 1) : Allowed(Tail(p)[i])
  BY <1>1, <1>2
<1>4. Allowed(Head(p))
  BY <1>1, <1>2
<1> HIDE DEF Allowed
<1>5. IsRest(Tail(p))
  BY <1>1, <1>3 DEF IsRest, ToSet
<1> QED
  BY <1>4, <1>5

\* The statements that fit whatever they name.
LEMMA FitsAnywhere ==
  ASSUME NEW table
  PROVE  /\ Fits(DescribeTable(table))
         /\ Allowed(Select("ExternalTasks", "copy tasks"))
         /\ table \in Rebuilt => Allowed(DropTable(table)) /\ IsAwaited(DropTable(table))
         /\ Allowed(NotAwaited(DropTable("external_tasks_new")))
BY DEF Fits, Allowed, DescribeTable, Select, DropTable, NotAwaited, With, Operations,
       ChangesTable, IsCaught, IsAwaited

\* A table created with an id and a createdAt is allowed.
LEMMA FitsCreate ==
  ASSUME NEW table, NEW columns, NEW unique,
         table \in TableNames, {"id", "createdAt"} \subseteq DOMAIN columns,
         unique \subseteq DOMAIN columns,
         \A t \in Rebuilt : table = TemporaryOf[t] =>
           columns = With(MigratedColumns[t], "id", "INTEGER"),
         table \in TokenTables => unique = {}
  PROVE  /\ Allowed(CreateTable(table, columns, unique))
         /\ table \notin TaskTables => Fits(CreateTable(table, columns, unique))
BY DEF Fits, Allowed, CreateTable, Operations, ChangesTable, IsCaught, IsAwaited

\* Columns whose values are not kept may be added, changed and removed.
LEMMA FitsColumns ==
  ASSUME NEW table \in LiveTables, NEW column, NEW type, NEW default
  PROVE  /\ column \notin KeptColumns[table] => Fits(AddColumn(table, column, type, default))
         /\ column \notin {"id", "createdAt"} => Fits(ChangeColumn(table, column, type))
         /\ table = "ProcessTokens" /\ column \notin KeptColumns[table]
              /\ column \notin {"id", "createdAt", "flowNodeInstanceId"} =>
              Fits(RemoveColumn(table, column))
<1>1. column \notin KeptColumns[table] => Fits(AddColumn(table, column, type, default))
  BY DEF Fits, Allowed, AddColumn, Operations, ChangesTable, IsCaught, IsAwaited
<1>2. column \notin {"id", "createdAt"} => Fits(ChangeColumn(table, column, type))
  BY DEF Fits, Allowed, ChangeColumn, Operations, ChangesTable, IsCaught, IsAwaited
<1>3. table = "ProcessTokens" /\ column \notin KeptColumns[table]
        /\ column \notin {"id", "createdAt", "flowNodeInstanceId"} =>
        Fits(RemoveColumn(table, column))
  <2> DEFINE s == RemoveColumn(table, column)
  <2>1. /\ s.op = "removeColumn" /\ s.table = table /\ s.column = column
        /\ "caught" \notin DOMAIN s /\ "awaited" \notin DOMAIN s
    BY DEF RemoveColumn
  <2> HIDE DEF s
  <2>2. table = "ProcessTokens" /\ column \notin KeptColumns[table]
          /\ column \notin {"id", "createdAt", "flowNodeInstanceId"} => Fits(s)
    BY <2>1 DEF Fits, Allowed, Operations, ChangesTable, IsCaught, IsAwaited
  <2> QED
    BY <2>2 DEF s
<1> QED
  BY <1>1, <1>2, <1>3

\* A sequence of indexes is a plan.
LEMMA FitsIndexes ==
  ASSUME NEW table \in LiveTables, NEW indexes, NEW n \in Nat, DOMAIN indexes = 1..n,
         table = "ProcessTokens" => \A i \in 1..n : indexes[i] = <<"flowNodeInstanceId">>
  PROVE  IsPlan(AddIndexes(table, indexes))
<1> DEFINE p == AddIndexes(table, indexes)
<1>1. p = [i \in 1..n |-> AddIndex(table, indexes[i])]
  BY DEF AddIndexes
<1>2. \A i \in 1..n : Fits(AddIndex(table, indexes[i]))
  BY DEF Fits, Allowed, AddIndex, Operations, ChangesTable, IsCaught, IsAwaited
<1>3. DOMAIN p = 1..n /\ p = [i \in 1..n |-> p[i]] /\ \A i \in 1..n : Fits(p[i])
  BY <1>1, <1>2
<1> HIDE DEF p
<1>4. IsPlan(p)
  BY <1>3, PlanBy
<1> QED
  BY <1>4 DEF p

\* Quoted or caught, a statement is the same in all else.
LEMMA FitsWrapped ==
  /\ Fits(Unquoted(Select("Correlations", "sync states")))
  /\ \A use \in {"active", "erroneous"} : \A i, instance :
       Fits(QueryStates(use, i, instance))
  /\ \A i, value : Fits(Caught(DoubleQuoted(SetCell("Correlations", i, "state", value))))
<1>1. Fits(Unquoted(Select("Correlations", "sync states")))
  BY DEF Fits, Allowed, Unquoted, With, Select, Operations, ChangesTable, IsCaught, IsAwaited
<1>2. \A use \in {"active", "erroneous"} : \A i, instance :
        Fits(QueryStates(use, i, instance))
  <2> TAKE use \in {"active", "erroneous"}
  <2> TAKE i, instance
  <2> DEFINE s == QueryStates(use, i, instance)
  <2>1. /\ s.op = "select" /\ s.use = use
        /\ "caught" \notin DOMAIN s /\ "awaited" \notin DOMAIN s
    BY DEF QueryStates, DoubleQuoted, With, Select
  <2> HIDE DEF s
  <2>2. Fits(s)
    BY <2>1 DEF Fits, Allowed, Operations, ChangesTable, IsCaught, IsAwaited
  <2> QED
    BY <2>2 DEF s
<1>3. \A i, value : Fits(Caught(DoubleQuoted(SetCell("Correlations", i, "state", value))))
  <2> TAKE i, value
  <2> DEFINE s == Caught(DoubleQuoted(SetCell("Correlations", i, "state", value)))
  <2>1. /\ s.op = "setCell" /\ s.table = "Correlations" /\ s.column = "state"
        /\ "awaited" \notin DOMAIN s
    BY DEF Caught, DoubleQuoted, With, SetCell
  <2> HIDE DEF s
  <2>2. Fits(s)
    BY <2>1, KeptFacts
    DEF Fits, Allowed, Operations, ChangesTable, IsCaught, IsAwaited, LiveTables
  <2> QED
    BY <2>2 DEF s
<1> QED
  BY <1>1, <1>2, <1>3

\* Columns that are not kept may be filled from another table.
LEMMA FitsFill ==
  ASSUME NEW table \in LiveTables, NEW assignments, NEW source, NEW match, NEW required,
         DOMAIN assignments \intersect (KeptColumns[table] \union {"createdAt"}) = {}
  PROVE  /\ Fits(FillFrom(table, assignments, source, match, required))
         /\ Fits(DoubleQuoted(FillFrom(table, assignments, source, match, required)))
BY DEF Fits, Allowed, DoubleQuoted, With, FillFrom, Operations, ChangesTable, IsCaught,
       IsAwaited

\* The rows of a table are moved to one with another id.
LEMMA FitsRebuild ==
  ASSUME NEW t \in Rebuilt, t # "ExternalTasks", NEW unique,
         unique \subseteq DOMAIN MigratedColumns[t], t = "ProcessTokens" => unique = {}
  PROVE  IsMove(Rebuild(t, TemporaryOf[t], MigratedColumns[t], unique), {t})
<1> DEFINE columns == With(MigratedColumns[t], "id", "INTEGER")
           a == CreateTable(TemporaryOf[t], columns, unique)
           b == CopyRows(t, TemporaryOf[t], DOMAIN MigratedColumns[t])
           c == DropTable(t)
           d == RenameTable(TemporaryOf[t], t)
           p == <<a, b, c, d>>
<1>0. t \notin TaskTables /\ TemporaryOf[t] \notin TaskTables
  BY Names DEF TaskTables
<1>1. Fits(a)
  <2>1. /\ {"id", "createdAt"} \subseteq DOMAIN columns /\ unique \subseteq DOMAIN columns
    BY Migrated DEF With
  <2>2. \A u \in Rebuilt : TemporaryOf[t] = TemporaryOf[u] =>
          columns = With(MigratedColumns[u], "id", "INTEGER")
    BY Names
  <2>3. TemporaryOf[t] \in TableNames /\ (TemporaryOf[t] \in TokenTables => unique = {})
    BY Names
  <2> HIDE DEF columns
  <2> QED
    BY <1>0, <2>1, <2>2, <2>3, FitsCreate
<1>2. Allowed(b) /\ b.op = "copyRows" /\ b.table = t
  BY <1>0 DEF Allowed, CopyRows, Operations, ChangesTable, IsCaught, IsAwaited
<1>3. Allowed(c) /\ IsAwaited(c) /\ c.op = "dropTable" /\ c.table = t
  BY FitsAnywhere DEF DropTable
<1>4. Renames(d) /\ d.to = t
  BY <1>0 DEF Renames, Allowed, RenameTable, Operations, ChangesTable, IsCaught, IsAwaited
<1> HIDE DEF a, b, c, d
<1>5. DOMAIN p = 1..4 /\ p = [i \in 1..4 |-> p[i]]
      /\ p[1] = a /\ p[2] = b /\ p[3] = c /\ p[4] = d
  OBVIOUS
<1> HIDE DEF p
<1>6. IsSequence(p)
  BY <1>5, Sequence DEF IsSequence
<1>7. Drops(p, 3)
  BY <1>0, <1>2, <1>3, <1>5 DEF Drops
<1>8. CopiesOnce(p, 2)
  <2>1. 4 \in DOMAIN p /\ 4 > 2 /\ Replacing(p[4], p[2].table)
    BY <1>2, <1>4, <1>5 DEF Replacing, Renames
  <2>2. ASSUME NEW j \in DOMAIN p
        PROVE  (Copying(p[j], t) => j = 2) /\ (Replacing(p[j], t) => j > 2)
    <3>1. /\ a.op \notin {"copyRows", "renameTable"} /\ b.op = "copyRows"
          /\ c.op = "dropTable" /\ d.op = "renameTable"
      BY <1>1, <1>2, <1>3, <1>4 DEF Fits, Renames
    <3>2. p[j].op = "copyRows" => j = 2
      BY ONLY <1>5, <3>1, j \in DOMAIN p
    <3>3. p[j].op = "renameTable" => j > 2
      BY ONLY <1>5, <3>1, j \in DOMAIN p
    <3> QED
      BY <3>2, <3>3 DEF Copying, Replacing
  <2> QED
    BY <1>0, <1>2, <1>5, <2>1, <2>2 DEF CopiesOnce
<1>9. IsMove(p, {t})
  <2>1. ASSUME NEW i \in DOMAIN p
        PROVE  \/ Fits(p[i]) \/ Drops(p, i)
               \/ CopiesOnce(p, i) /\ p[i].table \in {t}
               \/ Renames(p[i]) /\ p[i].to \in {t}
    <3>1. i = 1 \/ i = 2 \/ i = 3 \/ i = 4
      BY <1>5
    <3> QED
      BY <1>1, <1>2, <1>4, <1>5, <1>7, <1>8, <3>1
  <2> QED
    BY <1>6, <2>1 DEF IsMove
<1> QED
  BY <1>9, Zenon DEF p, a, b, c, d, columns, Rebuild

-----------------------------------------------------------------------------
(* Every script is made of statements that fit, but for those that move    *)
(* the rows of tables that have not been migrated.                         *)

Unmigrated(db) == {t \in LiveTables : ~HasIntegerId(db, t)}

\* A description of a table is a plan.
LEMMA DescribePlan == ASSUME NEW table PROVE IsPlan(<<DescribeTable(table)>>)
BY FitsAnywhere, PlanOf1

\* A column is added, or is there.
LEMMA AddIfMissingPlan ==
  ASSUME NEW db, NEW table \in LiveTables, NEW column, NEW type,
         column \notin KeptColumns[table]
  PROVE  IsPlan(AddIfMissing(db, table, column, type))
<1>1. IsPlan(<<AddColumn(table, column, type, Null)>>)
  BY FitsColumns, PlanOf1
<1> QED
  BY <1>1, NoPlan, Zenon DEF AddIfMissing

\* A description of the table comes first.
LEMMA DescribedPlan ==
  ASSUME NEW table, NEW p, IsPlan(p) PROVE IsPlan(<<DescribeTable(table)>> \o p)
BY DescribePlan, PlanJoined

\* The same of a script that moves rows.
LEMMA DescribedMove ==
  ASSUME NEW table, NEW p, NEW tables, IsMove(p, tables)
  PROVE  IsMove(<<DescribeTable(table)>> \o p, tables)
<1>1. IsMove(<<DescribeTable(table)>>, {})
  BY DescribePlan, PlanIsMove
<1>2. {} \intersect tables = {} /\ {} \union tables = tables
  OBVIOUS
<1> QED
  BY <1>1, <1>2, MoveJoined

\* A table is rebuilt unless it has an integer for its id.
LEMMA MovesUnmigrated ==
  ASSUME NEW db, NEW t \in LiveTables, NEW moved, IsMove(moved, {t})
  PROVE  LET rest == IF HasIntegerId(db, t) THEN <<>> ELSE moved
         IN  /\ IsMove(rest, Unmigrated(db) \intersect {t})
             /\ IsMove(rest, Unmigrated(db))
<1>1. CASE HasIntegerId(db, t)
  BY <1>1, NoPlan, PlanIsMove
<1>2. CASE ~HasIntegerId(db, t)
  <2>1. {t} \subseteq Unmigrated(db) /\ Unmigrated(db) \intersect {t} = {t}
    BY <1>2 DEF Unmigrated
  <2> QED
    BY <1>2, <2>1, MoveOfMore
<1> QED
  BY <1>1, <1>2

\* A plan of two statements.
LEMMA PlanOf2 == ASSUME NEW a, NEW b, Fits(a), Fits(b) PROVE IsPlan(<<a, b>>)
<1> DEFINE p == <<a, b>>
<1>1. DOMAIN p = 1..2 /\ p = [i \in 1..2 |-> p[i]] /\ \A i \in 1..2 : Fits(p[i])
  OBVIOUS
<1> HIDE DEF p
<1>2. IsPlan(p)
  BY <1>1, PlanBy
<1> QED
  BY <1>2 DEF p

\* A plan of three statements.
LEMMA PlanOf3 ==
  ASSUME NEW a, NEW b, NEW c, Fits(a), Fits(b), Fits(c) PROVE IsPlan(<<a, b, c>>)
<1> DEFINE p == <<a, b, c>>
<1>1. DOMAIN p = 1..3 /\ p = [i \in 1..3 |-> p[i]] /\ \A i \in 1..3 : Fits(p[i])
  OBVIOUS
<1> HIDE DEF p
<1>2. IsPlan(p)
  BY <1>1, PlanBy
<1> QED
  BY <1>2 DEF p

\* A table is created unless it is there: the tables of the first releases.
LEMMA CreateIfMissingPlan ==
  ASSUME NEW db, NEW table \in LiveTables, NEW columns, NEW unique,
         {"id", "createdAt"} \subseteq DOMAIN columns,
         unique \subseteq DOMAIN columns,
         table = "ProcessTokens" => unique = {}
  PROVE  /\ IsRest(CreateIfMissing(db, table, columns, unique))
         /\ table # "ExternalTasks" => IsPlan(CreateIfMissing(db, table, columns, unique))
<1> DEFINE create == CreateTable(table, columns, unique)
<1>1. /\ table \in TableNames /\ (table \in TokenTables => unique = {})
      /\ \A t \in Rebuilt : table # TemporaryOf[t]
      /\ table # "ExternalTasks" => table \notin TaskTables
  BY Names DEF TaskTables
<1>2. Allowed(create) /\ (table # "ExternalTasks" => Fits(create))
  BY <1>1, FitsCreate
<1> HIDE DEF create
<1>3. IsRest(<<create>>) /\ (table # "ExternalTasks" => IsPlan(<<create>>))
  BY <1>2, RestOf1, PlanOf1
<1> QED
  BY <1>3, NoPlan, Zenon DEF CreateIfMissing, create

\* The scripts of sequelize/migrations/correlation are plans.
LEMMA CorrelationPlans ==
  ASSUME NEW db
  PROVE  /\ IsPlan(Correlation00(db)) /\ IsPlan(Correlation01(db))
         /\ IsPlan(Correlation02(db)) /\ IsMove(Correlation03(db), Unmigrated(db))
         /\ IsPlan(Correlation04(db)) /\ IsPlan(Correlation20190626)
         /\ IsPlan(Correlation20191127(db))
<1>0. "Correlations" \in LiveTables /\ "Correlations" \in Rebuilt
  BY DEF LiveTables, Rebuilt
<1>1. IsPlan(Correlation00(db))
  <2> DEFINE columns ==
        Typed([UUID |-> {"id"}, DATE |-> Timestamps,
               STRING |-> {"correlationId", "processInstanceId", "processModelId"},
               TEXT |-> {"processModelHash", "identity"}])
  <2>1. {"id", "createdAt"} \subseteq DOMAIN columns
    BY DEF Typed, Timestamps
  <2> HIDE DEF columns
  <2>2. IsPlan(CreateIfMissing(db, "Correlations", columns, {}))
    BY <1>0, <2>1, CreateIfMissingPlan
  <2> QED
    BY <2>2, Zenon DEF Correlation00, columns
<1>2. IsPlan(Correlation01(db))
  <2>1. IsPlan(FillCorrelations(db))
    <3> DEFINE a == DoubleQuoted(FillFrom("Correlations",
                      [processInstanceId |-> "processInstanceId"],
                      "ProcessTokens", {<<"correlationId", "correlationId">>}, {}))
               b == DoubleQuoted(FillFrom("Correlations", [identity |-> "identity"],
                      "ProcessTokens", {<<"correlationId", "correlationId">>,
                                        <<"processInstanceId", "processInstanceId">>}, {}))
    <3>1. Fits(a) /\ Fits(b)
      BY <1>0, KeptFacts, FitsFill
    <3> HIDE DEF a, b
    <3>2. IsPlan(<<a, b>>)
      BY <3>1, PlanOf2
    <3> DEFINE c == DoubleQuoted(FillFrom("Correlations", [processModelId |-> "name"],
                      "ProcessDefinitions", {<<"hash", "processModelHash">>}, {}))
    <3>3. IsPlan(<<c>>)
      BY <1>0, KeptFacts, FitsFill, PlanOf1
    <3> DEFINE named == IF Exists(db, "ProcessDefinitions") THEN <<c>> ELSE <<>>
               filled == IF Exists(db, "ProcessTokens") THEN <<a, b>> ELSE <<>>
    <3>4. IsPlan(named) /\ IsPlan(filled)
      BY <3>2, <3>3, NoPlan, Zenon
    <3> HIDE DEF named, filled
    <3>5. IsPlan(named \o filled)
      BY <3>4, PlanJoined
    <3> QED
      BY <3>5, Zenon DEF FillCorrelations, named, filled, a, b
  <2>2. \A column \in {"processModelId", "processInstanceId", "identity"} : \A type :
          IsPlan(AddIfMissing(db, "Correlations", column, type))
    BY <1>0, KeptFacts, AddIfMissingPlan
  <2> DEFINE p1 == AddIfMissing(db, "Correlations", "processModelId", "STRING")
             p2 == AddIfMissing(db, "Correlations", "processInstanceId", "STRING")
             p3 == AddIfMissing(db, "Correlations", "identity", "TEXT")
             p4 == FillCorrelations(db)
  <2>3. IsPlan(p1) /\ IsPlan(p2) /\ IsPlan(p3) /\ IsPlan(p4)
    BY <2>1, <2>2
  <2> HIDE DEF p1, p2, p3, p4
  <2>4. IsPlan(p1 \o p2 \o p3 \o p4)
    BY <2>3, PlanJoined
  <2> QED
    BY <2>4, NoPlan, DescribedPlan, Zenon DEF Correlation01, p1, p2, p3, p4
<1>3. IsPlan(Correlation02(db))
  <2>1. IsPlan(AddIfMissing(db, "Correlations", "parentProcessInstanceId", "STRING"))
    BY <1>0, KeptFacts, AddIfMissingPlan
  <2> QED
    BY <2>1, DescribedPlan, Zenon DEF Correlation02
<1>4. IsMove(Correlation03(db), Unmigrated(db))
  <2>1. /\ MigratedColumns["Correlations"] = MigratedCorrelationColumns
        /\ TemporaryOf["Correlations"] = "correlations_new"
    BY <1>0 DEF MigratedColumns, TemporaryOf
  <2> DEFINE moved == Rebuild("Correlations", "correlations_new",
                              MigratedCorrelationColumns, {})
             rest == IF HasIntegerId(db, "Correlations") THEN <<>> ELSE moved
  <2>2. IsMove(moved, {"Correlations"})
    BY <1>0, <2>1, FitsRebuild
  <2> HIDE DEF moved
  <2>3. IsMove(rest, Unmigrated(db))
    BY <1>0, <2>2, MovesUnmigrated
  <2> HIDE DEF rest
  <2>4. IsMove(<<DescribeTable("Correlations")>> \o rest, Unmigrated(db))
    BY <2>3, DescribedMove
  <2> QED
    BY <2>4, Zenon DEF Correlation03, rest, moved
<1>5. IsPlan(Correlation04(db))
  <2>1. IsPlan(<<AddColumn("Correlations", "state", "STRING", "finished"),
                 AddColumn("Correlations", "error", "TEXT", Null)>>)
    BY <1>0, KeptFacts, FitsColumns, PlanOf2
  <2>2. IsPlan(<<Unquoted(Select("Correlations", "sync states"))>>)
    BY FitsWrapped, PlanOf1
  <2> QED
    BY <2>1, <2>2, NoPlan, PlanJoined, DescribePlan, ZenonT(30) DEF Correlation04
<1>6. IsPlan(Correlation20190626)
  <2> DEFINE indexes ==
        <<<<"correlationId">>, <<"processModelId">>, <<"processInstanceId">>,
          <<"parentProcessInstanceId">>, <<"state">>,
          <<"correlationId", "processInstanceId">>>>
  <2>1. DOMAIN indexes = 1..6
    OBVIOUS
  <2> HIDE DEF indexes
  <2>2. IsPlan(AddIndexes("Correlations", indexes))
    BY <1>0, <2>1, FitsIndexes
  <2> QED
    BY <2>2, Zenon DEF Correlation20190626, indexes
<1>7. IsPlan(Correlation20191127(db))
  <2>1. \A column \in {"terminatedBy", "finishedAt"} : \A type :
          IsPlan(AddIfMissing(db, "Correlations", column, type))
    BY <1>0, KeptFacts, AddIfMissingPlan
  <2> QED
    BY <2>1, PlanJoined, DescribePlan, Zenon DEF Correlation20191127
<1> QED
  BY <1>1, <1>2, <1>3, <1>4, <1>5, <1>6, <1>7

\* The script of sequelize/migrations/cronjob_history is a plan.
LEMMA CronjobPlan == ASSUME NEW db PROVE IsPlan(CronjobHistory20190709(db))
<1> DEFINE columns ==
      Typed([INTEGER |-> {"id"}, DATE |-> Timestamps \union {"executedAt"},
             STRING |-> {"processModelId", "startEventId", "crontab"}])
<1>1. {"id", "createdAt"} \subseteq DOMAIN columns
  BY DEF Typed, Timestamps
<1> HIDE DEF columns
<1>2. IsPlan(CreateIfMissing(db, "CronjobHistory", columns, {}))
  BY <1>1, CreateIfMissingPlan DEF LiveTables
<1> QED
  BY <1>2, Zenon DEF CronjobHistory20190709, columns

\* The scripts of sequelize/migrations/external_task: two of them are no plans, as
\* they make and rebuild the table of the tasks.
LEMMA ExternalTaskPlans ==
  ASSUME NEW db
  PROVE  /\ IsRest(ExternalTask00(db)) /\ IsPlan(ExternalTask01(db))
         /\ IsRest(ExternalTask02(db)) /\ IsPlan(ExternalTask20190626)
<1>0. "ExternalTasks" \in LiveTables /\ "ExternalTasks" \in Rebuilt
  BY DEF LiveTables, Rebuilt
<1>1. IsRest(ExternalTask00(db))
  <2> DEFINE columns ==
        Typed([UUID |-> {"id"},
               DATE |-> Timestamps \union {"lockExpirationTime", "finishedAt"},
               STRING |-> {"workerId", "topic", "flowNodeInstanceId",
                           "correlationId", "processInstanceId", "state"},
               TEXT |-> {"payload", "result", "error"}])
  <2>1. {"id", "createdAt"} \subseteq DOMAIN columns
    BY DEF Typed, Timestamps
  <2> HIDE DEF columns
  <2>2. IsRest(CreateIfMissing(db, "ExternalTasks", columns, {}))
    BY <1>0, <2>1, CreateIfMissingPlan
  <2> QED
    BY <2>2, Zenon DEF ExternalTask00, columns
<1>2. IsPlan(ExternalTask01(db))
  <2>1. IsPlan(<<AddColumn("ExternalTasks", "identity", "TEXT", ""),
                 AddColumn("ExternalTasks", "version", "INTEGER", Null),
                 AddColumn("ExternalTasks", "processModelId", "STRING", Null)>>)
    BY <1>0, KeptFacts, FitsColumns, PlanOf3
  <2> QED
    BY <2>1, NoPlan, DescribedPlan, Zenon DEF ExternalTask01
<1>3. IsRest(ExternalTask02(db))
  <2> DEFINE columns == With(MigratedTaskColumns, "id", "INTEGER")
             a == NotAwaited(DropTable("external_tasks_new"))
             b == CreateTable("external_tasks_new", columns, {})
             c == Select("ExternalTasks", "copy tasks")
             d == DropTable("ExternalTasks")
             e == RenameTable("external_tasks_new", "ExternalTasks")
  <2>1. Allowed(a) /\ Allowed(c) /\ Allowed(d)
    BY <1>0, FitsAnywhere
  <2>2. Allowed(b)
    <3>1. {"id", "createdAt"} \subseteq DOMAIN columns
      BY <1>0, Migrated, Names DEF With
    <3>2. \A t \in Rebuilt : "external_tasks_new" = TemporaryOf[t] =>
            columns = With(MigratedColumns[t], "id", "INTEGER")
      BY <1>0, Names
    <3>3. "external_tasks_new" \in TableNames /\ "external_tasks_new" \notin TokenTables
      BY <1>0, Names DEF TokenTables
    <3> HIDE DEF columns
    <3> QED
      BY <3>1, <3>2, <3>3, FitsCreate
  <2>3. Allowed(e)
    BY <1>0, Names DEF Allowed, RenameTable, Operations, ChangesTable, IsCaught, IsAwaited
  <2> HIDE DEF a, b, c, d, e
  <2>4. IsRest(<<a, b, c, d, e>>)
    <3> DEFINE p == <<a, b, c, d, e>>
    <3>1. DOMAIN p = 1..5 /\ p = [i \in 1..5 |-> p[i]] /\ \A i \in 1..5 : Allowed(p[i])
      BY <2>1, <2>2, <2>3
    <3> HIDE DEF p
    <3>2. IsRest(p)
      BY <3>1, RestBy
    <3> QED
      BY <3>2 DEF p
  <2>5. IsRest(<<DescribeTable("ExternalTasks")>>)
    BY DescribePlan, PlanIsRest
  <2> QED
    BY <2>4, <2>5, NoPlan, RestJoined, Zenon DEF ExternalTask02, a, b, c, d, e
<1>4. IsPlan(ExternalTask20190626)
  <2> DEFINE indexes ==
        <<<<"externalTaskId">>,
          <<"correlationId", "processInstanceId", "flowNodeInstanceId">>,
          <<"topic", "state", "lockExpirationTime">>, <<"processModelId">>>>
  <2>1. DOMAIN indexes = 1..4
    OBVIOUS
  <2> HIDE DEF indexes
  <2>2. IsPlan(AddIndexes("ExternalTasks", indexes))
    BY <1>0, <2>1, FitsIndexes
  <2> QED
    BY <2>2, Zenon DEF ExternalTask20190626, indexes
<1> QED
  BY <1>1, <1>2, <1>3, <1>4

\* The scripts of sequelize/migrations/process_model are plans.
LEMMA ProcessModelPlans ==
  ASSUME NEW db
  PROVE  /\ IsPlan(ProcessModel00(db)) /\ IsPlan(ProcessModel01(db))
         /\ IsMove(ProcessModel02(db), Unmigrated(db)) /\ IsPlan(ProcessModel20190626)
         /\ IsPlan(ProcessModel20191108)
<1>0. "ProcessDefinitions" \in LiveTables /\ "ProcessDefinitions" \in Rebuilt
  BY DEF LiveTables, Rebuilt
<1>1. IsPlan(ProcessModel00(db))
  <2> DEFINE columns == Typed([UUID |-> {"id"}, DATE |-> Timestamps, STRING |-> {"name"},
                               TEXT |-> {"xml"}])
  <2>1. {"id", "createdAt"} \subseteq DOMAIN columns /\ {"name"} \subseteq DOMAIN columns
    BY DEF Typed, Timestamps
  <2> HIDE DEF columns
  <2>2. IsPlan(CreateIfMissing(db, "ProcessDefinitions", columns, {"name"}))
    BY <1>0, <2>1, CreateIfMissingPlan
  <2> QED
    BY <2>2, Zenon DEF ProcessModel00, columns
<1>2. IsPlan(ProcessModel01(db))
  <2>1. /\ IsPlan(<<AddColumn("ProcessDefinitions", "hash", "TEXT", "")>>)
        /\ IsPlan(<<ChangeColumn("ProcessDefinitions", "name", "STRING")>>)
    BY <1>0, KeptFacts, FitsColumns, PlanOf1
  <2> QED
    BY <2>1, NoPlan, PlanJoined, DescribePlan, ZenonT(30) DEF ProcessModel01
<1>3. IsMove(ProcessModel02(db), Unmigrated(db))
  <2>1. /\ MigratedColumns["ProcessDefinitions"] = MigratedModelColumns
        /\ TemporaryOf["ProcessDefinitions"] = "ProcessDefinitions_New"
    BY <1>0 DEF MigratedColumns, TemporaryOf, Rebuilt
  <2> DEFINE moved == Rebuild("ProcessDefinitions", "ProcessDefinitions_New",
                              MigratedModelColumns, {})
             rest == IF HasIntegerId(db, "ProcessDefinitions") THEN <<>> ELSE moved
  <2>2. IsMove(moved, {"ProcessDefinitions"})
    BY <1>0, <2>1, FitsRebuild
  <2> HIDE DEF moved
  <2>3. IsMove(rest, Unmigrated(db))
    BY <1>0, <2>2, MovesUnmigrated
  <2> HIDE DEF rest
  <2>4. IsMove(<<DescribeTable("ProcessDefinitions")>> \o rest, Unmigrated(db))
    BY <2>3, DescribedMove
  <2> QED
    BY <2>4, Zenon DEF ProcessModel02, rest, moved
<1>4. IsPlan(ProcessModel20190626)
  <2> DEFINE indexes == <<<<"name">>, <<"hash">>>>
  <2>1. DOMAIN indexes = 1..2
    OBVIOUS
  <2> HIDE DEF indexes
  <2>2. IsPlan(AddIndexes("ProcessDefinitions", indexes))
    BY <1>0, <2>1, FitsIndexes
  <2>3. IsPlan(<<ChangeColumn("ProcessDefinitions", "hash", "STRING")>>)
    BY <1>0, KeptFacts, FitsColumns, PlanOf1
  <2> QED
    BY <2>2, <2>3, PlanJoined, Zenon DEF ProcessModel20190626, indexes
<1>5. IsPlan(ProcessModel20191108)
  BY <1>0, KeptFacts, FitsColumns, PlanOf1 DEF ProcessModel20191108
<1> QED
  BY <1>1, <1>2, <1>3, <1>4, <1>5

\* The scripts of sequelize/migrations/flow_node_instance are plans.
LEMMA FlowNodeInstancePlans ==
  ASSUME NEW db
  PROVE  /\ IsPlan(FlowNodeInstance00(db)) /\ IsPlan(FlowNodeInstance01(db))
         /\ IsMove(FlowNodeInstance02(db), Unmigrated(db)) /\ IsPlan(FlowNodeInstance03)
         /\ IsPlan(FlowNodeInstance20190403) /\ IsPlan(FlowNodeInstance20190626)
         /\ IsPlan(FlowNodeInstance20191010(db)) /\ IsPlan(FlowNodeInstance20200218)
<1>0. /\ "FlowNodeInstances" \in LiveTables /\ "FlowNodeInstances" \in Rebuilt
      /\ "ProcessTokens" \in LiveTables /\ "ProcessTokens" \in Rebuilt
  BY DEF LiveTables, Rebuilt
<1>1. IsPlan(FlowNodeInstance00(db))
  <2> DEFINE instances ==
        Typed([UUID |-> {"id"}, DATE |-> Timestamps,
               STRING |-> {"flowNodeInstanceId", "flowNodeId", "state", "error"}])
             tokens ==
        Typed([UUID |-> {"id", "flowNodeInstanceId"}, DATE |-> Timestamps,
               STRING |-> {"processInstanceId", "processModelId",
                           "correlationId", "caller", "type"},
               TEXT |-> {"identity", "payload", "flowNodeInstanceForeignKey"}])
  <2>1. {"id", "createdAt"} \subseteq DOMAIN instances
        /\ {"flowNodeInstanceId"} \subseteq DOMAIN instances
    BY DEF Typed, Timestamps
  <2>2. {"id", "createdAt"} \subseteq DOMAIN tokens
    BY DEF Typed, Timestamps
  <2> HIDE DEF instances, tokens
  <2>3. IsPlan(CreateIfMissing(db, "FlowNodeInstances", instances, {"flowNodeInstanceId"}))
    BY <1>0, <2>1, CreateIfMissingPlan
  <2>4. IsPlan(CreateIfMissing(db, "ProcessTokens", tokens, {}))
    BY <1>0, <2>2, CreateIfMissingPlan
  <2> QED
    BY <2>3, <2>4, PlanJoined, Zenon DEF FlowNodeInstance00, instances, tokens
<1>2. IsPlan(FlowNodeInstance01(db))
  <2>1. IsPlan(<<AddColumn("FlowNodeInstances", "eventType", "STRING", Null),
                 AddColumn("FlowNodeInstances", "previousFlowNodeInstanceId", "STRING", Null),
                 AddColumn("FlowNodeInstances", "flowNodeType", "STRING", Null)>>)
    BY <1>0, KeptFacts, FitsColumns, PlanOf3
  <2> QED
    BY <2>1, NoPlan, DescribedPlan, Zenon DEF FlowNodeInstance01
<1>3. IsMove(FlowNodeInstance02(db), Unmigrated(db))
  <2>1. /\ MigratedColumns["FlowNodeInstances"] = MigratedInstanceColumns
        /\ TemporaryOf["FlowNodeInstances"] = "FlowNodeInstances_New"
        /\ MigratedColumns["ProcessTokens"] = MigratedTokenColumns
        /\ TemporaryOf["ProcessTokens"] = "processtokens_new"
    BY <1>0 DEF MigratedColumns, TemporaryOf, Rebuilt
  <2>2. {"flowNodeInstanceId"} \subseteq DOMAIN MigratedInstanceColumns
    BY DEF MigratedInstanceColumns, Typed
  <2> DEFINE tokens == Rebuild("ProcessTokens", "processtokens_new",
                               MigratedTokenColumns, {})
             instances == Rebuild("FlowNodeInstances", "FlowNodeInstances_New",
                                  MigratedInstanceColumns, {"flowNodeInstanceId"})
             T == Unmigrated(db) \intersect {"ProcessTokens"}
             U == Unmigrated(db) \intersect {"FlowNodeInstances"}
             described ==
               <<DescribeTable("FlowNodeInstances"), DescribeTable("ProcessTokens")>>
             p == IF HasIntegerId(db, "ProcessTokens") THEN <<>> ELSE tokens
             q == IF HasIntegerId(db, "FlowNodeInstances") THEN <<>> ELSE instances
  <2>3. IsMove(instances, {"FlowNodeInstances"}) /\ IsMove(tokens, {"ProcessTokens"})
    BY <1>0, <2>1, <2>2, FitsRebuild
  <2> HIDE DEF tokens, instances
  <2>4. IsMove(p, T) /\ IsMove(q, U)
    BY <1>0, <2>3, MovesUnmigrated
  <2>5. IsMove(described, {})
    BY FitsAnywhere, PlanOf2, PlanIsMove
  <2>6. T \intersect U = {} /\ T \union U \subseteq Unmigrated(db) /\ {} \union T = T
    OBVIOUS
  <2> HIDE DEF p, q, T, U, described
  <2>7. IsMove(described \o p, T)
    <3>1. {} \intersect T = {}
      OBVIOUS
    <3> QED
      BY <2>4, <2>5, <2>6, <3>1, MoveJoined
  <2>8. IsMove((described \o p) \o q, Unmigrated(db))
    <3> DEFINE r == described \o p
    <3> HIDE DEF r
    <3>1. IsMove(r, T)
      BY <2>7 DEF r
    <3>2. IsMove(r \o q, T \union U)
      BY <2>4, <2>6, <3>1, MoveJoined
    <3>3. IsMove(r \o q, Unmigrated(db))
      BY <2>6, <3>2, MoveOfMore
    <3> QED
      BY <3>3 DEF r
  <2> QED
    BY <2>8, Zenon DEF FlowNodeInstance02, p, q, described, tokens, instances
<1>4. IsPlan(FlowNodeInstance03)
  <2> DEFINE moved == <<"processInstanceId", "processModelId", "correlationId",
                        "identity", "caller">>
             target == [moved EXCEPT ![5] = "parentProcessInstanceId"]
             required == {"processInstanceId", "processModelId", "correlationId"}
             add == [i \in 1..5 |->
                       AddColumn("FlowNodeInstances", target[i],
                                 IF target[i] = "identity" THEN "TEXT" ELSE "STRING",
                                 IF target[i] \in required THEN "" ELSE Null)]
             assignments == [c \in ToSet(target) |->
                               moved[CHOOSE i \in 1..5 : target[i] = c]]
             fill == <<FillFrom("FlowNodeInstances", assignments, "ProcessTokens",
                         {<<"flowNodeInstanceId", "flowNodeInstanceId">>}, required)>>
             remove == [i \in 1..5 |-> RemoveColumn("ProcessTokens", moved[i])]
  <2>1. \A i \in 1..5 : /\ moved[i] \notin {"id", "createdAt", "flowNodeInstanceId"}
                        /\ moved[i] \notin KeptColumns["ProcessTokens"]
                        /\ target[i] \notin KeptColumns["FlowNodeInstances"]
    BY KeptFacts
  <2>2. DOMAIN assignments \intersect (KeptColumns["FlowNodeInstances"] \union {"createdAt"})
          = {}
    BY KeptFacts DEF ToSet
  <2> HIDE DEF moved, target, required, assignments
  <2>3. IsPlan(add)
    <3>1. \A i \in 1..5 : Fits(add[i])
      BY <1>0, <2>1, FitsColumns
    <3>2. DOMAIN add = 1..5 /\ add = [i \in 1..5 |-> add[i]]
      OBVIOUS
    <3> HIDE DEF add
    <3> QED
      BY <3>1, <3>2, PlanBy
  <2>4. IsPlan(fill)
    BY <1>0, <2>2, FitsFill, PlanOf1
  <2>5. IsPlan(remove)
    <3>1. \A i \in 1..5 : Fits(remove[i])
      BY <1>0, <2>1, FitsColumns
    <3>2. DOMAIN remove = 1..5 /\ remove = [i \in 1..5 |-> remove[i]]
      OBVIOUS
    <3> HIDE DEF remove
    <3> QED
      BY <3>1, <3>2, PlanBy
  <2> HIDE DEF add, fill, remove
  <2>6. IsPlan(add \o fill \o remove)
    BY <2>3, <2>4, <2>5, PlanJoined, Zenon
  <2> QED
    BY <2>6, Zenon
    DEF FlowNodeInstance03, add, fill, remove, moved, target, required, assignments
<1>5. IsPlan(FlowNodeInstance20190403)
  BY <1>0, KeptFacts, FitsColumns, PlanOf1 DEF FlowNodeInstance20190403
<1>6. IsPlan(FlowNodeInstance20190626)
  <2> DEFINE indexes ==
        <<<<"correlationId">>, <<"flowNodeId">>, <<"flowNodeInstanceId">>,
          <<"processModelId">>, <<"processInstanceId">>, <<"state">>,
          <<"correlationId", "processModelId">>,
          <<"correlationId", "processModelId", "flowNodeId">>,
          <<"correlationId", "processModelId", "state">>,
          <<"correlationId", "state">>, <<"processModelId", "state">>,
          <<"processInstanceId", "flowNodeId">>, <<"processInstanceId", "state">>>>
             own == <<<<"flowNodeInstanceId">>>>
  <2>1. DOMAIN indexes = 1..13 /\ DOMAIN own = 1..1 /\ own[1] = <<"flowNodeInstanceId">>
    OBVIOUS
  <2> HIDE DEF indexes, own
  <2>2. IsPlan(AddIndexes("FlowNodeInstances", indexes))
    BY <1>0, <2>1, FitsIndexes
  <2>3. IsPlan(AddIndexes("ProcessTokens", own))
    <3>1. \A i \in 1..1 : own[i] = <<"flowNodeInstanceId">>
      BY <2>1
    <3> QED
      BY <1>0, <2>1, <3>1, FitsIndexes
  <2> QED
    BY <2>2, <2>3, PlanJoined, Zenon DEF FlowNodeInstance20190626, indexes, own
<1>7. IsPlan(FlowNodeInstance20191010(db))
  <2>1. IsPlan(<<AddColumn("FlowNodeInstances", "flowNodeName", "STRING", Null),
                 AddColumn("FlowNodeInstances", "flowNodeLane", "STRING", Null)>>)
    BY <1>0, KeptFacts, FitsColumns, PlanOf2
  <2> QED
    BY <2>1, NoPlan, DescribedPlan, Zenon DEF FlowNodeInstance20191010
<1>8. IsPlan(FlowNodeInstance20200218)
  BY <1>0, KeptFacts, FitsColumns, PlanOf1 DEF FlowNodeInstance20200218
<1> QED
  BY <1>1, <1>2, <1>3, <1>4, <1>5, <1>6, <1>7, <1>8

\* What up() is going to do is allowed, whatever database it finds.
LEMMA UpPlan ==
  ASSUME NEW name \in ScriptNames, NEW db
  PROVE  /\ IsRest(Up(name, db))
         /\ name \notin {"external_task/00", "external_task/02"} =>
              IsMove(Up(name, db), Unmigrated(db))
<1>0. /\ IsMove(Up(name, db), Unmigrated(db)) => IsRest(Up(name, db))
      /\ IsPlan(Up(name, db)) => IsMove(Up(name, db), Unmigrated(db))
  BY MoveIsRest, PlanIsMove
<1>1. name \in {"correlation/00", "correlation/01", "correlation/02",
        "correlation/03", "correlation/04", "correlation/2019-06-26",
        "correlation/2019-11-27", "cronjob_history/2019-07-09",
        "external_task/00", "external_task/01", "external_task/02",
        "external_task/2019-06-26", "flow_node_instance/00",
        "flow_node_instance/01", "flow_node_instance/02",
        "flow_node_instance/03", "flow_node_instance/2019-04-03",
        "flow_node_instance/2019-06-26", "flow_node_instance/2019-10-10",
        "flow_node_instance/2020-02-18", "process_model/00",
        "process_model/01", "process_model/02", "process_model/2019-06-26",
        "process_model/2019-11-08"}
  <2>1. PICK r \in Repositories : name \in ToSet(ScriptsOf[r])
    BY DEF ScriptNames
  <2> QED
    BY <2>1 DEF Repositories, ScriptsOf, ToSet
<1>2. CASE name = "correlation/00"
  BY <1>2, <1>0, CorrelationPlans, Zenon DEF Up
<1>3. CASE name = "correlation/01"
  BY <1>3, <1>0, CorrelationPlans, Zenon DEF Up
<1>4. CASE name = "correlation/02"
  BY <1>4, <1>0, CorrelationPlans, Zenon DEF Up
<1>5. CASE name = "correlation/03"
  BY <1>5, <1>0, CorrelationPlans, Zenon DEF Up
<1>6. CASE name = "correlation/04"
  BY <1>6, <1>0, CorrelationPlans, Zenon DEF Up
<1>7. CASE name = "correlation/2019-06-26"
  BY <1>7, <1>0, CorrelationPlans, Zenon DEF Up
<1>8. CASE name = "correlation/2019-11-27"
  BY <1>8, <1>0, CorrelationPlans, Zenon DEF Up
<1>9. CASE name = "cronjob_history/2019-07-09"
  BY <1>9, <1>0, CronjobPlan, Zenon DEF Up
<1>10. CASE name = "external_task/00"
  BY <1>10, ExternalTaskPlans, Zenon DEF Up
<1>11. CASE name = "external_task/01"
  BY <1>11, <1>0, ExternalTaskPlans, Zenon DEF Up
<1>12. CASE name = "external_task/02"
  BY <1>12, ExternalTaskPlans, Zenon DEF Up
<1>13. CASE name = "external_task/2019-06-26"
  BY <1>13, <1>0, ExternalTaskPlans, Zenon DEF Up
<1>14. CASE name = "flow_node_instance/00"
  BY <1>14, <1>0, FlowNodeInstancePlans, Zenon DEF Up
<1>15. CASE name = "flow_node_instance/01"
  BY <1>15, <1>0, FlowNodeInstancePlans, Zenon DEF Up
<1>16. CASE name = "flow_node_instance/02"
  BY <1>16, <1>0, FlowNodeInstancePlans, Zenon DEF Up
<1>17. CASE name = "flow_node_instance/03"
  BY <1>17, <1>0, FlowNodeInstancePlans, Zenon DEF Up
<1>18. CASE name = "flow_node_instance/2019-04-03"
  BY <1>18, <1>0, FlowNodeInstancePlans, Zenon DEF Up
<1>19. CASE name = "flow_node_instance/2019-06-26"
  BY <1>19, <1>0, FlowNodeInstancePlans, Zenon DEF Up
<1>20. CASE name = "flow_node_instance/2019-10-10"
  BY <1>20, <1>0, FlowNodeInstancePlans, Zenon DEF Up
<1>21. CASE name = "flow_node_instance/2020-02-18"
  BY <1>21, <1>0, FlowNodeInstancePlans, Zenon DEF Up
<1>22. CASE name = "process_model/00"
  BY <1>22, <1>0, ProcessModelPlans, Zenon DEF Up
<1>23. CASE name = "process_model/01"
  BY <1>23, <1>0, ProcessModelPlans, Zenon DEF Up
<1>24. CASE name = "process_model/02"
  BY <1>24, <1>0, ProcessModelPlans, Zenon DEF Up
<1>25. CASE name = "process_model/2019-06-26"
  BY <1>25, <1>0, ProcessModelPlans, Zenon DEF Up
<1>26. CASE name = "process_model/2019-11-08"
  BY <1>26, <1>0, ProcessModelPlans, Zenon DEF Up
<1> QED
  BY <1>1, <1>2, <1>3, <1>4, <1>5, <1>6, <1>7, <1>8, <1>9, <1>10, <1>11, <1>12, <1>13,
     <1>14, <1>15, <1>16, <1>17, <1>18, <1>19, <1>20, <1>21, <1>22, <1>23, <1>24,
     <1>25, <1>26

\* What a script computes from the rows it selected: the copies of the tasks, or
\* what keeps the states of the correlations in step.
CopiesOf(rows) ==
  [i \in DOMAIN rows |-> InsertRow("external_tasks_new", CopiedTask(rows[i]))]

\* The statements that insert the copied tasks are allowed.
LEMMA CopiesAreRest ==
  ASSUME NEW rows, NEW n \in Nat, DOMAIN rows = 1..n
  PROVE  IsRest(CopiesOf(rows))
<1> DEFINE copies == CopiesOf(rows)
<1>1. \A row : Allowed(InsertRow("external_tasks_new", CopiedTask(row)))
  <2> TAKE row
  <2>1. DOMAIN CopiedTask(row) = DOMAIN MigratedTaskColumns
    BY Zenon DEF CopiedTask
  <2>2. \A c : Interpolated(row, c) # Null
    BY DEF Interpolated, Null, NullText, UndefinedText
  <2>3. \A c \in DOMAIN MigratedTaskColumns : CopiedTask(row)[c] # Null
    BY <2>2 DEF CopiedTask
  <2> HIDE DEF Null
  <2> QED
    BY <2>1, <2>3 DEF Allowed, InsertRow, Operations, ChangesTable, IsCaught, IsAwaited
<1>2. \A i \in 1..n : Allowed(copies[i])
  BY <1>1 DEF CopiesOf
<1>3. DOMAIN copies = 1..n /\ copies = [i \in 1..n |-> copies[i]]
  BY DEF CopiesOf
<1> HIDE DEF copies
<1>4. IsRest(copies)
  BY ONLY <1>2, <1>3, n \in Nat, RestBy
<1> QED
  BY <1>4 DEF copies

\* So is what a script does with the rows that a SELECT returned.
LEMMA ContinuationPlan ==
  ASSUME NEW db, NEW s, WellFormed(db), Succeeds(db, s) \/ s.op # "select"
  PROVE  /\ s.op # "select" => Continuation(db, s) = <<>>
         /\ s.op = "select" /\ s.use = "copy tasks" =>
              Continuation(db, s) = CopiesOf(db[s.table].rows)
         /\ s.op = "select" /\ s.use # "copy tasks" => IsPlan(Continuation(db, s))
         /\ IsRest(Continuation(db, s))
<1>1. CASE s.op # "select"
  BY <1>1, NoPlan, Zenon DEF Continuation
<1>2. CASE s.op = "select"
  <2> DEFINE rows == db[s.table].rows
  <2>1. \E n \in Nat : DOMAIN rows = 1..n
    <3>1. Exists(db, s.table)
      BY <1>2 DEF Succeeds
    <3>2. IsTable(db[s.table])
      BY <3>1 DEF WellFormed, IsDatabase, Exists
    <3>3. rows \in Seq(ToSet(rows))
      BY <3>2, TableOf
    <3> HIDE DEF rows
    <3>4. Len(rows) \in Nat /\ DOMAIN rows = 1..Len(rows)
      BY <3>3
    <3> QED
      BY <3>4
  <2>2. PICK n \in Nat : DOMAIN rows = 1..n
    BY <2>1
  <2> DEFINE queries == [i \in DOMAIN rows |->
                           QueryStates("active", i, rows[i].processInstanceId)]
             copies == CopiesOf(rows)
  <2>3. IsPlan(queries)
    <3>1. \A i \in 1..n : Fits(queries[i])
      BY <2>2, FitsWrapped
    <3>2. DOMAIN queries = 1..n /\ queries = [i \in 1..n |-> queries[i]]
      BY <2>2
    <3> HIDE DEF queries
    <3> QED
      BY <3>1, <3>2, PlanBy
  <2>4. IsRest(copies)
    BY <2>2, CopiesAreRest
  <2>5. IsPlan(SyncState(db, s))
    <3>1. \A i, value : IsPlan(updateStateForId(i, value))
      BY FitsWrapped, PlanOf1 DEF updateStateForId
    <3>2. \A i, instance : IsPlan(<<QueryStates("erroneous", i, instance)>>)
      BY FitsWrapped, PlanOf1
    <3> QED
      BY <3>1, <3>2, NoPlan, ZenonT(30) DEF SyncState
  <2>6. CASE s.use = "copy tasks"
    <3>1. Continuation(db, s) = copies
      BY <1>2, <2>6, ZenonT(30) DEF Continuation, CopiesOf
    <3> QED
      BY <1>2, <2>4, <2>6, <3>1, Zenon
  <2>7. CASE s.use # "copy tasks"
    <3> HIDE DEF queries, copies
    <3>1. Continuation(db, s) = queries \/ Continuation(db, s) = SyncState(db, s)
      BY <1>2, <2>7, ZenonT(30) DEF Continuation, queries, rows
    <3>2. IsPlan(Continuation(db, s))
      BY <2>3, <2>5, <3>1
    <3> QED
      BY <1>2, <2>7, <3>2, PlanIsRest
  <2> QED
    BY <2>6, <2>7
<1> QED
  BY <1>1, <1>2

-----------------------------------------------------------------------------
(* The inductive invariant.  TypeOK is not inductive: a statement keeps    *)
(* the tables well formed only if it fits, so what is left of the script,  *)
(* and what was sent and not waited for, must.                             *)

TablesInv ==
  /\ DOMAIN databases = Databases
  /\ \A d \in Databases : WellFormed(databases[d])
  /\ IsRest(todo)
  /\ IsRest(unawaited)
  /\ \A i \in DOMAIN unawaited : ~IsAwaited(unawaited[i])

\* A start finds well formed tables, and no statement is left from before.
LEMMA TablesInit == Init => TablesInv
BY InitialTablesAssumption, NoPlan DEF Init, TablesInv, Databases

\* A statement that succeeds or changes nothing keeps every database well formed.
LEMMA StoreStaysWellFormed ==
  ASSUME RunnerInv, TablesInv, UNCHANGED meta, NEW s, Allowed(s),
         databases' = IF Succeeds(databases[Database], s)
                      THEN [databases EXCEPT ![Database] = After(databases[Database], s)]
                      ELSE databases
  PROVE  /\ DOMAIN databases' = Databases'
         /\ \A d \in Databases' : WellFormed(databases'[d])
<1>1. Database \in Databases /\ Databases' = Databases
  BY CurrentFacts DEF RunnerInv, Databases
<1>2. CASE Succeeds(databases[Database], s)
  <2>1. WellFormed(After(databases[Database], s))
    BY <1>1, <1>2, AfterWellFormed DEF TablesInv
  <2>2. databases' = [databases EXCEPT ![Database] = After(databases[Database], s)]
    BY <1>2
  <2> QED
    BY <1>1, <2>1, <2>2 DEF TablesInv
<1>3. CASE ~Succeeds(databases[Database], s)
  BY <1>1, <1>3 DEF TablesInv
<1> QED
  BY <1>2, <1>3

\* Every step keeps the tables well formed and the statements allowed.
LEMMA TablesStep == RunnerInv /\ TablesInv /\ [Next]_vars => TablesInv'
<1> SUFFICES ASSUME RunnerInv, TablesInv, [Next]_vars PROVE TablesInv'
  OBVIOUS
<1>0. ASSUME UNCHANGED <<databases, meta, todo, unawaited>> PROVE TablesInv'
  BY <1>0 DEF TablesInv, Databases
<1>1. CASE StartRuntime \/ StatementFails \/ FinishRepository
  BY <1>0, <1>1 DEF StartRuntime, StatementFails, FinishRepository, store
<1>2. CASE BeginScript
  <2>1. PICK i \in DOMAIN Scripts : todo' = Up(Scripts[i], databases[Database])
    BY <1>2 DEF BeginScript
  <2>2. IsRest(todo')
    BY <2>1, CurrentFacts, UpPlan DEF RunnerInv
  <2>3. UNCHANGED <<databases, meta, unawaited>>
    BY <1>2 DEF BeginScript, store
  <2> QED
    BY <2>2, <2>3 DEF TablesInv, Databases
<1>3. CASE SendUnawaited
  <2>1. Allowed(Head(todo)) /\ IsRest(Tail(todo))
    BY <1>3, RestTail DEF SendUnawaited, TablesInv
  <2>2. IsRest(unawaited')
    <3>1. IsRest(unawaited \o <<Head(todo)>>)
      BY <2>1, RestOf1, RestJoined DEF TablesInv
    <3>2. unawaited' = unawaited \o <<Head(todo)>>
      <4> DEFINE S == ToSet(unawaited)
                 x == Head(todo)
      <4>1. unawaited \in Seq(S)
        BY DEF TablesInv, IsRest, IsSequence
      <4>2. unawaited' = Append(unawaited, x)
        BY <1>3 DEF SendUnawaited
      <4> HIDE DEF S, x
      <4>3. Append(unawaited, x) = unawaited \o <<x>>
        BY ONLY <4>1
      <4> QED
        BY <4>2, <4>3 DEF x
    <3> QED
      BY <3>1, <3>2
  <2>3. \A i \in DOMAIN unawaited' : ~IsAwaited(unawaited'[i])
    <3> DEFINE S == ToSet(unawaited)
               x == Head(todo)
    <3>1. /\ unawaited \in Seq(S) /\ unawaited' = Append(unawaited, x) /\ ~IsAwaited(x)
          /\ \A i \in DOMAIN unawaited : ~IsAwaited(unawaited[i])
      BY <1>3 DEF SendUnawaited, TablesInv, IsRest, IsSequence
    <3> HIDE DEF S, x
    <3> QED
      BY ONLY <3>1
  <2>4. todo' = Tail(todo) /\ UNCHANGED <<databases, meta>>
    BY <1>3 DEF SendUnawaited, store
  <2> QED
    BY <2>1, <2>2, <2>3, <2>4 DEF TablesInv, Databases
<1>4. CASE ExecuteStatement
  <2> DEFINE db == databases[Database]
             s == Head(todo)
  <2>1. /\ Allowed(s) /\ IsRest(Tail(todo))
    BY <1>4, RestTail DEF ExecuteStatement, TablesInv
  <2>2. /\ ~Succeeds(db, s) => IsCaught(s)
        /\ databases' = IF Succeeds(db, s)
                        THEN [databases EXCEPT ![Database] = After(db, s)] ELSE databases
        /\ todo' = Continuation(db, s) \o Tail(todo)
        /\ UNCHANGED <<meta, unawaited>>
    BY <1>4 DEF ExecuteStatement
  <2>3. Succeeds(db, s) \/ s.op # "select"
    BY <2>1, <2>2 DEF Allowed
  <2>4. WellFormed(db)
    BY CurrentFacts DEF RunnerInv, TablesInv
  <2> HIDE DEF db, s
  <2>5. IsRest(todo')
    BY <2>1, <2>2, <2>3, <2>4, ContinuationPlan, RestJoined
  <2>6. /\ DOMAIN databases' = Databases'
        /\ \A d \in Databases' : WellFormed(databases'[d])
    BY <2>1, <2>2, StoreStaysWellFormed DEF db
  <2> QED
    BY <2>2, <2>5, <2>6 DEF TablesInv
<1>5. CASE UnawaitedTakesEffect
  <2> DEFINE db == databases[Database]
             s == Head(unawaited)
  <2>1. Allowed(s) /\ IsRest(Tail(unawaited))
    BY <1>5, RestTail DEF UnawaitedTakesEffect, TablesInv
  <2>2. /\ databases' = IF Succeeds(db, s)
                        THEN [databases EXCEPT ![Database] = After(db, s)] ELSE databases
        /\ unawaited' = Tail(unawaited) /\ unawaited # <<>>
        /\ UNCHANGED <<meta, todo>>
    BY <1>5 DEF UnawaitedTakesEffect
  <2> HIDE DEF s
  <2>3. /\ DOMAIN databases' = Databases'
        /\ \A d \in Databases' : WellFormed(databases'[d])
    BY <2>1, <2>2, StoreStaysWellFormed
  <2>4. \A i \in DOMAIN unawaited' : ~IsAwaited(unawaited'[i])
    <3> DEFINE S == ToSet(unawaited)
    <3>1. /\ unawaited \in Seq(S) /\ unawaited' = Tail(unawaited) /\ unawaited # <<>>
          /\ \A i \in DOMAIN unawaited : ~IsAwaited(unawaited[i])
      BY <2>2 DEF TablesInv, IsRest, IsSequence
    <3> HIDE DEF S
    <3> QED
      BY ONLY <3>1
  <2> QED
    BY <2>1, <2>2, <2>3, <2>4 DEF TablesInv
<1>6. CASE LogMigration
  <2>1. Databases' = Databases
    BY <1>6 DEF LogMigration, Databases, RunnerInv
  <2> QED
    BY <1>6, <2>1 DEF LogMigration, TablesInv
<1>7. CASE Stop
  BY <1>7, NoPlan DEF Stop, store, TablesInv, Databases
<1>8. CASE UNCHANGED vars
  BY <1>0, <1>8 DEF vars
<1> QED
  BY <1>1, <1>2, <1>3, <1>4, <1>5, <1>6, <1>7, <1>8 DEF Next, Progress

\* Whatever is left of a script, or was sent and not waited for, is a statement that
\* keeps a well formed database well formed, and every database is: an interrupted
\* script leaves tables that the next attempt can take up (sequelize/migrations).
THEOREM TablesInvariant == Spec => []TablesInv
<1>1. RunnerInv /\ RunnerInv' /\ TablesInv /\ [Next]_vars => TablesInv'
  BY TablesStep
<1> QED
  BY <1>1, TablesInit, RunnerInvariant, PTL DEF Spec

\* After every statement of every script each table has a column for each value
\* of its rows, indexes and declares unique only columns it has, and keeps its
\* id and createdAt, whatever the databases a start finds and wherever starts
\* were interrupted (sequelize/migrations).
THEOREM TypeCorrect == Spec => []TypeOK
<1>1. RunnerInv /\ TablesInv => TypeOK
  BY DEF RunnerInv, TablesInv, TypeOK, WellFormed
<1> QED
  BY <1>1, RunnerInvariant, TablesInvariant, PTL

=============================================================================

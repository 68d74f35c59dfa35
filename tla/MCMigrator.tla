----------------------------- MODULE MCMigrator -----------------------------
(***************************************************************************)
(* Instances of Migrator for TLC: the stores earlier releases left.        *)
(***************************************************************************)
EXTENDS MigratorProperties

\* All a script does when nothing interrupts it.  The test of each result makes
\* TLC compute it before it goes on: it would nest the calls too deeply.
RECURSIVE RunStatements(_, _)
RunStatements(db, statements) ==
  IF statements = <<>> THEN db
  ELSE LET s == Head(statements)
           after == IF Succeeds(db, s) THEN After(db, s) ELSE db
       IN  IF DOMAIN after = {} THEN after
           ELSE RunStatements(after, Continuation(db, s) \o Tail(statements))

RECURSIVE RunScripts(_, _)
RunScripts(db, scripts) ==
  IF scripts = <<>> THEN db
  ELSE LET after == RunStatements(db, Up(Head(scripts), db))
       IN  IF DOMAIN after = {} THEN after ELSE RunScripts(after, Tail(scripts))

Empty == [t \in {} |-> {}]

-----------------------------------------------------------------------------
(* Rows.  createdAt is the key of a row; a column without a value of its   *)
(* own has one no other column has.                                        *)

Row(table, key, values) ==
  [c \in IF table.columns["id"] = "INTEGER" THEN DOMAIN table.columns \ {"id"}
         ELSE DOMAIN table.columns |->
     IF c \in DOMAIN values THEN values[c]
     ELSE IF c = "createdAt" THEN key ELSE key \o c]

Put(db, table, key, values) ==
  IF Exists(db, table)
  THEN [db EXCEPT ![table].rows = Append(@, Row(db[table], key, values))]
  ELSE db

\* Process instance 1 still runs although one of its flow nodes failed,
\* instance 2 failed, instance 3 finished.
Correlation(n, p, state) ==
  [correlationId |-> "correlation " \o n, processInstanceId |-> "instance " \o n,
   processModelHash |-> "hash " \o p, processModelId |-> "model",
   identity |-> "user " \o n, state |-> state]

FlowNodeInstance(f, n, state) ==
  [flowNodeInstanceId |-> "node " \o f, state |-> state,
   processInstanceId |-> "instance " \o n, correlationId |-> "correlation " \o n,
   processModelId |-> "model", identity |-> "user " \o n]

Token(f, n) ==
  [flowNodeInstanceId |-> "node " \o f, processInstanceId |-> "instance " \o n,
   correlationId |-> "correlation " \o n, processModelId |-> "model",
   identity |-> "user " \o n, caller |-> Null]

\* Task 1 waits for a worker, task 2 is done.
WaitingTask ==
  [workerId |-> Null, lockExpirationTime |-> Null, finishedAt |-> Null,
   result |-> Null, error |-> Null, version |-> Null, state |-> "pending"]

FinishedTask == [error |-> Null, version |-> Null, state |-> "finished"]

PutCorrelations(db) ==
  Put(Put(Put(db, "Correlations", "c1", Correlation("1", "a", "running")),
                  "Correlations", "c2", Correlation("2", "b", "error")),
                  "Correlations", "c3", Correlation("3", "b", "finished"))

PutFlowNodeInstances(db) ==
  Put(Put(Put(Put(db, "FlowNodeInstances", "f1", FlowNodeInstance("1", "1", "running")),
                      "FlowNodeInstances", "f2", FlowNodeInstance("2", "1", "error")),
                      "FlowNodeInstances", "f3", FlowNodeInstance("3", "2", "terminated")),
                      "FlowNodeInstances", "f4", FlowNodeInstance("4", "3", "finished"))

\* Flow node instance 1 has two tokens.
PutTokens(db) ==
  Put(Put(Put(Put(Put(db, "ProcessTokens", "p1", Token("1", "1")),
                          "ProcessTokens", "p2", Token("2", "1")),
                          "ProcessTokens", "p3", Token("3", "2")),
                          "ProcessTokens", "p4", Token("4", "3")),
                          "ProcessTokens", "p5", Token("1", "1"))

PutTasks(db) ==
  Put(Put(db, "ExternalTasks", "t1", WaitingTask),
              "ExternalTasks", "t2", FinishedTask)

\* Two versions of one process model.
PutModels(db) ==
  Put(Put(db, "ProcessDefinitions", "m1", [name |-> "model", hash |-> "hash a"]),
              "ProcessDefinitions", "m2", [name |-> "model", hash |-> "hash b"])

PutRows(db) ==
  PutModels(PutTasks(PutTokens(PutFlowNodeInstances(PutCorrelations(db)))))

-----------------------------------------------------------------------------
(* Stores.  A release has run the first release[r] scripts of repository r. *)

Ran(release, r) == SubSeq(ScriptsOf[r], 1, release[r])

\* The scripts a release ran in one of the databases, by the layout of them.
RanIn(release, layout, d) ==
  FoldLeft(LAMBDA s, r : IF layout = {d} \/ r = d THEN s \o Ran(release, r) ELSE s,
           <<>>, RepositoryOrder)

StoreOf(release, layout) ==
  [databases |-> [d \in layout |-> PutRows(RunScripts(Empty, RanIn(release, layout, d)))],
   meta |-> [d \in layout |-> ToSet(RanIn(release, layout, d))]]

Release(c, j, e, f, p) ==
  [r \in Repositories |->
     CASE r = "correlation" -> c
       [] r = "cronjob_history" -> j
       [] r = "external_task" -> e
       [] r = "flow_node_instance" -> f
       [] r = "process_model" -> p]

\* A new installation: no table at all.
NewStore(layout) ==
  [databases |-> [d \in layout |-> Empty], meta |-> [d \in layout |-> {}]]

\* Another user has started process instance 4, of another model, in correlation
\* 1: the tokens of that correlation are not all of one instance, and the first
\* of them is not of the model that the hash of correlation c1 names.
SecondInstance ==
  [processInstanceId |-> "instance 4", correlationId |-> "correlation 1",
   processModelId |-> "other model", identity |-> "user 4"]

PutSecondInstance(db) ==
  Put(Put(Put(db, "Correlations", "c4",
                  [correlationId |-> "correlation 1", processModelHash |-> "hash c"]),
              "FlowNodeInstances", "f5",
                  [flowNodeInstanceId |-> "node 5", state |-> "finished"]),
              "ProcessTokens", "p0", [flowNodeInstanceId |-> "node 5"] @@ SecondInstance)

\* Before umzug: the tables of the first scripts, made by the repositories
\* themselves, nothing logged.  Correlations lacks the columns that
\* correlation/01 says were added after 1.0.0; ProcessDefinitions has its hash.
FirstTables(layout, d) ==
  LET db == RunScripts(Empty, RanIn(Release(1, 0, 1, 1, 2), layout, d))
      later == {"identity", "processModelId", "processInstanceId"}
  IN  [t \in DOMAIN db |->
         IF t # "Correlations" THEN db[t]
         ELSE [db[t] EXCEPT !.columns = [c \in DOMAIN @ \ later |-> @[c]]]]

UnloggedStore(layout) ==
  [databases |-> [d \in layout |-> PutRows(PutSecondInstance(FirstTables(layout, d)))],
   meta |-> [d \in layout |-> {}]]

\* The last release before correlations got a state.
StatelessStore(layout) == StoreOf(Release(4, 0, 2, 4, 3), layout)

\* This release.
CurrentStore(layout) == StoreOf(Release(7, 1, 4, 8, 5), layout)

Shared == {"correlation"}
StoresOf(layout) ==
  {NewStore(layout), UnloggedStore(layout), StatelessStore(layout),
   CurrentStore(layout)}

\* SQLite serves either layout, Postgres and MySQL a shared database.
SharedStores == StoresOf(Shared)

\* A shared store that nothing was logged in is left to Postgres: the states of
\* its correlations cannot be told before the tokens are migrated.
AllStores ==
  StoresOf(Repositories) \union (SharedStores \ {UnloggedStore(Shared)})
NewSharedStores == {NewStore(Shared)}
StatelessSharedStores == {StatelessStore(Shared)}

\* Their scripts ran to the end.
ASSUME NoCopiesAssumption == NoCopiesLeft

\* The rows of one process instance name its correlation and its user.
ASSUME CorrelationsAssumption == CorrelationsFit

\* SQLite gets no store whose correlations cannot be told their states.
ASSUME StatesAssumption == Dialect = "sqlite" => StatesFit

-----------------------------------------------------------------------------
Schema(dbs) ==
  [d \in DOMAIN dbs |->
     [t \in DOMAIN dbs[d] |-> <<dbs[d][t].columns, dbs[d][t].indexes>>]]

CurrentSchemas == [layout \in Layouts |-> Schema(CurrentStore(layout).databases)]
CurrentSchema == CurrentSchemas[Databases]

\* A start that succeeds leaves the tables of a new installation: the same
\* columns of the same types and the same indexes, whatever release it started
\* from and however often it was cut off (all scripts of sequelize/migrations).
SchemaConverges ==
  status = "migrated" =>
    \A d \in Databases : \A t \in DOMAIN CurrentSchema[d] :
      Exists(databases[d], t) /\ Schema(databases)[d][t] = CurrentSchema[d][t]

=============================================================================

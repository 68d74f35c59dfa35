-------------------------- MODULE MigratorProperties --------------------------
(***************************************************************************)
(* What the migration of the repositories promises.                        *)
(***************************************************************************)
EXTENDS Migrator

LiveTables ==
  {"Correlations", "CronjobHistory", "ExternalTasks", "FlowNodeInstances",
   "ProcessTokens", "ProcessDefinitions"}

\* The tables that a script rebuilds, the temporary one that stands in for each
\* while it does, and the columns it brings along.
Rebuilt == LiveTables \ {"CronjobHistory"}

TemporaryOf ==
  [t \in LiveTables |->
    CASE t = "Correlations" -> "correlations_new"
      [] t = "ExternalTasks" -> "external_tasks_new"
      [] t = "FlowNodeInstances" -> "FlowNodeInstances_New"
      [] t = "ProcessTokens" -> "processtokens_new"
      [] t = "ProcessDefinitions" -> "ProcessDefinitions_New"
      [] OTHER -> "none"]

MigratedColumns ==
  [t \in Rebuilt |->
    CASE t = "Correlations" -> MigratedCorrelationColumns
      [] t = "ExternalTasks" -> MigratedTaskColumns
      [] t = "FlowNodeInstances" -> MigratedInstanceColumns
      [] t = "ProcessTokens" -> MigratedTokenColumns
      [] t = "ProcessDefinitions" -> MigratedModelColumns]

TableNames == LiveTables \union {TemporaryOf[t] : t \in Rebuilt}

RowsOf(db, table) == IF Exists(db, table) THEN db[table].rows ELSE <<>>

-----------------------------------------------------------------------------
(* Type.                                                                   *)

\* Every row has a value for each column but an autoincremented id.
IsTable(table) ==
  /\ DOMAIN table = {"columns", "unique", "indexes", "rows"}
  /\ {"id", "createdAt"} \subseteq DOMAIN table.columns
  /\ table.unique \subseteq DOMAIN table.columns
  /\ \A index \in table.indexes : ToSet(index) \subseteq DOMAIN table.columns
  /\ table.rows \in Seq(ToSet(table.rows))
  /\ \A i \in DOMAIN table.rows :
       DOMAIN table.rows[i] =
         IF table.columns["id"] = "INTEGER" THEN DOMAIN table.columns \ {"id"}
         ELSE DOMAIN table.columns

IsDatabase(db) ==
  DOMAIN db \subseteq TableNames /\ \A t \in DOMAIN db : IsTable(db[t])

\* A temporary table that an interrupted start left has the columns that the
\* next attempt copies to, and nothing of a token is unique or indexed that
\* flow_node_instance/03 will remove.
TemporaryFits(db) ==
  \A t \in Rebuilt : Exists(db, TemporaryOf[t]) =>
    db[TemporaryOf[t]].columns = With(MigratedColumns[t], "id", "INTEGER")

TokensFit(db) ==
  \A t \in {"ProcessTokens", "processtokens_new"} : Exists(db, t) =>
    db[t].unique = {} /\ db[t].indexes \subseteq {<<"flowNodeInstanceId">>}

WellFormed(db) == IsDatabase(db) /\ TemporaryFits(db) /\ TokensFit(db)

\* The tables a start finds are those that these scripts, or the repositories
\* of the releases before them, have made.
ASSUME InitialTablesAssumption ==
  \A s \in InitialStores :
    /\ DOMAIN s.databases = DOMAIN s.meta
    /\ \A d \in DOMAIN s.databases : WellFormed(s.databases[d])

\* The state the process keeps, whatever the scripts do.
RunnerTypeOK ==
  /\ Databases \in Layouts
  /\ meta \in [Databases -> SUBSET ScriptNames]
  /\ status \in Statuses
  /\ current \in 1..Len(RepositoryOrder)
  /\ script \in ScriptNames \union {NoScript}
  /\ restarts \in 0..MaxRestarts

TodoBelongsToScript == script = NoScript => todo = <<>>

\* Every table is well formed after every statement of every script, and a
\* statement is left to run only while a script runs.
TypeOK ==
  /\ RunnerTypeOK
  /\ DOMAIN databases = Databases
  /\ \A d \in Databases : IsDatabase(databases[d])
  /\ TodoBelongsToScript
  /\ \A i \in DOMAIN unawaited : ~IsAwaited(unawaited[i])

-----------------------------------------------------------------------------
(* The log of umzug.                                                       *)

Logged(repository, i) ==
  ScriptsOf[repository][i] \in meta[DatabaseOf(repository)]

Complete(repository) == \A i \in DOMAIN ScriptsOf[repository] : Logged(repository, i)

\* A script is in SequelizeMeta only after every script of its repository that
\* comes before it by name: no start ever runs scripts out of order, wherever
\* the starts before it ended (migrator.ts, umzug.up()).
LogIsPrefix ==
  \A r \in Repositories : \A j \in DOMAIN ScriptsOf[r] :
    Logged(r, j) => \A i \in 1..(j - 1) : Logged(r, i)

\* While the scripts of a repository run, those of every repository before it
\* in runMigrations are complete, and a start that reports success has
\* completed all of them (main.ts, runMigrations).
RepositoriesInOrder ==
  /\ status = "migrating" =>
       \A k \in 1..(current - 1) : Complete(RepositoryOrder[k])
  /\ status = "migrated" => \A r \in Repositories : Complete(r)

\* Once every script is logged no start changes a table again: a later start
\* of an up to date runtime leaves the data alone (migrator.ts, umzug.up()).
\* Only a statement that was sent and not waited for can still arrive.
CompleteStoreUntouched ==
  [][(\A r \in Repositories : Complete(r)) /\ unawaited = <<>>
       => databases' = databases]_vars

-----------------------------------------------------------------------------
(* The rows of the tables.                                                 *)

\* createdAt identifies a row: no script changes it.
KeysIn(db, table) == {row.createdAt : row \in ToSet(RowsOf(db, table))}

\* Columns no script computes anew.
KeptColumns ==
  [t \in LiveTables |->
    CASE t = "Correlations" -> {"correlationId", "processModelHash"}
      [] t = "CronjobHistory" -> {"crontab", "executedAt"}
      [] t = "ExternalTasks" -> {"topic", "flowNodeInstanceId", "correlationId",
                                 "processInstanceId", "state", "createdAt"}
      [] t = "FlowNodeInstances" ->
           {"flowNodeInstanceId", "flowNodeId", "state", "error"}
      [] t = "ProcessTokens" -> {"flowNodeInstanceId", "type", "payload"}
      [] t = "ProcessDefinitions" -> {"name", "xml"}]

\* No row is ever lost, and each keeps the values it was stored with: what a
\* table and the temporary one that is about to replace it hold in the columns
\* no script computes anew is the same after every statement, at whichever of
\* them the process ends (correlation/03, external_task/02,
\* flow_node_instance/02, process_model/02).
KeptRow(row, table) ==
  <<row.createdAt, [c \in KeptColumns[table] \intersect DOMAIN row |-> row[c]]>>

KeptIn(db, table, of) == {KeptRow(row, table) : row \in ToSet(RowsOf(db, of))}

KeptRows(db, table) ==
  KeptIn(db, table, table) \union KeptIn(db, table, TemporaryOf[table])

ValuesKept ==
  [][\A d \in Databases, t \in LiveTables :
       KeptRows(databases[d], t) = KeptRows(databases'[d], t)]_vars

\* A value that external_task/02 writes into the text of its INSERT comes out as
\* it was unless it is null: none of these ever is, external_task/00 declares
\* five of them NOT NULL and the repositories set createdAt.
Copyable(row) ==
  \A c \in KeptColumns["ExternalTasks"] : c \in DOMAIN row /\ row[c] # Null

\* What an interrupted external_task/02 left is a copy of rows that are still
\* there, unless it had dropped their table.
TasksFit(db) ==
  /\ \A t \in {"ExternalTasks", "external_tasks_new"} :
       \A row \in ToSet(RowsOf(db, t)) : Copyable(row)
  /\ Exists(db, "ExternalTasks") =>
       KeptIn(db, "ExternalTasks", "external_tasks_new")
         \subseteq KeptIn(db, "ExternalTasks", "ExternalTasks")

\* The tasks a start finds are those that the repositories stored, and only
\* external_task/02, which runs after external_task/00, makes a temporary table.
ASSUME InitialTasksAssumption ==
  \A s \in InitialStores : \A d \in DOMAIN s.databases :
    /\ TasksFit(s.databases[d])
    /\ Exists(s.databases[d], "external_tasks_new") =>
         ScriptsOf["external_task"][1]
           \in s.meta[IF "external_task" \in DOMAIN s.meta THEN "external_task"
                     ELSE "correlation"]

\* How often the row with some key is in a table.
Copies(db, table, key) ==
  Cardinality({i \in DOMAIN RowsOf(db, table) :
                 RowsOf(db, table)[i].createdAt = key})

\* A store in which no start has ever been cut off has none of them: every
\* row is there once, in its table and in no temporary one.
NoCopiesLeft ==
  \A s \in InitialStores : \A d \in DOMAIN s.databases, t \in LiveTables :
    /\ Distinct(RowsOf(s.databases[d], t), "createdAt")
    /\ RowsOf(s.databases[d], TemporaryOf[t]) = <<>>

\* A row has one copy, and one more for each restart at the most: only a script
\* that is cut off between its copy and its drop leaves rows behind that the
\* next attempt copies again (correlation/03, process_model/02).
CopiesBounded ==
  \A d \in Databases, t \in LiveTables :
    \A key \in KeysIn(databases[d], t) :
      Copies(databases[d], t, key) <= 1 + restarts

-----------------------------------------------------------------------------
(* Which scripts fail.                                                     *)

\* These cannot be run again after an attempt that was cut off: they look at no
\* column or index they add, at several of them together, or they need the
\* table that the attempt has just dropped.
NotRepeatable ==
  {"correlation/03", "correlation/04", "correlation/2019-06-26",
   "external_task/02", "external_task/2019-06-26",
   "flow_node_instance/01", "flow_node_instance/02", "flow_node_instance/03",
   "flow_node_instance/2019-06-26", "flow_node_instance/2019-10-10",
   "process_model/02", "process_model/2019-06-26", "process_model/2019-11-08"}

\* These can fail where nothing was cut off: correlation/04 selects from a name
\* Postgres folds to lower case, external_task/02 races with its own drop and
\* inserts the text 'null' where only SQLite takes it.
Unreliable ==
  IF Dialect = "sqlite" THEN {} ELSE {"correlation/04", "external_task/02"}

\* A start fails in an unreliable script, or in one that cannot be repeated and
\* that a start before it left half done.  On SQLite a start that follows no
\* interrupted one never fails.
FailsOnlyWhereKnown ==
  status = "failed" =>
    script \in Unreliable \/ (restarts > 0 /\ script \in NotRepeatable)

\* The drop that external_task/02 does not wait for removes what an earlier
\* attempt left, as its comment says (external_task/02, lines 24 to 30), and
\* never the table that this attempt has created.
DropsOnlyLeftovers ==
  [][(Exists(databases[Database], "external_tasks_new")
      /\ unawaited # <<>> /\ unawaited' = <<>> /\ status' = "migrating")
       => \E i \in DOMAIN todo : todo[i].op = "createTable"]_vars

-----------------------------------------------------------------------------
(* What the scripts carry over between the tables.                         *)

AllRows(table) ==
  UNION {ToSet(RowsOf(databases[d], table)) : d \in Databases}

StatesOf(instances, processInstance) ==
  {row.state : row \in {r \in instances : /\ "processInstanceId" \in DOMAIN r
                                         /\ r.processInstanceId = processInstance}}

\* A correlation is "running" while a flow node of its process instance is
\* active, whatever else failed in it, and "error" if one failed and none is
\* active: so the comment in correlation/04, lines 86 to 94.
ExpectedState(instances, processInstance) ==
  IF StatesOf(instances, processInstance) \intersect {"running", "suspended"} # {}
  THEN "running"
  ELSE IF StatesOf(instances, processInstance) \intersect {"error", "terminated"} # {}
       THEN "error"
       ELSE "finished"

CorrelationStatesSynced ==
  Logged("correlation", 5) =>
    \A row \in AllRows("Correlations") :
      row.state = ExpectedState(AllRows("FlowNodeInstances"), row.processInstanceId)

\* So it is where both tables share a database and nothing cut the script off:
\* with a file per repository it finds no table to compare with (line 71), and
\* an attempt after the first finds the columns and returns (lines 20 to 23).
StatesSyncedIfPossible ==
  Databases = {"correlation"} /\ restarts = 0 => CorrelationStatesSynced

\* The correlations a start finds in a shared database have the state of their flow
\* node instances once correlation/04 is logged: the engine stores both.  Those that
\* it has yet to give a state have none, and the flow node instances there name
\* their process instances: a release that ran flow_node_instance/03 had run the
\* scripts of the correlations up to correlation/03 before it.
StatesFit ==
  \A s \in InitialStores : DOMAIN s.databases = {"correlation"} =>
    LET db == s.databases["correlation"]
        isLogged(r, i) == ScriptsOf[r][i] \in s.meta["correlation"]
        instances == ToSet(RowsOf(db, "FlowNodeInstances"))
        correlations == ToSet(RowsOf(db, "Correlations"))
    IN  \/ correlations = {} /\ RowsOf(db, "correlations_new") = <<>>
        \/ /\ isLogged("correlation", 4) /\ isLogged("flow_node_instance", 4)
           /\ \A r \in instances : "processInstanceId" \in DOMAIN r => "state" \in DOMAIN r
           /\ \A row \in correlations : "processInstanceId" \in DOMAIN row
           /\ IF isLogged("correlation", 5)
              THEN \A row \in correlations :
                     /\ "state" \in DOMAIN row
                     /\ row.state = ExpectedState(instances, row.processInstanceId)
              ELSE ~HasColumn(db, "Correlations", "state")

\* Rows that say to which process instance a flow node instance belongs: its
\* token before flow_node_instance/03, the flow node instance itself after it.
InstanceTables ==
  {"FlowNodeInstances", "FlowNodeInstances_New", "ProcessTokens", "processtokens_new"}

NamingRows(db, table) ==
  {r \in ToSet(RowsOf(db, table)) : "processInstanceId" \in DOMAIN r}

PlacedIn(db) ==
  {r \in UNION {NamingRows(db, t) : t \in InstanceTables} : r.processInstanceId # ""}

PlacedRows(dbs) == UNION {PlacedIn(dbs[d]) : d \in Databases}

\* A correlation that has tokens gets the process instance and the identity of
\* one and the same of them, where they share a database and correlation/01 was
\* not cut off: the next attempt would find the columns and leave them empty
\* (correlation/01, lines 24 to 31 and 84 to 110).
IsFilled(correlation, placed) ==
  LET own == {r \in placed : r.correlationId = correlation.correlationId}
  IN  own # {} => \E r \in own : /\ r.processInstanceId = correlation.processInstanceId
                                 /\ r.identity = correlation.identity

CorrelationsFilled ==
  Databases = {"correlation"} /\ restarts = 0 /\ Logged("correlation", 2) =>
    \A row \in AllRows("Correlations") : IsFilled(row, PlacedRows(databases))

\* Cut off at any statement and repeated, a correlation that has both never has
\* the process instance of one token and the identity of another
\* (correlation/01, lines 90 to 107: two queries for two tokens).
CorrelationsNeverMixed ==
  Databases = {"correlation"} =>
    \A row \in AllRows("Correlations") :
      /\ {"processInstanceId", "identity"} \subseteq DOMAIN row
      /\ row.processInstanceId # Null /\ row.identity # Null
      => IsFilled(row, PlacedRows(databases))

\* The process instance of a flow node instance, which its token names before
\* flow_node_instance/03 and the flow node instance itself after it, is known
\* at every statement (flow_node_instance/03: filled before it is removed).
Placed(dbs) ==
  {<<row.flowNodeInstanceId, row.processInstanceId>> : row \in PlacedRows(dbs)}

InstanceStaysKnown == [][Placed(databases) = Placed(databases')]_vars

\* A token names its process instance and a flow node instance that is stored,
\* and the rows of one flow node instance agree.  What an interrupted
\* flow_node_instance/02 left is a copy of rows that are still there, unless it
\* had dropped their table.
InstancesAgree(db, columns) ==
  /\ \A r \in PlacedIn(db) : columns \union {"flowNodeInstanceId"} \subseteq DOMAIN r
  /\ \A r, s \in PlacedIn(db) :
       r.flowNodeInstanceId = s.flowNodeInstanceId => \A c \in columns : r[c] = s[c]

InstancesFit(db) ==
  /\ InstancesAgree(db, {"processInstanceId"})
  /\ \A t \in {"ProcessTokens", "processtokens_new"} : \A token \in NamingRows(db, t) :
       /\ token.processInstanceId # ""
       /\ \E u \in {"FlowNodeInstances", "FlowNodeInstances_New"} :
            \E row \in ToSet(RowsOf(db, u)) :
              /\ "flowNodeInstanceId" \in DOMAIN row
              /\ row.flowNodeInstanceId = token.flowNodeInstanceId
  /\ Exists(db, "FlowNodeInstances") =>
       KeptIn(db, "FlowNodeInstances", "FlowNodeInstances_New")
         \subseteq KeptIn(db, "FlowNodeInstances", "FlowNodeInstances")

\* The tokens a start finds are those that the engine stored: the column of
\* their process instance and the foreign key of their flow node instance are NOT
\* NULL (flow_node_instance/00).  Only flow_node_instance/02 makes a temporary
\* table, after 00, and only flow_node_instance/03 gives a flow node instance a
\* process instance, after 02.
ASSUME InitialInstancesAssumption ==
  \A s \in InitialStores : \A d \in DOMAIN s.databases :
    LET db == s.databases[d]
        log == s.meta[IF "flow_node_instance" \in DOMAIN s.meta
                      THEN "flow_node_instance" ELSE "correlation"]
    IN  /\ InstancesFit(db)
        /\ Exists(db, "FlowNodeInstances_New") =>
             ScriptsOf["flow_node_instance"][1] \in log
        /\ NamingRows(db, "FlowNodeInstances") # {} =>
             ScriptsOf["flow_node_instance"][3] \in log

\* The correlations a start finds in a shared database are filled if they have the
\* columns for it: the repositories of later releases stored them so.  Those of the
\* first release, which correlation/01 has yet to fill, are there with the tokens of
\* that release.  All rows of one flow node instance name the same correlation and
\* the same identity.
CorrelationsFit ==
  \A s \in InitialStores :
    /\ \A d \in DOMAIN s.databases :
         InstancesAgree(s.databases[d], {"processInstanceId", "correlationId", "identity"})
    /\ DOMAIN s.databases = {"correlation"} =>
         LET db == s.databases["correlation"]
             isLogged == ScriptsOf["correlation"][2] \in s.meta["correlation"]
         IN  /\ ~isLogged =>
                  /\ \A t \in InstanceTables \ {"ProcessTokens"} : NamingRows(db, t) = {}
                  /\ ~Exists(db, "correlations_new")
             /\ isLogged \/ HasColumns(db, "Correlations",
                              {"identity", "processModelId", "processInstanceId"}) =>
                  \A t \in {"Correlations", "correlations_new"} :
                    \A row \in ToSet(RowsOf(db, t)) :
                      /\ {"correlationId", "processInstanceId", "identity"} \subseteq DOMAIN row
                      /\ IsFilled(row, PlacedIn(db))

\* Left alone, a start ends with every repository migrated, whatever release
\* stored the data; only one that follows an interrupted start can fail
\* (main.ts, runMigrations).
EventuallyMigrated == [](restarts = 0) => <>(status = "migrated")

-----------------------------------------------------------------------------
(* The log as whoever starts the runtime sees it.                          *)

ScriptCount == [r \in Repositories |-> Len(ScriptsOf[r])]
Applied == [r \in Repositories |-> {i \in DOMAIN ScriptsOf[r] : Logged(r, i)}]

Log == INSTANCE MigrationLog WITH
  Order <- RepositoryOrder, Count <- ScriptCount,
  applied <- Applied, serving <- status = "migrated"

\* The migrations implement that promise: every step applies the next script,
\* lets the runtime serve or ends it, or changes nothing of it (main.ts,
\* runMigrations; migrator.ts, migrate).
ImplementsLog == Log!Spec

=============================================================================

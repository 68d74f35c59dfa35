-------------------------- MODULE MigrationScripts --------------------------
(***************************************************************************)
(* The scripts of sequelize/migrations.  A script is the sequence of       *)
(* statements its function up() awaits one after the other, computed from  *)
(* the database it finds when it starts: its first statement describes the *)
(* table it changes, its guards and early returns look at that description *)
(* only.  What a script computes from the rows it selects later on is in   *)
(* Continuation.                                                           *)
(***************************************************************************)
EXTENDS SqlDatabase

Repositories == {"correlation", "cronjob_history", "external_task",
                 "flow_node_instance", "process_model"}

\* The scripts of a repository, in the order of their file names.
ScriptsOf ==
  [r \in Repositories |->
    CASE r = "correlation" ->
           <<"correlation/00", "correlation/01", "correlation/02",
             "correlation/03", "correlation/04",
             "correlation/2019-06-26", "correlation/2019-11-27">>
      [] r = "cronjob_history" -> <<"cronjob_history/2019-07-09">>
      [] r = "external_task" ->
           <<"external_task/00", "external_task/01", "external_task/02",
             "external_task/2019-06-26">>
      [] r = "flow_node_instance" ->
           <<"flow_node_instance/00", "flow_node_instance/01",
             "flow_node_instance/02", "flow_node_instance/03",
             "flow_node_instance/2019-04-03", "flow_node_instance/2019-06-26",
             "flow_node_instance/2019-10-10", "flow_node_instance/2020-02-18">>
      [] r = "process_model" ->
           <<"process_model/00", "process_model/01", "process_model/02",
             "process_model/2019-06-26", "process_model/2019-11-08">>]

-----------------------------------------------------------------------------
(* Patterns the scripts share.                                             *)

\* Skipped when the table is there.
CreateIfMissing(db, table, columns, unique) ==
  IF Exists(db, table) THEN <<>>
  ELSE <<CreateTable(table, columns, unique)>>

\* Defect for mutation: the rows are copied twice.
RebuildCopiesTwice(table, temporary, columns, unique) ==
  <<CreateTable(temporary, With(columns, "id", "INTEGER"), {}),
    CopyRows(table, temporary, DOMAIN columns),
    CopyRows(table, temporary, DOMAIN columns),
    DropTable(table),
    RenameTable(temporary, table)>>

\* Change the primary key to an autoincremented integer: SQLite cannot alter
\* it, so the rows move to a table that takes over the name of the old one.
Rebuild(table, temporary, columns, unique) ==
  <<CreateTable(temporary, With(columns, "id", "INTEGER"), unique),
    CopyRows(table, temporary, DOMAIN columns),
    DropTable(table),
    RenameTable(temporary, table)>>

AddIndexes(table, indexes) ==
  [i \in DOMAIN indexes |-> AddIndex(table, indexes[i])]

-----------------------------------------------------------------------------
(* correlation                                                             *)

Correlation00(db) ==
  CreateIfMissing(db, "Correlations",
    Typed([UUID |-> {"id"}, DATE |-> Timestamps,
           STRING |-> {"correlationId", "processInstanceId", "processModelId"},
           TEXT |-> {"processModelHash", "identity"}]), {})

AddIfMissing(db, table, column, type) ==
  IF HasColumn(db, table, column) THEN <<>>
  ELSE <<AddColumn(table, column, type, Null)>>

\* Defects for mutation: the identity is looked up by an instance that the row
\* does not name yet; it is looked up by the process model.
FillIdentityFirst(db) ==
  IF ~Exists(db, "ProcessTokens") THEN <<>>
  ELSE <<DoubleQuoted(FillFrom("Correlations", [identity |-> "identity"],
           "ProcessTokens", {<<"correlationId", "correlationId">>,
                             <<"processInstanceId", "processInstanceId">>}, {})),
         DoubleQuoted(FillFrom("Correlations",
           [processInstanceId |-> "processInstanceId"],
           "ProcessTokens", {<<"correlationId", "correlationId">>}, {}))>>

FillIdentityByModel(db) ==
  IF ~Exists(db, "ProcessTokens") THEN <<>>
  ELSE <<DoubleQuoted(FillFrom("Correlations", [processModelId |-> "name"],
           "ProcessDefinitions", {<<"hash", "processModelHash">>}, {})),
         DoubleQuoted(FillFrom("Correlations",
           [processInstanceId |-> "processInstanceId"],
           "ProcessTokens", {<<"correlationId", "correlationId">>}, {})),
         DoubleQuoted(FillFrom("Correlations", [identity |-> "identity"],
           "ProcessTokens", {<<"correlationId", "correlationId">>,
                             <<"processModelId", "processModelId">>}, {}))>>

\* Data is only carried over from tables of the same database.
FillCorrelations(db) ==
  (IF Exists(db, "ProcessDefinitions")
   THEN <<DoubleQuoted(FillFrom("Correlations", [processModelId |-> "name"],
            "ProcessDefinitions", {<<"hash", "processModelHash">>}, {}))>>
   ELSE <<>>)
  \o
  (IF Exists(db, "ProcessTokens")
   THEN <<DoubleQuoted(FillFrom("Correlations",
            [processInstanceId |-> "processInstanceId"],
            "ProcessTokens", {<<"correlationId", "correlationId">>}, {})),
          DoubleQuoted(FillFrom("Correlations", [identity |-> "identity"],
            "ProcessTokens", {<<"correlationId", "correlationId">>,
                              <<"processInstanceId", "processInstanceId">>}, {}))>>
   ELSE <<>>)

Correlation01(db) ==
  <<DescribeTable("Correlations")>> \o
  IF HasColumns(db, "Correlations",
                {"identity", "processModelId", "processInstanceId"})
  THEN <<>>
  ELSE AddIfMissing(db, "Correlations", "processModelId", "STRING")
       \o AddIfMissing(db, "Correlations", "processInstanceId", "STRING")
       \o AddIfMissing(db, "Correlations", "identity", "TEXT")
       \o FillCorrelations(db)

\* Defect for mutation: the column is added without a look at the table.
Correlation02Unguarded(db) ==
  <<AddColumn("Correlations", "parentProcessInstanceId", "STRING", Null)>>

Correlation02(db) ==
  <<DescribeTable("Correlations")>>
  \o AddIfMissing(db, "Correlations", "parentProcessInstanceId", "STRING")

MigratedCorrelationColumns ==
  Typed([DATE |-> Timestamps,
         STRING |-> {"correlationId", "processInstanceId",
                     "parentProcessInstanceId", "processModelId"},
         TEXT |-> {"identity", "processModelHash"}])

Correlation03(db) ==
  <<DescribeTable("Correlations")>> \o
  IF HasIntegerId(db, "Correlations") THEN <<>>
  ELSE Rebuild("Correlations", "correlations_new", MigratedCorrelationColumns, {})

Correlation04(db) ==
  <<DescribeTable("Correlations")>> \o
  IF HasColumns(db, "Correlations", {"state", "error"}) THEN <<>>
  ELSE <<AddColumn("Correlations", "state", "STRING", "finished"),
         AddColumn("Correlations", "error", "TEXT", Null)>>
       \o IF Exists(db, "FlowNodeInstances")
          THEN <<Unquoted(Select("Correlations", "sync states"))>>
          ELSE <<>>

Correlation20190626 ==
  AddIndexes("Correlations",
    <<<<"correlationId">>, <<"processModelId">>, <<"processInstanceId">>,
      <<"parentProcessInstanceId">>, <<"state">>,
      <<"correlationId", "processInstanceId">>>>)

Correlation20191127(db) ==
  <<DescribeTable("Correlations")>>
  \o AddIfMissing(db, "Correlations", "terminatedBy", "STRING")
  \o AddIfMissing(db, "Correlations", "finishedAt", "DATE")

-----------------------------------------------------------------------------
(* cronjob_history                                                         *)

CronjobHistory20190709(db) ==
  CreateIfMissing(db, "CronjobHistory",
    Typed([INTEGER |-> {"id"}, DATE |-> Timestamps \union {"executedAt"},
           STRING |-> {"processModelId", "startEventId", "crontab"}]), {})

-----------------------------------------------------------------------------
(* external_task                                                           *)

ExternalTask00(db) ==
  CreateIfMissing(db, "ExternalTasks",
    Typed([UUID |-> {"id"},
           DATE |-> Timestamps \union {"lockExpirationTime", "finishedAt"},
           STRING |-> {"workerId", "topic", "flowNodeInstanceId",
                       "correlationId", "processInstanceId", "state"},
           TEXT |-> {"payload", "result", "error"}]), {})

ExternalTask01(db) ==
  <<DescribeTable("ExternalTasks")>> \o
  IF HasColumn(db, "ExternalTasks", "identity") THEN <<>>
  ELSE <<AddColumn("ExternalTasks", "identity", "TEXT", ""),
         AddColumn("ExternalTasks", "version", "INTEGER", Null),
         AddColumn("ExternalTasks", "processModelId", "STRING", Null)>>

MigratedTaskColumns ==
  Typed([DATE |-> Timestamps \union {"lockExpirationTime", "finishedAt"},
         STRING |-> {"workerId", "topic", "flowNodeInstanceId", "correlationId",
                     "processInstanceId", "state", "externalTaskId",
                     "processModelId"},
         TEXT |-> {"payload", "result", "error", "identity"},
         INTEGER |-> {"version"}])

\* The drop of the temporary table is not awaited.
ExternalTask02(db) ==
  <<DescribeTable("ExternalTasks")>> \o
  IF HasIntegerId(db, "ExternalTasks") THEN <<>>
  ELSE <<NotAwaited(DropTable("external_tasks_new")),
         CreateTable("external_tasks_new",
                     With(MigratedTaskColumns, "id", "INTEGER"), {}),
         Select("ExternalTasks", "copy tasks"),
         DropTable("ExternalTasks"),
         RenameTable("external_tasks_new", "ExternalTasks")>>

ExternalTask20190626 ==
  AddIndexes("ExternalTasks",
    <<<<"externalTaskId">>,
      <<"correlationId", "processInstanceId", "flowNodeInstanceId">>,
      <<"topic", "state", "lockExpirationTime">>, <<"processModelId">>>>)

-----------------------------------------------------------------------------
(* flow_node_instance                                                      *)

FlowNodeInstance00(db) ==
  CreateIfMissing(db, "FlowNodeInstances",
    Typed([UUID |-> {"id"}, DATE |-> Timestamps,
           STRING |-> {"flowNodeInstanceId", "flowNodeId", "state", "error"}]),
    {"flowNodeInstanceId"})
  \o CreateIfMissing(db, "ProcessTokens",
       Typed([UUID |-> {"id", "flowNodeInstanceId"}, DATE |-> Timestamps,
              STRING |-> {"processInstanceId", "processModelId",
                          "correlationId", "caller", "type"},
              TEXT |-> {"identity", "payload", "flowNodeInstanceForeignKey"}]), {})

FlowNodeInstance01(db) ==
  <<DescribeTable("FlowNodeInstances")>> \o
  IF HasColumns(db, "FlowNodeInstances",
                {"eventType", "previousFlowNodeInstanceId", "flowNodeType"})
  THEN <<>>
  ELSE <<AddColumn("FlowNodeInstances", "eventType", "STRING", Null),
         AddColumn("FlowNodeInstances", "previousFlowNodeInstanceId", "STRING", Null),
         AddColumn("FlowNodeInstances", "flowNodeType", "STRING", Null)>>

MigratedTokenColumns ==
  Typed([DATE |-> Timestamps,
         STRING |-> {"processInstanceId", "processModelId", "correlationId",
                     "caller", "type", "flowNodeInstanceId"},
         TEXT |-> {"identity", "payload"}])

MigratedInstanceColumns ==
  Typed([DATE |-> Timestamps,
         STRING |-> {"flowNodeInstanceId", "flowNodeId", "flowNodeType",
                     "state", "eventType", "previousFlowNodeInstanceId"},
         TEXT |-> {"error"}])

FlowNodeInstance02(db) ==
  <<DescribeTable("FlowNodeInstances"), DescribeTable("ProcessTokens")>>
  \o (IF HasIntegerId(db, "ProcessTokens") THEN <<>>
      ELSE Rebuild("ProcessTokens", "processtokens_new", MigratedTokenColumns, {}))
  \o (IF HasIntegerId(db, "FlowNodeInstances") THEN <<>>
      ELSE Rebuild("FlowNodeInstances", "FlowNodeInstances_New",
             MigratedInstanceColumns, {"flowNodeInstanceId"}))

\* Defect for mutation: the columns of the tokens are removed before they are
\* read.
FlowNodeInstance03RemovesFirst ==
  LET moved == <<"processInstanceId", "processModelId", "correlationId", "identity",
                 "caller">>
      target == [moved EXCEPT ![5] = "parentProcessInstanceId"]
  IN  [i \in 1..5 |-> AddColumn("FlowNodeInstances", target[i], "STRING", "")]
      \o [i \in 1..5 |-> RemoveColumn("ProcessTokens", moved[i])]

\* No guard: the columns move from the tokens to the flow node instances.
FlowNodeInstance03 ==
  LET moved == <<"processInstanceId", "processModelId", "correlationId",
                 "identity", "caller">>
      target == [moved EXCEPT ![5] = "parentProcessInstanceId"]
      required == {"processInstanceId", "processModelId", "correlationId"}
  IN  [i \in 1..5 |->
         AddColumn("FlowNodeInstances", target[i],
                   IF target[i] = "identity" THEN "TEXT" ELSE "STRING",
                   IF target[i] \in required THEN "" ELSE Null)]
      \o <<FillFrom("FlowNodeInstances",
             [c \in ToSet(target) |->
                moved[CHOOSE i \in 1..5 : target[i] = c]],
             "ProcessTokens", {<<"flowNodeInstanceId", "flowNodeInstanceId">>},
             required)>>
      \o [i \in 1..5 |-> RemoveColumn("ProcessTokens", moved[i])]

FlowNodeInstance20190403 ==
  <<ChangeColumn("FlowNodeInstances", "error", "TEXT")>>

FlowNodeInstance20190626 ==
  AddIndexes("FlowNodeInstances",
    <<<<"correlationId">>, <<"flowNodeId">>, <<"flowNodeInstanceId">>,
      <<"processModelId">>, <<"processInstanceId">>, <<"state">>,
      <<"correlationId", "processModelId">>,
      <<"correlationId", "processModelId", "flowNodeId">>,
      <<"correlationId", "processModelId", "state">>,
      <<"correlationId", "state">>, <<"processModelId", "state">>,
      <<"processInstanceId", "flowNodeId">>, <<"processInstanceId", "state">>>>)
  \o AddIndexes("ProcessTokens", <<<<"flowNodeInstanceId">>>>)

\* Defect for mutation: one of the two columns is taken for both.
FlowNodeInstance20191010ChecksOne(db) ==
  <<DescribeTable("FlowNodeInstances")>> \o
  IF HasColumn(db, "FlowNodeInstances", "flowNodeName") THEN <<>>
  ELSE <<AddColumn("FlowNodeInstances", "flowNodeName", "STRING", Null),
         AddColumn("FlowNodeInstances", "flowNodeLane", "STRING", Null)>>

FlowNodeInstance20191010(db) ==
  <<DescribeTable("FlowNodeInstances")>> \o
  IF HasColumns(db, "FlowNodeInstances", {"flowNodeName", "flowNodeLane"})
  THEN <<>>
  ELSE <<AddColumn("FlowNodeInstances", "flowNodeName", "STRING", Null),
         AddColumn("FlowNodeInstances", "flowNodeLane", "STRING", Null)>>

FlowNodeInstance20200218 ==
  <<ChangeColumn("FlowNodeInstances", "previousFlowNodeInstanceId", "TEXT")>>

-----------------------------------------------------------------------------
(* process_model                                                           *)

ProcessModel00(db) ==
  CreateIfMissing(db, "ProcessDefinitions",
    Typed([UUID |-> {"id"}, DATE |-> Timestamps, STRING |-> {"name"},
           TEXT |-> {"xml"}]), {"name"})

\* The name stops being unique here; the table rebuilt by the next script
\* does not declare it unique either.
ProcessModel01(db) ==
  <<DescribeTable("ProcessDefinitions")>>
  \o (IF HasColumn(db, "ProcessDefinitions", "hash") THEN <<>>
      ELSE <<AddColumn("ProcessDefinitions", "hash", "TEXT", "")>>)
  \o <<ChangeColumn("ProcessDefinitions", "name", "STRING")>>

MigratedModelColumns ==
  Typed([DATE |-> Timestamps, STRING |-> {"name"}, TEXT |-> {"xml", "hash"}])

ProcessModel02(db) ==
  <<DescribeTable("ProcessDefinitions")>> \o
  IF HasIntegerId(db, "ProcessDefinitions") THEN <<>>
  ELSE Rebuild("ProcessDefinitions", "ProcessDefinitions_New",
         MigratedModelColumns, {})

ProcessModel20190626 ==
  <<ChangeColumn("ProcessDefinitions", "hash", "STRING")>>
  \o AddIndexes("ProcessDefinitions", <<<<"name">>, <<"hash">>>>)

ProcessModel20191108 ==
  <<AddColumn("ProcessDefinitions", "identity", "TEXT", Null)>>

-----------------------------------------------------------------------------
Up(script, db) ==
  CASE script = "correlation/00" -> Correlation00(db)
    [] script = "correlation/01" -> Correlation01(db)
    [] script = "correlation/02" -> Correlation02(db)
    [] script = "correlation/03" -> Correlation03(db)
    [] script = "correlation/04" -> Correlation04(db)
    [] script = "correlation/2019-06-26" -> Correlation20190626
    [] script = "correlation/2019-11-27" -> Correlation20191127(db)
    [] script = "cronjob_history/2019-07-09" -> CronjobHistory20190709(db)
    [] script = "external_task/00" -> ExternalTask00(db)
    [] script = "external_task/01" -> ExternalTask01(db)
    [] script = "external_task/02" -> ExternalTask02(db)
    [] script = "external_task/2019-06-26" -> ExternalTask20190626
    [] script = "flow_node_instance/00" -> FlowNodeInstance00(db)
    [] script = "flow_node_instance/01" -> FlowNodeInstance01(db)
    [] script = "flow_node_instance/02" -> FlowNodeInstance02(db)
    [] script = "flow_node_instance/03" -> FlowNodeInstance03
    [] script = "flow_node_instance/2019-04-03" -> FlowNodeInstance20190403
    [] script = "flow_node_instance/2019-06-26" -> FlowNodeInstance20190626
    [] script = "flow_node_instance/2019-10-10" -> FlowNodeInstance20191010(db)
    [] script = "flow_node_instance/2020-02-18" -> FlowNodeInstance20200218
    [] script = "process_model/00" -> ProcessModel00(db)
    [] script = "process_model/01" -> ProcessModel01(db)
    [] script = "process_model/02" -> ProcessModel02(db)
    [] script = "process_model/2019-06-26" -> ProcessModel20190626
    [] script = "process_model/2019-11-08" -> ProcessModel20191108

-----------------------------------------------------------------------------
(* What a script goes on to do with the rows a SELECT returned.            *)

\* correlation/04: an active flow node instance takes precedence over one
\* that failed; the update of the state catches its error.
InstanceIn(db, processInstance, states) ==
  HasColumn(db, "FlowNodeInstances", "processInstanceId") /\
    \E i \in DOMAIN db["FlowNodeInstances"].rows :
      LET instance == db["FlowNodeInstances"].rows[i]
      IN  instance.processInstanceId = processInstance /\ instance.state \in states

\* The two queries for the flow node instances of a correlation, row i of its
\* table; use tells them apart.
QueryStates(use, i, processInstance) ==
  With(With(DoubleQuoted(Select("FlowNodeInstances", use)), "position", i),
       "processInstance", processInstance)

updateStateForId(i, state) ==
  <<Caught(DoubleQuoted(SetCell("Correlations", i, "state", state)))>>

\* Defect for mutation: a failed flow node instance takes precedence.
SyncStateErrorFirst(db, query) ==
  IF InstanceIn(db, query.processInstance, {"error", "terminated"})
  THEN updateStateForId(query.position, "error")
  ELSE IF InstanceIn(db, query.processInstance, {"running", "suspended"})
       THEN updateStateForId(query.position, "running")
       ELSE <<>>

SyncState(db, query) ==
  IF query.use = "active"
  THEN IF InstanceIn(db, query.processInstance, {"running", "suspended"})
       THEN updateStateForId(query.position, "running")
       ELSE <<QueryStates("erroneous", query.position, query.processInstance)>>
  ELSE IF InstanceIn(db, query.processInstance, {"error", "terminated"})
       THEN updateStateForId(query.position, "error")
       ELSE <<>>

\* external_task/02: every value passes through a template literal.
Interpolated(row, column) ==
  IF column \notin DOMAIN row THEN UndefinedText
  ELSE IF row[column] = Null THEN NullText
  ELSE row[column]

\* Defect for mutation: two columns of the INSERT are swapped.
CopiedTaskSwapped(row) ==
  [c \in DOMAIN MigratedTaskColumns |->
     Interpolated(row, CASE c = "externalTaskId" -> "id"
                         [] c = "topic" -> "flowNodeInstanceId"
                         [] c = "flowNodeInstanceId" -> "topic"
                         [] OTHER -> c)]

CopiedTask(row) ==
  [c \in DOMAIN MigratedTaskColumns |->
     Interpolated(row, IF c = "externalTaskId" THEN "id" ELSE c)]

Continuation(db, statement) ==
  IF statement.op # "select" THEN <<>>
  ELSE LET rows == db[statement.table].rows
       IN  CASE statement.use = "sync states" ->
                  [i \in DOMAIN rows |->
                     QueryStates("active", i, rows[i].processInstanceId)]
             [] statement.use = "copy tasks" ->
                  [i \in DOMAIN rows |->
                     InsertRow("external_tasks_new", CopiedTask(rows[i]))]
             [] OTHER -> SyncState(db, statement)

=============================================================================

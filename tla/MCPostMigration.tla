-------------------------- MODULE MCPostMigration --------------------------
(***************************************************************************)
(* Instances of PostMigration for TLC: what a start can find.              *)
(***************************************************************************)
EXTENDS PostMigration, TLC

Instance(processInstanceId, flowNodeId, name, lane) ==
  [processInstanceId |-> processInstanceId, flowNodeId |-> flowNodeId,
   flowNodeName |-> name, flowNodeLane |-> lane]

Old(processInstanceId, flowNodeId) ==
  Instance(processInstanceId, flowNodeId, Null, Null)

\* Stored by an engine of this version, executed on no lane.
NewRow == Instance("i1", "task", "Task", Null)

\* Two versions of a process model: the second one has lanes and a renamed
\* task, its end event is unnamed and on no lane.
Definitions ==
  <<[hash |-> "h1", model |-> [names |-> "task" :> "Task" @@ "end" :> "End",
                               lanes |-> <<>>]],
    [hash |-> "h2", model |-> [names |-> "task" :> "Work" @@ "end" :> Undefined,
                               lanes |-> "task" :> "Office"]]>>

\* Instance i2 is stored twice, as an interrupted correlation/03 leaves it; the
\* definition of i3 was deleted, and i4 has no correlation.
Correlations ==
  <<[processInstanceId |-> "i1", processModelHash |-> "h1"],
    [processInstanceId |-> "i2", processModelHash |-> "h2"],
    [processInstanceId |-> "i2", processModelHash |-> "h2"],
    [processInstanceId |-> "i3", processModelHash |-> "h3"]>>

Store(instances, isMarked) ==
  [rows |-> instances, correlations |-> Correlations,
   definitions |-> Definitions, marked |-> isMarked,
   dialect |-> "sqlite", separate |-> TRUE]

NewStore == Store(<<>>, FALSE)

\* A row was deleted; the last one has a name only.
OldRows ==
  1 :> Old("i1", "task") @@ 2 :> Old("i3", "task") @@ 3 :> Old("i2", "task")
    @@ 5 :> Old("i2", "end") @@ 6 :> Old("i4", "task")
    @@ 7 :> Instance("i2", "task", "Work", Null)

OldStore == Store(OldRows, FALSE)

\* Migrated by an earlier start; the engine has stored a row since.
MarkedStore == Store(<<NewRow>>, TRUE)

\* A flow node instance inside a sub process, between two others.
SubProcessStore ==
  Store(<<Old("i1", "task"), Old("i1", "inner"), Old("i2", "task")>>, FALSE)

\* MySQL: one database, as the preset has it, and a database per repository.
MysqlStore == [OldStore EXCEPT !.dialect = "mysql", !.separate = FALSE]
MysqlSeparateStore == [OldStore EXCEPT !.dialect = "mysql"]

AllStores == {NewStore, OldStore, MarkedStore, SubProcessStore, MysqlStore,
              MysqlSeparateStore}

OldStores == {OldStore}

PostgresStores == {[OldStore EXCEPT !.dialect = "postgres", !.separate = FALSE]}

=============================================================================

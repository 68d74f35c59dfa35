---------------------------- MODULE PostMigration ----------------------------
(***************************************************************************)
(* The post-migration of version 9.1.0: it gives the flow node instances   *)
(* that earlier versions stored the name and the lane of their flow node,  *)
(* which it finds in the process model of their process instance.  It runs *)
(* at every start, after the migrations and before the engine, until       *)
(* SequelizeMeta names it.                                                 *)
(*                                                                         *)
(* rows, marked: on disk.  The rest belongs to the process, which may end  *)
(* between any two queries; nothing runs in a transaction.                 *)
(***************************************************************************)
EXTENDS Naturals, Sequences, FiniteSets

CONSTANTS
  InitialStores,   \* what a start can find: see PostMigrationAssumption
  Undefined,       \* JavaScript's undefined, as a value and as nothing found
  EngineRow,       \* a flow node instance the engine of this version stores
  MaxId,           \* bound on the ids of the flow node instances
  MaxRestarts      \* bound on the number of times the process is restarted

\* The columns of a flow node instance that the script reads or writes.
Columns == {"processInstanceId", "flowNodeId", "flowNodeName", "flowNodeLane"}

ASSUME PostMigrationAssumption ==
  /\ MaxId \in Nat
  /\ MaxRestarts \in Nat
  /\ DOMAIN EngineRow = Columns
  /\ \A s \in InitialStores :
       \* the databases, and whether each repository has its own
       /\ s.dialect \in {"sqlite", "postgres", "mysql"}
       /\ s.separate \in BOOLEAN
       /\ s.marked \in BOOLEAN
       /\ DOMAIN s.rows \subseteq 1..MaxId
       /\ \A i \in DOMAIN s.rows : DOMAIN s.rows[i] = Columns

VARIABLES
  store,       \* as the first start found it; its correlations, definitions
               \* and configuration are read, nothing changes it
  rows,        \* FlowNodeInstances: [id -> row]
  marked,      \* SequelizeMeta names the script
  status,      \* of the process: see Statuses
  selected,    \* ids of the rows still to be updated; the query
               \* that selects them asks for no order
  processInstances,   \* Correlations, as loaded
  processModels,      \* ProcessDefinitions, as loaded
  restarts     \* number of restarts so far

vars == <<store, rows, marked, status, selected, processInstances,
          processModels, restarts>>
memory == <<selected, processInstances, processModels>>

Null == "NULL"

Statuses == {"down", "setup", "select", "load instances", "load models",
             "update", "mark", "serving", "exited"}

nodeEnvIsPostgres == store.dialect = "postgres"

Init ==
  /\ store \in InitialStores
  /\ rows = store.rows
  /\ marked = store.marked
  /\ status = "down"
  /\ selected = {} /\ processInstances = <<>> /\ processModels = <<>>
  /\ restarts = 0

-----------------------------------------------------------------------------
(* What a flow node instance is given.                                     *)

\* Array.find: the first entry whose field has that value, or Undefined.
Find(entries, field, value) ==
  LET found == SelectSeq(entries, LAMBDA e : e[field] = value)
  IN  IF found = <<>> THEN Undefined ELSE found[1]

getProcessInstanceById(processInstanceId) ==
  Find(processInstances, "processInstanceId", processInstanceId)

\* Defect for mutation: the first version of a process model stands for all.
FirstDefinition(hash) ==
  IF processModels = <<>> THEN Undefined ELSE processModels[1]

getProcessDefinitionByHash(hash) == Find(processModels, "hash", hash)

\* The text a template literal makes of a value.
Interpolated(value) ==
  CASE value = Null -> "'null'"
    [] value = Undefined -> "'undefined'"
    [] OTHER -> value

\* A model is the first process of a definition: the names of its flow nodes
\* and the lanes of those that are on one.  A flow node of another process, or
\* one inside a sub process, is none of its flow nodes.
Known(row, model) == row.flowNodeId \in DOMAIN model.names

getFlowNodeNameForFlowNodeInstance(row, model) == model.names[row.flowNodeId]

getLaneForFlowNodeInstance(row, model) ==
  IF row.flowNodeId \in DOMAIN model.lanes THEN model.lanes[row.flowNodeId]
  ELSE Null

WithNameAndLane(row, model) ==
  [row EXCEPT
    !.flowNodeName = Interpolated(getFlowNodeNameForFlowNodeInstance(row, model)),
    !.flowNodeLane = Interpolated(getLaneForFlowNodeInstance(row, model))]

LacksNameOrLane(row) == row.flowNodeName = Null \/ row.flowNodeLane = Null

-----------------------------------------------------------------------------
(* The steps of runPostMigrationForV910, one query each.                   *)

StartRuntime ==
  /\ status = "down"
  /\ status' = "setup"
  /\ UNCHANGED <<store, rows, marked, memory, restarts>>

checkIfMigrationWasRun ==
  /\ status = "setup"
  /\ status' = IF marked THEN "serving" ELSE "select"
  /\ UNCHANGED <<store, rows, marked, memory, restarts>>

\* Defects for mutation: a start with nothing to update leaves no mark; the
\* index of a row in the result is taken for its id; a row that has a name is
\* taken for complete.
SelectWithoutMark ==
  /\ status = "select"
  /\ selected' = {i \in DOMAIN rows : LacksNameOrLane(rows[i])}
  /\ status' = IF selected' = {} THEN "serving" ELSE "load instances"
  /\ UNCHANGED <<store, rows, marked, processInstances, processModels, restarts>>

SelectByPosition ==
  /\ status = "select"
  /\ selected' = 1..Cardinality({i \in DOMAIN rows : LacksNameOrLane(rows[i])})
  /\ status' = IF selected' = {} THEN "mark" ELSE "load instances"
  /\ UNCHANGED <<store, rows, marked, processInstances, processModels, restarts>>

SelectWithoutName ==
  /\ status = "select"
  /\ selected' = {i \in DOMAIN rows : rows[i].flowNodeName = Null}
  /\ status' = IF selected' = {} THEN "mark" ELSE "load instances"
  /\ UNCHANGED <<store, rows, marked, processInstances, processModels, restarts>>

getFlowNodeInstancesWithoutNameOrLane ==
  /\ status = "select"
  /\ selected' = {i \in DOMAIN rows : LacksNameOrLane(rows[i])}
  /\ status' = IF selected' = {} THEN "mark" ELSE "load instances"
  /\ UNCHANGED <<store, rows, marked, processInstances, processModels, restarts>>

loadProcessInstances ==
  /\ status = "load instances"
  /\ processInstances' = store.correlations
  /\ status' = "load models"
  /\ UNCHANGED <<store, rows, marked, selected, processModels, restarts>>

\* The connection is set up from the configuration of the correlations; only
\* with SQLite an environment variable then names the right file.
ModelsAreReachable == store.dialect = "sqlite" \/ ~store.separate

loadProcessModels ==
  /\ status = "load models"
  /\ ModelsAreReachable
  /\ processModels' = store.definitions
  /\ status' = "update"
  /\ UNCHANGED <<store, rows, marked, selected, processInstances, restarts>>

\* Defect for mutation: the script goes on without the models.
LoadFailureIsIgnored ==
  /\ status = "load models"
  /\ ~ModelsAreReachable
  /\ status' = "mark"
  /\ UNCHANGED <<store, rows, marked, memory, restarts>>

\* An error ends the process: runPostMigrations catches it and exits.
loadProcessModelsFails ==
  /\ status = "load models"
  /\ ~ModelsAreReachable
  /\ status' = "exited"
  /\ UNCHANGED <<store, rows, marked, memory, restarts>>

\* The process instance of a flow node instance and its definition: Undefined
\* if there is none.
InstanceFor(row) == getProcessInstanceById(row.processInstanceId)

DefinitionFor(row) ==
  IF InstanceFor(row) = Undefined THEN Undefined
  ELSE getProcessDefinitionByHash(InstanceFor(row).processModelHash)

\* Defect for mutation: the loop does not go on to the next row.
SkipInstanceForever(i) ==
  /\ status = "update"
  /\ DefinitionFor(rows[i]) = Undefined
  /\ UNCHANGED vars

SkipInstance(i) ==
  /\ status = "update"
  /\ DefinitionFor(rows[i]) = Undefined
  /\ selected' = selected \ {i}
  /\ UNCHANGED <<store, rows, marked, status, processInstances, processModels,
                 restarts>>

\* On Postgres the UPDATE names no table there is.
UpdateIsUnderstood == ~nodeEnvIsPostgres

setLaneAndNameForFlowNodeInstance(i) ==
  /\ status = "update"
  /\ DefinitionFor(rows[i]) # Undefined
  /\ Known(rows[i], DefinitionFor(rows[i]).model)
  /\ UpdateIsUnderstood
  /\ rows' = [rows EXCEPT ![i] = WithNameAndLane(@, DefinitionFor(rows[i]).model)]
  /\ selected' = selected \ {i}
  /\ UNCHANGED <<store, marked, status, processInstances, processModels, restarts>>

\* The name is read from a flow node that is not found, or the UPDATE fails.
UpdateFails(i) ==
  /\ status = "update"
  /\ DefinitionFor(rows[i]) # Undefined
  /\ ~Known(rows[i], DefinitionFor(rows[i]).model) \/ ~UpdateIsUnderstood
  /\ status' = "exited"
  /\ UNCHANGED <<store, rows, marked, memory, restarts>>

FinishUpdates ==
  /\ status = "update"
  /\ selected = {}
  /\ status' = "mark"
  /\ UNCHANGED <<store, rows, marked, memory, restarts>>

\* Defect for mutation: the mark is not written.
MarkForgets ==
  /\ status = "mark"
  /\ status' = "serving"
  /\ UNCHANGED <<store, rows, marked, memory, restarts>>

markMigrationAsRun ==
  /\ status = "mark"
  /\ marked' = TRUE
  /\ status' = "serving"
  /\ UNCHANGED <<store, rows, memory, restarts>>

-----------------------------------------------------------------------------
\* The engine executes flow nodes and stores their name and lane itself.
EngineStoresInstance ==
  /\ status = "serving"
  /\ \E id \in 1..MaxId :
       /\ \A i \in DOMAIN rows : i < id
       /\ rows' = [i \in DOMAIN rows \union {id} |->
                    IF i = id THEN EngineRow ELSE rows[i]]
  /\ UNCHANGED <<store, marked, status, memory, restarts>>

\* The process ends, by a crash or by its operator, or has exited, and is
\* started again later.
Stop ==
  /\ status # "down"
  /\ restarts < MaxRestarts
  /\ restarts' = restarts + 1
  /\ status' = "down"
  /\ selected' = {} /\ processInstances' = <<>> /\ processModels' = <<>>
  /\ UNCHANGED <<store, rows, marked>>

Progress ==
  \/ StartRuntime
  \/ checkIfMigrationWasRun
  \/ getFlowNodeInstancesWithoutNameOrLane
  \/ loadProcessInstances
  \/ loadProcessModels
  \/ loadProcessModelsFails
  \/ \E i \in selected :
       SkipInstance(i) \/ setLaneAndNameForFlowNodeInstance(i) \/ UpdateFails(i)
  \/ FinishUpdates
  \/ markMigrationAsRun

Next == Progress \/ EngineStoresInstance \/ Stop

Spec == Init /\ [][Next]_vars

\* The database answers every query; nothing forces a restart or the engine to
\* have work.
FairSpec == Spec /\ WF_vars(Progress)

-----------------------------------------------------------------------------
(* Properties.                                                             *)

\* The tables keep their form, and what is selected is there.
TypeOK ==
  /\ DOMAIN rows \subseteq 1..MaxId
  /\ \A i \in DOMAIN rows : DOMAIN rows[i] = Columns
  /\ marked \in BOOLEAN
  /\ status \in Statuses
  /\ selected \subseteq DOMAIN rows
  /\ restarts \in 0..MaxRestarts

InstanceOf(row) ==
  Find(store.correlations, "processInstanceId", row.processInstanceId)

DefinitionOf(row) ==
  IF InstanceOf(row) = Undefined THEN Undefined
  ELSE Find(store.definitions, "hash", InstanceOf(row).processModelHash)

ModelOf(row) == DefinitionOf(row).model

HasModel(row) == DefinitionOf(row) # Undefined /\ Known(row, ModelOf(row))

IsNamed(row) == HasModel(row) /\ ModelOf(row).names[row.flowNodeId] # Undefined
IsOnLane(row) == HasModel(row) /\ row.flowNodeId \in DOMAIN ModelOf(row).lanes

\* All earlier flow node instances have what their models have for them: a name
\* if the flow node has one, a lane if it was placed on one.
Filled ==
  \A i \in DOMAIN store.rows :
    /\ IsNamed(rows[i]) => rows[i].flowNodeName # Null
    /\ IsOnLane(rows[i]) => rows[i].flowNodeLane # Null

\* The script is marked as run only when all are filled: wherever earlier starts
\* were cut off, no flow node instance is left behind for good
\* (addNameAndLaneToFlowNodeInstances, markMigrationAsRun).
MarkedWhenFilled == marked /\ ~store.marked => Filled

\* One whose flow node is on no lane is given none: the comment at line 8 says
\* that the property remains empty (setLaneAndNameForFlowNodeInstance).
LaneRemainsEmpty ==
  \A i \in DOMAIN store.rows :
    HasModel(rows[i]) /\ ~IsOnLane(rows[i]) =>
      rows[i].flowNodeLane = store.rows[i].flowNodeLane

\* The name of a flow node instance, and its lane if it is on one, come from the
\* version of the model with which its own process instance was started, in
\* whatever order and however often the rows are updated
\* (getProcessInstanceById, getProcessDefinitionByHash).
FilledFromOwnModel ==
  \A i \in DOMAIN store.rows :
    rows[i] # store.rows[i] =>
      /\ HasModel(rows[i])
      /\ rows[i].flowNodeName = Interpolated(ModelOf(rows[i]).names[rows[i].flowNodeId])
      /\ IsOnLane(rows[i]) =>
           rows[i].flowNodeLane = Interpolated(ModelOf(rows[i]).lanes[rows[i].flowNodeId])

\* The engine starts only on a store that is marked (startRuntime awaits
\* runPostMigrations, which ends the process on an error).
ServesOnlyMarked == status = "serving" => marked

\* A flow node instance that has a name and a lane keeps them, and one the
\* engine of this version has stored stays as it is, also one that is on no
\* lane: later starts do not take it for one of an earlier version
\* (checkIfMigrationWasRun, getFlowNodeInstancesWithoutNameOrLane).
SetOnce ==
  [][\A i \in DOMAIN rows :
       (~LacksNameOrLane(rows[i]) \/ i \notin DOMAIN store.rows)
         => rows'[i] = rows[i]]_vars

\* Every flow node instance gets the name and the lane of its flow node, after
\* which the runtime serves, wherever earlier starts were cut off: the comment
\* at lines 5 and 6 says that the script retrieves all that lack them and
\* attempts to fill them out, and one it cannot fill is skipped (lines 176 and
\* 182).  So far as no flow node instance belongs to a flow node that the first
\* process of its definition does not have: that ends every start.
AllFound ==
  \A i \in DOMAIN store.rows :
    DefinitionOf(store.rows[i]) # Undefined => HasModel(store.rows[i])

EventuallyFilledIfFound ==
  AllFound /\ ModelsAreReachable =>
    <>(status = "serving" /\ (Filled \/ store.marked))

=============================================================================

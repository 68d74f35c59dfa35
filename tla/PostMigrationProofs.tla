------------------------- MODULE PostMigrationProofs -------------------------
(***************************************************************************)
(* What the post-migration promises, proved for every store, dialect and   *)
(* number of restarts.  FillInv adds to the invariants the runs check what *)
(* the process knows while it works: nothing is marked before it is done,  *)
(* what it has loaded is what is stored, and every row that still lacks a  *)
(* value is among those it has selected, or has no definition.             *)
(***************************************************************************)
EXTENDS PostMigration, TLAPS

Working == {"select", "load instances", "load models", "update", "mark"}

\* A row of an earlier version that lacks a value it could be given.
Open(i) == LacksNameOrLane(rows[i]) /\ DefinitionOf(rows[i]) # Undefined

NothingOpen == \A i \in DOMAIN store.rows : ~Open(i)

OpenIsSelected == \A i \in DOMAIN store.rows : Open(i) => i \in selected

Loaded ==
  /\ status \in {"load models", "update"} => processInstances = store.correlations
  /\ status = "update" => processModels = store.definitions

\* Rows are added only once the store is marked.
RowsStay ==
  /\ DOMAIN store.rows \subseteq DOMAIN rows
  /\ ~marked => DOMAIN rows = DOMAIN store.rows

WorksUnmarked ==
  /\ status \in Working => ~marked /\ \A i \in selected : LacksNameOrLane(rows[i])
  /\ status \in {"down", "setup", "select"} => selected = {}

OpenIsKnown ==
  /\ status \in {"load instances", "load models", "update"} => OpenIsSelected
  /\ status = "mark" => NothingOpen
  /\ (marked /\ ~store.marked) => NothingOpen

FillInv ==
  /\ TypeOK
  /\ Loaded
  /\ RowsStay
  /\ WorksUnmarked
  /\ OpenIsKnown
  /\ ServesOnlyMarked

-----------------------------------------------------------------------------
\* A row the script has updated has a name and a lane, and is as it was apart
\* from them: a template literal never makes NULL.
LEMMA UpdatedLacksNothing ==
  ASSUME NEW row, DOMAIN row = Columns, NEW model
  PROVE  LET after == WithNameAndLane(row, model)
         IN  /\ DOMAIN after = Columns
             /\ after.processInstanceId = row.processInstanceId
             /\ ~LacksNameOrLane(after)
<1>1. \A value : Interpolated(value) # Null
  BY DEF Interpolated, Null
<1>. QED
  BY <1>1 DEF WithNameAndLane, LacksNameOrLane, Columns

\* What the process finds in the rows it has loaded is what is stored.
LEMMA LoadedDefinition ==
  ASSUME Loaded, status = "update", NEW row
  PROVE  DefinitionFor(row) = DefinitionOf(row)
BY DEF Loaded, DefinitionFor, DefinitionOf, InstanceFor, InstanceOf,
       getProcessInstanceById, getProcessDefinitionByHash

\* Two facts about numbers.
LEMMA NewIdIsNew ==
  ASSUME NEW ids, NEW id \in 1..MaxId, \A i \in ids : i < id
  PROVE  id \notin ids
BY PostMigrationAssumption

\* A restart within the bound is counted.
LEMMA NextRestart ==
  ASSUME NEW n \in 0..MaxRestarts, n < MaxRestarts
  PROVE  n + 1 \in 0..MaxRestarts
BY PostMigrationAssumption

\* A process that is not up knows nothing.
LEMMA FillInvInit == Init => FillInv
<1>. SUFFICES ASSUME Init PROVE FillInv
  OBVIOUS
<1>1. TypeOK
  BY PostMigrationAssumption DEF Init, TypeOK, Statuses
<1>. QED
  BY <1>1 DEF Init, FillInv, Loaded, RowsStay, WorksUnmarked, OpenIsKnown,
              ServesOnlyMarked, Working

-----------------------------------------------------------------------------
(* Every step keeps FillInv.                                               *)

\* Every step keeps what the process knows true.
LEMMA FillInvStep == FillInv /\ [Next]_vars => FillInv'
<1>. SUFFICES ASSUME FillInv, [Next]_vars PROVE FillInv'
  OBVIOUS
<1>. USE PostMigrationAssumption
     DEF FillInv, memory, TypeOK, Statuses, Loaded, RowsStay, WorksUnmarked,
         Working, OpenIsKnown, OpenIsSelected, NothingOpen, Open,
         ServesOnlyMarked, DefinitionOf, InstanceOf
<1>1. CASE StartRuntime
  BY <1>1 DEF StartRuntime
<1>2. CASE checkIfMigrationWasRun
  BY <1>2 DEF checkIfMigrationWasRun
<1>3. CASE getFlowNodeInstancesWithoutNameOrLane
  BY <1>3 DEF getFlowNodeInstancesWithoutNameOrLane
<1>4. CASE loadProcessInstances
  BY <1>4 DEF loadProcessInstances
<1>5. CASE loadProcessModels
  BY <1>5 DEF loadProcessModels
<1>6. CASE loadProcessModelsFails
  BY <1>6 DEF loadProcessModelsFails
<1>7. ASSUME NEW i \in selected, SkipInstance(i) PROVE FillInv'
  <2>1. DefinitionOf(rows[i]) = Undefined
    BY <1>7, LoadedDefinition DEF SkipInstance
  <2>. QED
    BY <1>7, <2>1 DEF SkipInstance
<1>8. ASSUME NEW i \in selected, setLaneAndNameForFlowNodeInstance(i)
      PROVE  FillInv'
  <2>. DEFINE after == WithNameAndLane(rows[i], DefinitionFor(rows[i]).model)
  <2>1. /\ rows' = [rows EXCEPT ![i] = after]
        /\ selected' = selected \ {i}
        /\ status = "update"
        /\ UNCHANGED <<store, marked, status, processInstances, processModels,
                       restarts>>
    BY <1>8 DEF setLaneAndNameForFlowNodeInstance
  <2>2. /\ DOMAIN after = Columns
        /\ after.processInstanceId = rows[i].processInstanceId
        /\ ~LacksNameOrLane(after)
    BY UpdatedLacksNothing
  <2>. HIDE DEF after
  <2>3. \A j \in DOMAIN rows : rows'[j] = IF j = i THEN after ELSE rows[j]
    BY <2>1
  <2>4. TypeOK'
    BY <2>1, <2>2, <2>3
  <2>5. OpenIsSelected'
    BY <2>1, <2>2, <2>3
  <2>6. WorksUnmarked'
    BY <2>1, <2>3
  <2>. QED
    BY <2>1, <2>4, <2>5, <2>6
<1>9. ASSUME NEW i \in selected, UpdateFails(i) PROVE FillInv'
  BY <1>9 DEF UpdateFails
<1>10. CASE FinishUpdates
  BY <1>10 DEF FinishUpdates
<1>11. CASE markMigrationAsRun
  BY <1>11 DEF markMigrationAsRun
<1>12. CASE EngineStoresInstance
  <2>1. marked /\ status = "serving"
    BY <1>12 DEF EngineStoresInstance
  <2>2. PICK id \in 1..MaxId :
          /\ \A i \in DOMAIN rows : i < id
          /\ rows' = [i \in DOMAIN rows \union {id} |->
                       IF i = id THEN EngineRow ELSE rows[i]]
    BY <1>12 DEF EngineStoresInstance
  <2>3. id \notin DOMAIN rows
    BY <2>2, NewIdIsNew
  <2>. QED
    BY <1>12, <2>1, <2>2, <2>3 DEF EngineStoresInstance
<1>13. CASE Stop
  <2>1. /\ UNCHANGED <<store, rows, marked>> /\ status' = "down" /\ selected' = {}
        /\ restarts' = restarts + 1 /\ restarts < MaxRestarts
    BY <1>13 DEF Stop
  <2>2. restarts' \in 0..MaxRestarts
    BY <2>1, NextRestart
  <2>. QED
    BY <2>1, <2>2
<1>14. CASE UNCHANGED vars
  BY <1>14 DEF vars
<1>. QED
  BY <1>1, <1>2, <1>3, <1>4, <1>5, <1>6, <1>7, <1>8, <1>9, <1>10, <1>11, <1>12,
     <1>13, <1>14 DEF Next, Progress

\* FillInv holds at every step of every start.
THEOREM FillInvariant == Spec => []FillInv
BY FillInvInit, FillInvStep, PTL DEF Spec

\* The tables keep their form, whatever is stored (all queries of the script).
THEOREM PostMigrationTypeCorrect == Spec => []TypeOK
<1>1. FillInv => TypeOK
  BY DEF FillInv
<1>. QED
  BY <1>1, FillInvariant, PTL

\* A store that is marked as migrated has no row left that could still be
\* filled, wherever and however often the script was cut off before
\* (markMigrationAsRun).
THEOREM MarkedIsFilled == Spec => []MarkedWhenFilled
<1>1. FillInv => MarkedWhenFilled
  <2>. SUFFICES ASSUME FillInv, marked, ~store.marked, NEW i \in DOMAIN store.rows,
                       HasModel(rows[i])
                PROVE  ~LacksNameOrLane(rows[i])
    BY DEF MarkedWhenFilled, Filled, IsNamed, IsOnLane, LacksNameOrLane
  <2>. QED
    BY DEF FillInv, OpenIsKnown, NothingOpen, Open, HasModel
<1>. QED
  BY <1>1, FillInvariant, PTL

\* The engine never runs on a store that is not marked (runPostMigrations).
THEOREM EngineWaitsForMark == Spec => []ServesOnlyMarked
<1>1. FillInv => ServesOnlyMarked
  BY DEF FillInv
<1>. QED
  BY <1>1, FillInvariant, PTL

-----------------------------------------------------------------------------
\* What the script writes for a row, in terms of the model it writes it from.
LEMMA UpdatedFromModel ==
  ASSUME NEW row, DOMAIN row = Columns, NEW model
  PROVE  LET after == WithNameAndLane(row, model)
         IN  /\ after.processInstanceId = row.processInstanceId
             /\ after.flowNodeId = row.flowNodeId
             /\ after.flowNodeName = Interpolated(model.names[row.flowNodeId])
             /\ row.flowNodeId \in DOMAIN model.lanes =>
                  after.flowNodeLane = Interpolated(model.lanes[row.flowNodeId])
BY DEF WithNameAndLane, getFlowNodeNameForFlowNodeInstance,
       getLaneForFlowNodeInstance, Columns

\* What FilledFromOwnModel says of one row.
FromOwnModel(row) ==
  /\ HasModel(row)
  /\ row.flowNodeName = Interpolated(ModelOf(row).names[row.flowNodeId])
  /\ IsOnLane(row) =>
       row.flowNodeLane = Interpolated(ModelOf(row).lanes[row.flowNodeId])

\* The update of a row takes nothing from the model of another instance.
LEMMA UpdateFillsFromOwnModel ==
  ASSUME FillInv, NEW i \in selected, setLaneAndNameForFlowNodeInstance(i)
  PROVE  /\ FromOwnModel(rows'[i])
         /\ \A j \in DOMAIN rows \ {i} : rows'[j] = rows[j]
<1>. DEFINE model == DefinitionFor(rows[i]).model
            after == WithNameAndLane(rows[i], model)
<1>1. /\ status = "update" /\ DefinitionFor(rows[i]) # Undefined
      /\ Known(rows[i], model)
      /\ rows' = [rows EXCEPT ![i] = after]
      /\ i \in DOMAIN rows /\ DOMAIN rows[i] = Columns
  BY DEF setLaneAndNameForFlowNodeInstance, FillInv, TypeOK
<1>2. DefinitionFor(rows[i]) = DefinitionOf(rows[i])
  BY <1>1, LoadedDefinition DEF FillInv
<1>3. /\ after.processInstanceId = rows[i].processInstanceId
      /\ after.flowNodeId = rows[i].flowNodeId
      /\ after.flowNodeName = Interpolated(model.names[rows[i].flowNodeId])
      /\ rows[i].flowNodeId \in DOMAIN model.lanes =>
           after.flowNodeLane = Interpolated(model.lanes[rows[i].flowNodeId])
  BY <1>1, UpdatedFromModel
<1>4. /\ rows'[i] = after
      /\ \A j \in DOMAIN rows \ {i} : rows'[j] = rows[j]
  BY <1>1
<1>5. DefinitionOf(after) = DefinitionOf(rows[i])
  BY <1>3 DEF DefinitionOf, InstanceOf
<1>6. FromOwnModel(after)
  BY <1>1, <1>2, <1>3, <1>5 DEF FromOwnModel, HasModel, IsOnLane, ModelOf, Known
<1>. QED
  BY <1>4, <1>6

\* A row that a step has filled got the values of its own model.
LEMMA OwnModelStep ==
  FillInv /\ FilledFromOwnModel /\ [Next]_vars => FilledFromOwnModel'
<1>. SUFFICES ASSUME FillInv, FilledFromOwnModel, [Next]_vars
              PROVE  FilledFromOwnModel'
  OBVIOUS
<1>1. store' = store
  BY DEF Next, Progress, vars, memory, StartRuntime, checkIfMigrationWasRun,
     getFlowNodeInstancesWithoutNameOrLane, loadProcessInstances, loadProcessModels,
     loadProcessModelsFails, SkipInstance, setLaneAndNameForFlowNodeInstance,
     UpdateFails, FinishUpdates, markMigrationAsRun, EngineStoresInstance, Stop
<1>2. \A j \in DOMAIN store.rows : rows[j] # store.rows[j] => FromOwnModel(rows[j])
  BY DEF FilledFromOwnModel, FromOwnModel
<1>3. \A j \in DOMAIN store.rows :
        rows'[j] = rows[j] \/ FromOwnModel(rows'[j])
  <2>1. CASE \E i \in selected : setLaneAndNameForFlowNodeInstance(i)
    BY <2>1, UpdateFillsFromOwnModel DEF FillInv, RowsStay
  <2>2. CASE EngineStoresInstance
    <3>1. PICK id \in 1..MaxId :
            /\ \A i \in DOMAIN rows : i < id
            /\ rows' = [i \in DOMAIN rows \union {id} |->
                         IF i = id THEN EngineRow ELSE rows[i]]
      BY <2>2 DEF EngineStoresInstance
    <3>2. id \notin DOMAIN rows
      BY <3>1, NewIdIsNew
    <3>. QED
      BY <3>1, <3>2 DEF FillInv, RowsStay
  <2>3. CASE UNCHANGED rows
    BY <2>3
  <2>. QED
    BY <2>1, <2>2, <2>3 DEF Next, Progress, vars, memory, StartRuntime,
       checkIfMigrationWasRun, getFlowNodeInstancesWithoutNameOrLane,
       loadProcessInstances, loadProcessModels, loadProcessModelsFails,
       SkipInstance, UpdateFails, FinishUpdates, markMigrationAsRun, Stop
<1>4. \A j \in DOMAIN store.rows : rows'[j] # store.rows[j] => FromOwnModel(rows'[j])
  BY <1>2, <1>3
<1>. QED
  BY <1>1, <1>4 DEF FilledFromOwnModel, FromOwnModel, HasModel, IsOnLane, ModelOf,
     DefinitionOf, InstanceOf

\* A row that differs from the stored one has its name and lane from the model
\* of its own process instance, wherever earlier starts were cut off
\* (getProcessInstanceById, getProcessDefinitionByHash).
THEOREM RowsFilledFromOwnModel == Spec => []FilledFromOwnModel
<1>1. Init => FilledFromOwnModel
  BY DEF Init, FilledFromOwnModel
<1>. QED
  BY <1>1, OwnModelStep, FillInvariant, PTL DEF Spec

-----------------------------------------------------------------------------
\* No row is written twice, and no row of the engine at all (the WHERE of
\* getFlowNodeInstancesWithoutNameOrLane, checkIfMigrationWasRun).
THEOREM RowsSetOnce == Spec => SetOnce
<1>. DEFINE Keeps == \A i \in DOMAIN rows :
                       (~LacksNameOrLane(rows[i]) \/ i \notin DOMAIN store.rows)
                         => rows'[i] = rows[i]
<1>1. FillInv /\ [Next]_vars => Keeps
  <2>. SUFFICES ASSUME FillInv, [Next]_vars, rows' # rows PROVE Keeps
    BY DEF FillInv
  <2>1. CASE \E i \in selected : setLaneAndNameForFlowNodeInstance(i)
    <3>1. PICK i \in selected :
            status = "update" /\ \E after : rows' = [rows EXCEPT ![i] = after]
      BY <2>1 DEF setLaneAndNameForFlowNodeInstance
    <3>2. LacksNameOrLane(rows[i]) /\ i \in DOMAIN store.rows
      BY <3>1 DEF FillInv, WorksUnmarked, Working, RowsStay, TypeOK
    <3>. QED
      BY <3>1, <3>2
  <2>2. CASE EngineStoresInstance
    <3>1. PICK id \in 1..MaxId :
            /\ \A i \in DOMAIN rows : i < id
            /\ rows' = [i \in DOMAIN rows \union {id} |->
                         IF i = id THEN EngineRow ELSE rows[i]]
      BY <2>2 DEF EngineStoresInstance
    <3>2. id \notin DOMAIN rows
      BY <3>1, NewIdIsNew
    <3>. QED
      BY <3>1, <3>2
  <2>. QED
    BY <2>1, <2>2 DEF Next, Progress, vars, memory, StartRuntime,
       checkIfMigrationWasRun, getFlowNodeInstancesWithoutNameOrLane,
       loadProcessInstances, loadProcessModels, loadProcessModelsFails,
       SkipInstance, UpdateFails, FinishUpdates, markMigrationAsRun, Stop
<1>2. Keeps \/ UNCHANGED vars => [Keeps]_vars
  OBVIOUS
<1>. QED
  BY <1>1, FillInvariant, PTL DEF Spec, SetOnce

=============================================================================

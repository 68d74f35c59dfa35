------------------------ MODULE RuntimeStartupProofs ------------------------
(***************************************************************************)
(* The order in which the runtime comes up, proved for any repositories,   *)
(* scripts, instances and number of restarts.  StartInv adds to TypeOK     *)
(* what each position in startRuntime says of the store and the process.   *)
(***************************************************************************)
EXTENDS RuntimeStartup, TLAPS

AllMigrated == \A r \in Log!Names : Log!AllApplied(r)

\* Before the engine runs, and after the process has ended.
Quiet == {"down", "migrations", "post-migrations", "bootstrapper", "exited"}

StoreIsReady ==
  /\ status \in {"post-migrations", "bootstrapper"} => AllMigrated
  /\ status = "bootstrapper" => marked
  /\ engine => marked /\ AllMigrated

NothingRunsYet ==
  /\ status \in Quiet => ~engine
  /\ ~engine => live = Idle /\ services = {} /\ ~sent
  /\ status \in {"routes", "auto start", "cronjobs", "resume", "running"} => engine

ServicesInOrder ==
  /\ status \in {"routes", "auto start"} => ~sent
  /\ status = "cronjobs" => services = {"AutoStartService"} /\ ~sent
  /\ StartedMeansServing

StartInv ==
  /\ TypeOK
  /\ StoreIsReady
  /\ NothingRunsYet
  /\ ServicesInOrder
  /\ NothingLeftIdle

-----------------------------------------------------------------------------
\* Applying a script keeps the log well formed.
LEMMA ApplyKeepsType ==
  ASSUME TypeOK, NEW k \in DOMAIN Order, Log!Apply(k)
  PROVE  /\ DOMAIN applied' = Log!Names
         /\ \A r \in Log!Names : applied'[r] \subseteq 1..Count[r]
<1>1. PICK n \in 1..Count[Order[k]] :
        applied' = [applied EXCEPT ![Order[k]] = @ \union {n}]
  BY DEF Log!Apply
<1>. QED
  BY <1>1 DEF TypeOK

\* A restart within the bound is counted.
LEMMA NextRestart ==
  ASSUME NEW n \in 0..MaxRestarts, n < MaxRestarts
  PROVE  n + 1 \in 0..MaxRestarts
BY RuntimeStartupAssumption

\* Starting, resuming and finishing executions keep the count of them.
LEMMA LiveIsCounted ==
  ASSUME TypeOK
  PROVE  /\ Idle \in [Instances -> Nat]
         /\ \A i \in Instances :
              /\ [live EXCEPT ![i] = @ + 1] \in [Instances -> Nat]
              /\ live[i] > 0 => [live EXCEPT ![i] = @ - 1] \in [Instances -> Nat]
         /\ [i \in Instances |-> IF stored[i] = "running" THEN live[i] + 1
                                 ELSE live[i]] \in [Instances -> Nat]
BY DEF TypeOK, Idle

\* One execution more leaves none without one.
LEMMA OneMore ==
  ASSUME TypeOK, NEW i \in Instances
  PROVE  LET more == [live EXCEPT ![i] = @ + 1]
         IN  more[i] > 0 /\ \A j \in Instances : live[j] > 0 => more[j] > 0
<1>1. live \in [Instances -> Nat]
  BY DEF TypeOK
<1>. QED
  BY <1>1

\* Nothing is executed unless the engine is up.
LEMMA NotIdle ==
  ASSUME TypeOK, NothingRunsYet, NEW i \in Instances, live[i] > 0
  PROVE  engine
<1>1. live # Idle
  BY DEF Idle
<1>. QED
  BY <1>1 DEF NothingRunsYet

\* No restart has been made at first.
LEMMA FirstStart == 0 \in 0..MaxRestarts
BY RuntimeStartupAssumption

\* A process that is not up runs nothing.
LEMMA StartInvInit == Init => StartInv
<1>. SUFFICES ASSUME Init PROVE StartInv
  OBVIOUS
<1>1. TypeOK
  <2>1. /\ DOMAIN applied = Log!Names
        /\ \A r \in Log!Names : applied[r] \subseteq 1..Count[r]
    BY DEF Init, Log!Init
  <2>2. live \in [Instances -> Nat]
    BY DEF Init, Idle
  <2>. QED
    BY <2>1, <2>2, FirstStart DEF Init, TypeOK, Statuses
<1>. QED
  BY <1>1 DEF Init, StartInv, StoreIsReady, NothingRunsYet, ServicesInOrder,
     StartedMeansServing, NothingLeftIdle, Quiet

-----------------------------------------------------------------------------
(* Every step keeps StartInv.                                              *)

\* Every step keeps the invariant.
LEMMA StartInvStep == StartInv /\ [Next]_vars => StartInv'
<1>. SUFFICES ASSUME StartInv, [Next]_vars PROVE StartInv'
  OBVIOUS
<1>. USE DEF StartInv, StoreIsReady, NothingRunsYet, ServicesInOrder, disk,
     process, StartedMeansServing, NothingLeftIdle, Quiet, AllMigrated,
     Log!AllApplied
<1>1. CASE StartRuntime
  BY <1>1 DEF StartRuntime, TypeOK, Statuses, Phases
<1>2. CASE ApplyScript
  <2>1. /\ status = "migrations"
        /\ UNCHANGED <<marked, stored, status, process, httpIsEnabled, restarts>>
        /\ \E k \in DOMAIN Order : Log!Apply(k)
    BY <1>2 DEF ApplyScript
  <2>2. TypeOK'
    BY <2>1, ApplyKeepsType DEF TypeOK
  <2>. QED
    BY <2>1, <2>2
<1>3. CASE FinishMigrations
  BY <1>3 DEF FinishMigrations, TypeOK, Statuses, Phases
<1>4. CASE runPostMigrations
  BY <1>4 DEF runPostMigrations, TypeOK, Statuses, Phases
<1>5. CASE startProcessEngine
  BY <1>5 DEF startProcessEngine, TypeOK, Statuses, Phases
<1>6. CASE configureGlobalRoutes
  BY <1>6 DEF configureGlobalRoutes, TypeOK, Statuses, Phases
<1>7. CASE StartAutoStartService
  BY <1>7 DEF StartAutoStartService, TypeOK, Statuses, Phases
<1>8. CASE StartCronjobService
  BY <1>8 DEF StartCronjobService, TypeOK, Statuses, Phases
<1>9. CASE resumeProcessInstances
  <2>1. live' \in [Instances -> Nat]
    BY <1>9, LiveIsCounted DEF resumeProcessInstances
  <2>2. \A i \in Instances : stored[i] = "running" => live'[i] > 0
    BY <1>9 DEF resumeProcessInstances, TypeOK
  <2>. QED
    BY <1>9, <2>1, <2>2 DEF resumeProcessInstances, TypeOK, Statuses, Phases
<1>10. CASE StartFails
  BY <1>10 DEF StartFails, TypeOK, Statuses
<1>11. CASE StartExits
  BY <1>11, LiveIsCounted DEF StartExits, TypeOK, Statuses
<1>12. ASSUME NEW i \in Instances, StartInstance(i) PROVE StartInv'
  <2>1. /\ engine /\ live' = [live EXCEPT ![i] = @ + 1]
        /\ stored' = [stored EXCEPT ![i] = "running"]
        /\ UNCHANGED <<applied, marked, status, httpIsEnabled, engine, services,
                       sent, restarts>>
    BY <1>12 DEF StartInstance, CanStartInstances
  <2>2. live' \in [Instances -> Nat]
    BY <2>1, LiveIsCounted
  <2>3. live'[i] > 0 /\ \A j \in Instances : live[j] > 0 => live'[j] > 0
    BY <2>1, OneMore
  <2>4. \A j \in Instances : j # i => stored'[j] = stored[j]
    BY <2>1 DEF TypeOK
  <2>5. stored' \in [Instances -> States]
    BY <2>1 DEF TypeOK, States
  <2>. QED
    BY <2>1, <2>2, <2>3, <2>4, <2>5 DEF TypeOK
<1>13. ASSUME NEW i \in Instances, FinishInstance(i) PROVE StartInv'
  <2>1. /\ live[i] > 0 /\ live' = [live EXCEPT ![i] = @ - 1]
        /\ stored' = [stored EXCEPT ![i] = "finished"]
        /\ UNCHANGED <<applied, marked, status, httpIsEnabled, engine, services,
                       sent, restarts>>
    BY <1>13 DEF FinishInstance
  <2>2. live' \in [Instances -> Nat]
    BY <2>1, LiveIsCounted
  <2>3. \A j \in Instances : j # i => live'[j] = live[j] /\ stored'[j] = stored[j]
    BY <2>1 DEF TypeOK
  <2>4. stored' \in [Instances -> States] /\ stored'[i] # "running"
    BY <2>1 DEF TypeOK, States
  <2>5. engine
    BY <2>1, NotIdle
  <2>. QED
    BY <2>1, <2>2, <2>3, <2>4, <2>5 DEF TypeOK
<1>14. CASE Stop
  <2>1. restarts' \in 0..MaxRestarts
    BY <1>14, NextRestart DEF Stop, TypeOK
  <2>. QED
    BY <1>14, <2>1, LiveIsCounted DEF Stop, TypeOK, Statuses
<1>15. CASE UNCHANGED vars
  BY <1>15 DEF vars, TypeOK
<1>. QED
  BY <1>1, <1>2, <1>3, <1>4, <1>5, <1>6, <1>7, <1>8, <1>9, <1>10, <1>11, <1>12,
     <1>13, <1>14, <1>15 DEF Next, Progress

\* StartInv holds at every step of every start.
THEOREM StartInvariant == Spec => []StartInv
BY StartInvInit, StartInvStep, PTL DEF Spec

\* The state keeps its form, for any number of executions (startRuntime).
THEOREM StartupTypeCorrect == Spec => []TypeOK
<1>1. StartInv => TypeOK
  BY DEF StartInv
<1>. QED
  BY <1>1, StartInvariant, PTL

\* No instance is executed on a store this version has not migrated
\* (startRuntime: runMigrations, runPostMigrations).
THEOREM EngineRunsOnMigratedStore == Spec => []ExecutesOnMigratedStore
<1>1. StartInv => ExecutesOnMigratedStore
  BY NotIdle DEF StartInv, StoreIsReady, AllMigrated, ExecutesOnMigratedStore
<1>. QED
  BY <1>1, StartInvariant, PTL

\* The parent is told only when all services run (process.send).
THEOREM ParentToldWhenServing == Spec => []StartedMeansServing
<1>1. StartInv => StartedMeansServing
  BY DEF StartInv, ServicesInOrder
<1>. QED
  BY <1>1, StartInvariant, PTL

\* Nothing that is stored as running is left without an execution by a start
\* that went through (resumeProcessInstances).
THEOREM NothingForgotten == Spec => []NothingLeftIdle
<1>1. StartInv => NothingLeftIdle
  BY DEF StartInv
<1>. QED
  BY <1>1, StartInvariant, PTL

=============================================================================

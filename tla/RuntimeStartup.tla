--------------------------- MODULE RuntimeStartup ---------------------------
(***************************************************************************)
(* startRuntime: the steps by which a process brings up the runtime, with  *)
(* what goes on around them once they let it.  The migrations and the      *)
(* post-migration are what MigrationLog and PostMigration promise; the     *)
(* engine, its HTTP server, AutoStartService, CronjobService and           *)
(* ResumeProcessService belong to packages the runtime loads, and are      *)
(* modelled by the calls it makes to them.                                 *)
(***************************************************************************)
EXTENDS Naturals, Sequences

CONSTANTS
  Order,          \* the repositories, in the order of their migration
  Count,          \* [repository -> the number of its scripts]
  Instances,      \* process instances that can be started
  MaxRestarts     \* bound on the number of times the process is restarted

ASSUME RuntimeStartupAssumption ==
  /\ Order \in Seq({Order[k] : k \in DOMAIN Order})
  /\ \A k \in DOMAIN Order : Count[Order[k]] \in Nat
  /\ MaxRestarts \in Nat

VARIABLES
  applied,    \* [repository -> positions of the scripts that are applied]
  marked,     \* the post-migration is marked as run
  stored,     \* [instance -> its state in the database]
  status,     \* of the start: see Phases
  httpIsEnabled,   \* the parameter enableHttp of this start
  engine,     \* the process engine runs
  services,   \* the internal services that run
  sent,       \* the parent process was told that the runtime has started
  live,       \* [instance -> the number of its executions in this process]
  restarts    \* number of restarts so far

disk == <<applied, marked, stored>>
process == <<engine, services, sent, live>>
vars == <<disk, status, httpIsEnabled, process, restarts>>

\* Where startRuntime waits; "running" is its end, "failed" a rejected promise,
\* "exited" a call of process.exit.
Phases == {"migrations", "post-migrations", "bootstrapper", "routes",
           "auto start", "cronjobs", "resume", "running"}
Statuses == {"down", "failed", "exited"} \union Phases

States == {"absent", "running", "finished"}

\* runMigrations has resolved.
IsMigrated == engine \/ status \in {"post-migrations", "bootstrapper"}

Log == INSTANCE MigrationLog WITH serving <- IsMigrated

Idle == [i \in Instances |-> 0]

\* Earlier processes may have been cut off while they migrated, or while they
\* executed instances.
Init ==
  /\ applied \in [Log!Names -> SUBSET UNION {1..Count[r] : r \in Log!Names}]
  /\ marked \in BOOLEAN
  /\ marked => \A r \in Log!Names : Log!AllApplied(r)
  /\ stored \in [Instances -> States]
  /\ status = "down"
  /\ httpIsEnabled = TRUE
  /\ engine = FALSE /\ services = {} /\ sent = FALSE
  /\ live = Idle
  /\ restarts = 0
  /\ Log!Init

-----------------------------------------------------------------------------
(* The steps of startRuntime.                                              *)

StartRuntime ==
  /\ status = "down"
  /\ status' = "migrations"
  /\ httpIsEnabled' \in BOOLEAN
  /\ UNCHANGED <<disk, process, restarts>>

ApplyScript ==
  /\ status = "migrations"
  /\ UNCHANGED <<marked, stored, status, process, httpIsEnabled, restarts>>
  /\ \E k \in DOMAIN Order : Log!Apply(k)

\* Defect for mutation: runMigrations is not awaited.
FinishMigrationsEarly ==
  /\ status = "migrations"
  /\ status' = "post-migrations"
  /\ UNCHANGED <<disk, process, httpIsEnabled, restarts>>

FinishMigrations ==
  /\ status = "migrations"
  /\ \A r \in Log!Names : Log!AllApplied(r)
  /\ status' = "post-migrations"
  /\ UNCHANGED <<disk, process, httpIsEnabled, restarts>>

runPostMigrations ==
  /\ status = "post-migrations"
  /\ marked' = TRUE
  /\ status' = "bootstrapper"
  /\ UNCHANGED <<applied, stored, process, httpIsEnabled, restarts>>

\* The working directory is set, the modules are loaded, the engine and its
\* HTTP server start.
startProcessEngine ==
  /\ status = "bootstrapper"
  /\ engine' = TRUE
  /\ status' = IF httpIsEnabled THEN "routes" ELSE "auto start"
  /\ UNCHANGED <<disk, services, sent, live, httpIsEnabled, restarts>>

configureGlobalRoutes ==
  /\ status = "routes"
  /\ status' = "auto start"
  /\ UNCHANGED <<disk, process, httpIsEnabled, restarts>>

\* Defect for mutation: the parent is told before the services have started.
AnnounceBeforeServices ==
  /\ status = "auto start"
  /\ services' = {"AutoStartService"}
  /\ sent' = TRUE
  /\ status' = "cronjobs"
  /\ UNCHANGED <<disk, engine, live, httpIsEnabled, restarts>>

StartAutoStartService ==
  /\ status = "auto start"
  /\ services' = {"AutoStartService"}
  /\ status' = "cronjobs"
  /\ UNCHANGED <<disk, engine, sent, live, httpIsEnabled, restarts>>

\* The parent, if there is one, is told at once; nothing is awaited in between.
StartCronjobService ==
  /\ status = "cronjobs"
  /\ services' = services \union {"CronjobService"}
  /\ sent' \in {FALSE, TRUE}
  /\ status' = "resume"
  /\ UNCHANGED <<disk, engine, live, httpIsEnabled, restarts>>

\* Defect for mutation: nothing is resumed.
SkipResume ==
  /\ status = "resume"
  /\ status' = "running"
  /\ UNCHANGED <<disk, process, httpIsEnabled, restarts>>

\* Defect for mutation: the first instance is resumed and the others forgotten.
ResumeOne ==
  /\ status = "resume"
  /\ \E i \in Instances :
       live' = [live EXCEPT ![i] = IF stored[i] = "running" THEN @ + 1 ELSE @]
  /\ status' = "running"
  /\ UNCHANGED <<disk, engine, services, sent, httpIsEnabled, restarts>>

\* ResumeProcessService takes every instance that is stored as running for one
\* that was interrupted.
resumeProcessInstances ==
  /\ status = "resume"
  /\ live' = [i \in Instances |->
                IF stored[i] = "running" THEN live[i] + 1 ELSE live[i]]
  /\ status' = "running"
  /\ UNCHANGED <<disk, engine, services, sent, httpIsEnabled, restarts>>

\* The rejection reaches the handler of unhandled rejections, which logs it:
\* what is up stays up, the remaining steps are never taken.
StartFails ==
  /\ status \in {"migrations", "bootstrapper", "routes", "resume"}
  /\ status' = "failed"
  /\ UNCHANGED <<disk, process, httpIsEnabled, restarts>>

\* These catch their error and call process.exit.
StartExits ==
  /\ status \in {"post-migrations", "bootstrapper", "auto start", "cronjobs"}
  /\ status' = "exited"
  /\ engine' = FALSE /\ services' = {} /\ sent' = FALSE
  /\ live' = Idle
  /\ UNCHANGED <<disk, httpIsEnabled, restarts>>

-----------------------------------------------------------------------------
(* Around them.                                                            *)

\* Instances are started over HTTP as soon as the engine is up, by a cronjob,
\* or by a parent that was told that the runtime has started.
CanStartInstances ==
  engine /\ (httpIsEnabled \/ "CronjobService" \in services \/ sent)

StartInstance(i) ==
  /\ CanStartInstances
  /\ stored[i] = "absent"
  /\ stored' = [stored EXCEPT ![i] = "running"]
  /\ live' = [live EXCEPT ![i] = @ + 1]
  /\ UNCHANGED <<applied, marked, status, httpIsEnabled, engine, services, sent,
                 restarts>>

\* Defect for mutation: the end of an instance is handled once more.
FinishAnyInstance(i) ==
  /\ engine
  /\ stored' = [stored EXCEPT ![i] = "finished"]
  /\ live' = [live EXCEPT ![i] = @ - 1]
  /\ UNCHANGED <<applied, marked, status, httpIsEnabled, engine, services, sent,
                 restarts>>

FinishInstance(i) ==
  /\ live[i] > 0
  /\ stored' = [stored EXCEPT ![i] = "finished"]
  /\ live' = [live EXCEPT ![i] = @ - 1]
  /\ UNCHANGED <<applied, marked, status, httpIsEnabled, engine, services, sent,
                 restarts>>

\* The process ends: by a crash, by the command "exit" of its console, or it
\* has exited; and is started again later.
Stop ==
  /\ status # "down"
  /\ restarts < MaxRestarts
  /\ restarts' = restarts + 1
  /\ status' = "down"
  /\ engine' = FALSE /\ services' = {} /\ sent' = FALSE
  /\ live' = Idle
  /\ UNCHANGED <<disk, httpIsEnabled>>

Progress ==
  \/ StartRuntime
  \/ ApplyScript
  \/ FinishMigrations
  \/ runPostMigrations
  \/ startProcessEngine
  \/ configureGlobalRoutes
  \/ StartAutoStartService
  \/ StartCronjobService
  \/ resumeProcessInstances

Next ==
  \/ Progress
  \/ StartFails
  \/ StartExits
  \/ \E i \in Instances : StartInstance(i) \/ FinishInstance(i)
  \/ Stop

Spec == Init /\ [][Next]_vars

\* Every call that is awaited settles.  Whether instances are started or
\* finish, whether a step fails, and whether the process stops, is open.
FairSpec == Spec /\ WF_vars(Progress)

-----------------------------------------------------------------------------
(* Properties.                                                             *)

TypeOK ==
  /\ DOMAIN applied = Log!Names
  /\ \A r \in Log!Names : applied[r] \subseteq 1..Count[r]
  /\ marked \in BOOLEAN
  /\ stored \in [Instances -> States]
  /\ status \in Statuses
  /\ httpIsEnabled \in BOOLEAN
  /\ engine \in BOOLEAN
  /\ services \subseteq {"AutoStartService", "CronjobService"}
  /\ sent \in BOOLEAN
  /\ live \in [Instances -> Nat]
  /\ restarts \in 0..MaxRestarts

\* No instance is executed before the store has the form this version needs:
\* every script is applied and the post-migration is done (startRuntime awaits
\* runMigrations and runPostMigrations before it starts the engine).
ExecutesOnMigratedStore ==
  (engine \/ \E i \in Instances : live[i] > 0) =>
    marked /\ \A r \in Log!Names : Log!AllApplied(r)

\* The parent is told only once all services run, and none of them ends while
\* the process goes on (startRuntime, process.send).
StartedMeansServing ==
  sent => engine /\ services = {"AutoStartService", "CronjobService"}

\* After a start that went through, no instance that is stored as running is
\* left without an execution, whoever started it and when, also if it was
\* started or finished while the runtime was coming up (resumeProcessInstances).
NothingLeftIdle ==
  status = "running" => \A i \in Instances : stored[i] = "running" => live[i] > 0

\* An instance that was interrupted is eventually executed again, or finished,
\* unless a start fails (findAndResumeInterruptedProcessInstances).
InterruptedIsResumed ==
  \A i \in Instances :
    stored[i] = "running" ~>
      live[i] > 0 \/ stored[i] = "finished" \/ status \in {"failed", "exited"}

\* What is resumed was interrupted: no instance is executed twice.  So the
\* message at line 346 of main.ts.
NeverExecutedTwice == \A i \in Instances : live[i] <= 1

=============================================================================

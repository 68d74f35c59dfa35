------------------------------ MODULE Migrator ------------------------------
(***************************************************************************)
(* The start-up of the runtime brings the databases of its five            *)
(* repositories up to date: runMigrations calls migrate() for one          *)
(* repository after the other, and migrate() lets umzug run the scripts of *)
(* that repository that SequelizeMeta does not name yet, in the order of   *)
(* their file names, and add each to SequelizeMeta once its up() resolves. *)
(*                                                                         *)
(* databases and meta are on disk.  Everything else belongs to the process *)
(* and is lost when it ends, which it may do between any two statements.   *)
(* Nothing runs in a transaction.                                          *)
(***************************************************************************)
EXTENDS MigrationScripts

CONSTANTS
  InitialStores,   \* the databases and SequelizeMeta tables a start can find
  MaxRestarts      \* bound on the number of times the process is restarted

ASSUME MaxRestartsAssumption == MaxRestarts \in Nat

VARIABLES
  databases,   \* [Databases -> database]
  meta,        \* [Databases -> names of the scripts in SequelizeMeta]
  status,      \* of the process: see Statuses
  current,     \* position in RepositoryOrder of the running migrate()
  script,      \* the running script, or NoScript
  todo,        \* what is left of it
  unawaited,   \* statements sent and not waited for, oldest first
  restarts     \* number of restarts so far

vars == <<databases, meta, status, current, script, todo, unawaited, restarts>>
store == <<databases, meta>>

RepositoryOrder ==
  <<"correlation", "cronjob_history", "external_task", "flow_node_instance",
    "process_model">>

\* The configuration gives each repository a database of its own or all the
\* same one.  The databases are named after their first repository.
Layouts == {Repositories, {"correlation"}}

Databases == DOMAIN meta
DatabaseOf(repository) ==
  IF repository \in Databases THEN repository ELSE "correlation"

ScriptNames == UNION {ToSet(ScriptsOf[r]) : r \in Repositories}
NoScript == "none"

\* The log of a store names scripts that are there, and those of a repository
\* in their order: umzug is all that writes it.
IsLog(m) ==
  /\ DOMAIN m \in Layouts
  /\ m \in [DOMAIN m -> SUBSET ScriptNames]
  /\ \A r \in Repositories : \A j \in DOMAIN ScriptsOf[r] :
       LET log == m[IF r \in DOMAIN m THEN r ELSE "correlation"]
       IN  ScriptsOf[r][j] \in log => \A i \in 1..(j - 1) : ScriptsOf[r][i] \in log

ASSUME InitialStoresAssumption == \A s \in InitialStores : IsLog(s.meta)

Statuses == {"down", "migrating", "failed", "migrated"}

Repository == RepositoryOrder[current]
Database == DatabaseOf(Repository)
Scripts == ScriptsOf[Repository]

\* umzug.pending()
IsPending(i) == Scripts[i] \notin meta[Database]

Init ==
  /\ \E s \in InitialStores : databases = s.databases /\ meta = s.meta
  /\ status = "down"
  /\ current = 1
  /\ script = NoScript
  /\ todo = <<>>
  /\ unawaited = <<>>
  /\ restarts = 0

-----------------------------------------------------------------------------
StartRuntime ==
  /\ status = "down"
  /\ status' = "migrating"
  /\ current' = 1
  /\ UNCHANGED <<store, script, todo, unawaited, restarts>>

\* Defects for mutation: any pending script starts; a script is logged when it
\* starts.
BeginAnyScript ==
  /\ status = "migrating"
  /\ script = NoScript
  /\ \E i \in DOMAIN Scripts :
       /\ IsPending(i)
       /\ script' = Scripts[i]
       /\ todo' = Up(Scripts[i], databases[Database])
  /\ UNCHANGED <<store, status, current, unawaited, restarts>>

BeginScriptLogsFirst ==
  /\ status = "migrating"
  /\ script = NoScript
  /\ \E i \in DOMAIN Scripts :
       /\ IsPending(i)
       /\ \A j \in 1..(i - 1) : ~IsPending(j)
       /\ script' = Scripts[i]
       /\ todo' = Up(Scripts[i], databases[Database])
       /\ meta' = [meta EXCEPT ![Database] = @ \union {Scripts[i]}]
  /\ UNCHANGED <<databases, status, current, unawaited, restarts>>

\* The first script that is pending starts and describes its table.
BeginScript ==
  /\ status = "migrating"
  /\ script = NoScript
  /\ \E i \in DOMAIN Scripts :
       /\ IsPending(i)
       /\ \A j \in 1..(i - 1) : ~IsPending(j)
       /\ script' = Scripts[i]
       /\ todo' = Up(Scripts[i], databases[Database])
  /\ UNCHANGED <<store, status, current, unawaited, restarts>>

\* SQLite has one connection, which takes the statements in the order in which
\* they were sent; the others spread them over the connections of a pool.
ConnectionIsFree == Dialect = "sqlite" => unawaited = <<>>

SendUnawaited ==
  /\ status = "migrating"
  /\ todo # <<>>
  /\ ~IsAwaited(Head(todo))
  /\ unawaited' = Append(unawaited, Head(todo))
  /\ todo' = Tail(todo)
  /\ UNCHANGED <<store, status, current, script, restarts>>

ExecuteStatement ==
  /\ status = "migrating"
  /\ todo # <<>>
  /\ IsAwaited(Head(todo))
  /\ ConnectionIsFree
  /\ LET db == databases[Database]
         statement == Head(todo)
     IN  /\ ~Succeeds(db, statement) => IsCaught(statement)
         /\ databases' =
              IF Succeeds(db, statement)
              THEN [databases EXCEPT ![Database] = After(db, statement)]
              ELSE databases
         /\ todo' = Continuation(db, statement) \o Tail(todo)
  /\ UNCHANGED <<meta, status, current, script, unawaited, restarts>>

\* The rejection passes through up(), umzug, migrate() and runMigrations; the
\* handler of unhandled rejections logs it.  The runtime never gets to serve.
StatementFails ==
  /\ status = "migrating"
  /\ todo # <<>>
  /\ IsAwaited(Head(todo))
  /\ ConnectionIsFree
  /\ ~Succeeds(databases[Database], Head(todo))
  /\ ~IsCaught(Head(todo))
  /\ status' = "failed"
  /\ UNCHANGED <<store, current, script, todo, unawaited, restarts>>

\* A statement nobody waits for takes effect.  Its error is lost.
UnawaitedTakesEffect ==
  /\ unawaited # <<>>
  /\ LET db == databases[Database]
         statement == Head(unawaited)
     IN  databases' =
           IF Succeeds(db, statement)
           THEN [databases EXCEPT ![Database] = After(db, statement)]
           ELSE databases
  /\ unawaited' = Tail(unawaited)
  /\ UNCHANGED <<meta, status, current, script, todo, restarts>>

\* Defects for mutation: the script is not logged; every script of the
\* repository is.
LogMigrationForgets ==
  /\ status = "migrating"
  /\ script # NoScript
  /\ todo = <<>>
  /\ script' = NoScript
  /\ UNCHANGED <<store, status, current, todo, unawaited, restarts>>

LogMigrationLogsAll ==
  /\ status = "migrating"
  /\ script # NoScript
  /\ todo = <<>>
  /\ meta' = [meta EXCEPT ![Database] = @ \union ToSet(Scripts)]
  /\ script' = NoScript
  /\ UNCHANGED <<databases, status, current, todo, unawaited, restarts>>

\* up() has resolved: umzug adds the script to SequelizeMeta.
LogMigration ==
  /\ status = "migrating"
  /\ script # NoScript
  /\ todo = <<>>
  /\ meta' = [meta EXCEPT ![Database] = @ \union {script}]
  /\ script' = NoScript
  /\ UNCHANGED <<databases, status, current, todo, unawaited, restarts>>

\* Defects for mutation: the repository counts as done after its first script;
\* one repository too many.
FinishRepositoryEarly ==
  /\ status = "migrating"
  /\ script = NoScript
  /\ ~IsPending(1)
  /\ IF current < Len(RepositoryOrder)
     THEN current' = current + 1 /\ UNCHANGED status
     ELSE status' = "migrated" /\ UNCHANGED current
  /\ UNCHANGED <<store, script, todo, unawaited, restarts>>

FinishRepositoryOffByOne ==
  /\ status = "migrating"
  /\ script = NoScript
  /\ \A i \in DOMAIN Scripts : ~IsPending(i)
  /\ unawaited = <<>>
  /\ IF current <= Len(RepositoryOrder)
     THEN current' = current + 1 /\ UNCHANGED status
     ELSE status' = "migrated" /\ UNCHANGED current
  /\ UNCHANGED <<store, script, todo, unawaited, restarts>>

\* No script of the repository is pending: on to the next one, if any.
FinishRepository ==
  /\ status = "migrating"
  /\ script = NoScript
  /\ \A i \in DOMAIN Scripts : ~IsPending(i)
  /\ unawaited = <<>>
  /\ IF current < Len(RepositoryOrder)
     THEN current' = current + 1 /\ UNCHANGED status
     ELSE status' = "migrated" /\ UNCHANGED current
  /\ UNCHANGED <<store, script, todo, unawaited, restarts>>

\* The process ends, by a crash or by its operator.
Stop ==
  /\ status # "down"
  /\ restarts < MaxRestarts
  /\ restarts' = restarts + 1
  /\ status' = "down"
  /\ script' = NoScript
  /\ todo' = <<>>
  /\ unawaited' = <<>>
  /\ UNCHANGED <<store, current>>

Progress ==
  \/ StartRuntime
  \/ BeginScript
  \/ SendUnawaited
  \/ ExecuteStatement
  \/ StatementFails
  \/ UnawaitedTakesEffect
  \/ LogMigration
  \/ FinishRepository

Next == Progress \/ Stop

Spec == Init /\ [][Next]_vars

\* A process that was started keeps running its event loop and the database
\* answers every statement; nothing forces a restart.
FairSpec == Spec /\ WF_vars(Progress)

=============================================================================

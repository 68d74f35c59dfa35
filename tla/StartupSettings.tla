--------------------------- MODULE StartupSettings ---------------------------
(***************************************************************************)
(* Which SQLite files a start works on.  The same folder passes through    *)
(* three hands: migrate() resolves it from the variable sqlitePath of      *)
(* main.ts, the post-migration takes it from environment variables that    *)
(* setDatabasePaths has written, and the engine opens what its             *)
(* configuration names, overridden by those variables, after the working   *)
(* directory has changed.  main.ts and process.env outlive a start: an     *)
(* application that embeds the runtime and starts it again after a failure *)
(* finds what the first start left there.                                  *)
(***************************************************************************)
EXTENDS Naturals, Sequences, SequencesExt

CONSTANTS
  Order,            \* the repositories, in the order of their migration
  storage,          \* [repository -> path in its configuration file]
  DefaultBase,      \* the folder "databases" of the user's settings
  DefaultWorkDir,   \* their folder "process_engine_runtime"
  InitialDirectory, \* in which the process was started
  Arguments,        \* of startRuntime: [sqlitePath, workDir, minimalSetup]
  Unset,            \* no argument, no variable, no file
  MaxStarts         \* bound on the calls of startRuntime

Repositories == ToSet(Order)

VARIABLES
  sqlitePath, workDir, minimalSetup,   \* module variables of main.ts
  env,          \* [repository -> process.env.process_engine__..__storage]
  directory,    \* the working directory
  status,       \* of the running start: see Statuses
  migrated,     \* [repository -> the file this start has migrated]
  read,         \* [repository -> the file the post-migration has read]
  opened,       \* [repository -> the file the engine has opened]
  starts        \* number of calls of startRuntime

settings == <<sqlitePath, workDir, minimalSetup, env>>
files == <<migrated, read, opened>>
vars == <<settings, directory, status, files, starts>>

-----------------------------------------------------------------------------
(* A path is the sequence of its segments; "/" comes first if it is        *)
(* absolute.                                                               *)

Root == "/"
IsAbsolute(path) == path # <<>> /\ Head(path) = Root

Join(path, more) == path \o IF IsAbsolute(more) THEN Tail(more) ELSE more

Resolve(path, more) == IF IsAbsolute(more) THEN more ELSE path \o more

Paths == Seq(STRING) \ {<<>>}
AbsolutePaths == {path \in Paths : IsAbsolute(path)}

\* storage is relative in every preset.
ASSUME SettingsAssumption ==
  /\ Order \in Seq(Repositories)
  /\ \A r \in Repositories : storage[r] \in Paths \ AbsolutePaths
  /\ {DefaultBase, DefaultWorkDir, InitialDirectory} \subseteq AbsolutePaths
  /\ \A args \in Arguments :
       /\ args.sqlitePath \in Paths \union {Unset}
       /\ args.workDir \in Paths \union {Unset}
       /\ args.minimalSetup \in BOOLEAN \union {Unset}
  /\ Unset \notin Paths \union BOOLEAN
  /\ MaxStarts \in Nat

-----------------------------------------------------------------------------
Nothing == [r \in Repositories |-> Unset]

Statuses == {"idle", "minimal", "migrating", "migrated", "post-migrated",
             "starting", "running", "failed", "exited"}

Init ==
  /\ sqlitePath = Unset /\ workDir = Unset /\ minimalSetup = FALSE
  /\ env = Nothing
  /\ directory = InitialDirectory
  /\ status = "idle"
  /\ migrated = Nothing /\ read = Nothing /\ opened = Nothing
  /\ starts = 0

Given(argument, variable) == IF argument = Unset THEN variable ELSE argument

getSqliteStoragePath(path) == IF path = Unset THEN DefaultBase ELSE path

\* The repositories setDatabasePaths has a variable for.
HasVariable == {"correlation", "external_task", "flow_node_instance", "process_model"}

\* Defect for mutation: the folder given at the start is not used.
DefaultDatabasePaths(path) ==
  [r \in Repositories |->
     IF r \in HasVariable THEN Join(getSqliteStoragePath(Unset), storage[r])
     ELSE env[r]]

setDatabasePaths(path) ==
  [r \in Repositories |->
     IF r \in HasVariable THEN Join(getSqliteStoragePath(path), storage[r])
     ELSE env[r]]

\* Defect for mutation: the path of the working directory is not looked at.
AnyWorkDirIsAccepted(args) == TRUE

WorkDirIsAccepted(args) == args.workDir = Unset \/ IsAbsolute(args.workDir)

\* parseArguments up to setDatabasePaths: nothing is awaited in between.
StartRuntime(args) ==
  /\ status \in {"idle", "failed", "minimal"}
  /\ starts < MaxStarts
  /\ starts' = starts + 1
  /\ sqlitePath' = Given(args.sqlitePath, sqlitePath)
  /\ minimalSetup' = Given(args.minimalSetup, minimalSetup)
  /\ workDir' = Given(args.workDir, workDir)
  /\ status' = IF ~WorkDirIsAccepted(args) THEN "exited"
               ELSE IF minimalSetup' THEN "minimal" ELSE "migrating"
  /\ env' = IF status' = "migrating" THEN setDatabasePaths(sqlitePath') ELSE env
  /\ migrated' = Nothing /\ read' = Nothing /\ opened' = Nothing
  /\ UNCHANGED directory

\* migrate(repository, sqlitePath), for one repository after the other.
Migrate(k) ==
  /\ status = "migrating"
  /\ migrated[Order[k]] = Unset
  /\ \A l \in 1..(k - 1) : migrated[Order[l]] # Unset
  /\ migrated' = [migrated EXCEPT ![Order[k]] =
       Resolve(Resolve(directory, getSqliteStoragePath(sqlitePath)), storage[Order[k]])]
  /\ status' = IF k = Len(Order) THEN "migrated" ELSE "migrating"
  /\ UNCHANGED <<settings, directory, read, opened, starts>>

\* The connection to the process models is set up from the configuration of the
\* correlations.
ConfiguredFor(r) == IF r = "process_model" THEN storage["correlation"] ELSE storage[r]

PostMigrate ==
  /\ status = "migrated"
  /\ read' = [r \in Repositories |->
       IF r \in {"correlation", "flow_node_instance", "process_model"}
       THEN Resolve(directory, Given(env[r], ConfiguredFor(r)))
       ELSE Unset]
  /\ status' = "post-migrated"
  /\ UNCHANGED <<settings, directory, migrated, opened, starts>>

setWorkingDirectory ==
  /\ status = "post-migrated"
  /\ directory' = Given(workDir, DefaultWorkDir)
  /\ status' = "starting"
  /\ UNCHANGED <<settings, files, starts>>

\* Defect for mutation: the variables are not taken into account.
EngineOpensConfigured ==
  /\ status = "starting"
  /\ opened' = [r \in Repositories |-> Resolve(directory, storage[r])]
  /\ status' = "running"
  /\ UNCHANGED <<settings, directory, migrated, read, starts>>

\* An environment variable takes the place of the value it is named after.
EngineOpens ==
  /\ status = "starting"
  /\ opened' = [r \in Repositories |-> Resolve(directory, Given(env[r], storage[r]))]
  /\ status' = "running"
  /\ UNCHANGED <<settings, directory, migrated, read, starts>>

\* A rejection that startRuntime passes on to its caller; the post-migration
\* ends the process instead.
StartFails ==
  /\ status \in {"migrating", "starting"}
  /\ status' = "failed"
  /\ UNCHANGED <<settings, directory, files, starts>>

StartExits ==
  /\ status = "migrated"
  /\ status' = "exited"
  /\ UNCHANGED <<settings, directory, files, starts>>

Next ==
  \/ \E args \in Arguments : StartRuntime(args)
  \/ \E k \in DOMAIN Order : Migrate(k)
  \/ PostMigrate
  \/ setWorkingDirectory
  \/ EngineOpens
  \/ StartFails
  \/ StartExits

Spec == Init /\ [][Next]_vars

-----------------------------------------------------------------------------
(* Properties.                                                             *)

\* Every file that is worked on has an absolute path, and so has the working
\* directory.
TypeOK ==
  /\ status \in Statuses
  /\ minimalSetup \in BOOLEAN
  /\ IsAbsolute(directory)
  /\ \A r \in Repositories : \A file \in {migrated[r], read[r], opened[r]} :
       file = Unset \/ IsAbsolute(file)
  /\ starts \in 0..MaxStarts

\* The post-migration works on the files this start has migrated, whatever
\* earlier starts left in the variables, also if the folder is given by a
\* relative path (getConfig resolves it, setDatabasePaths joins it).
PostMigrationReadsMigrated ==
  \A r \in Repositories : read[r] # Unset => read[r] = migrated[r]

\* The engine opens the files this start has migrated, as far as they have a
\* variable, if sqlitePath is absolute as the README asks for (setDatabasePaths,
\* setWorkingDirectory).
EngineOpensMigrated ==
  (sqlitePath = Unset \/ IsAbsolute(sqlitePath)) =>
    \A r \in Repositories \intersect HasVariable :
      opened[r] # Unset => opened[r] = migrated[r]

=============================================================================

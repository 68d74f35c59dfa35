----------------------- MODULE StartupSettingsProofs -----------------------
(***************************************************************************)
(* For any list of repositories, any configuration and any arguments, and  *)
(* however often the runtime is started: every path that is worked on is   *)
(* absolute, and post-migration and engine work on the migrated files.     *)
(***************************************************************************)
EXTENDS StartupSettings, SequenceTheorems, TLAPS

Base == getSqliteStoragePath(sqlitePath)

\* What each variable holds.  The process ends on a working directory that is
\* not absolute.
Typed ==
  /\ sqlitePath \in Paths \union {Unset}
  /\ status # "exited" => workDir \in AbsolutePaths \union {Unset}
  /\ minimalSetup \in BOOLEAN
  /\ env \in [Repositories -> Paths \union {Unset}]
  /\ directory \in AbsolutePaths
  /\ status \in Statuses
  /\ migrated \in [Repositories -> AbsolutePaths \union {Unset}]
  /\ read \in [Repositories -> AbsolutePaths \union {Unset}]
  /\ opened \in [Repositories -> AbsolutePaths \union {Unset}]
  /\ starts \in 0..MaxStarts

\* Once the migrations have begun, the variables are those of this start.
VariablesInv ==
  status \in {"migrating", "migrated", "post-migrated", "starting"} =>
    \A r \in Repositories \intersect HasVariable : env[r] = Base \o storage[r]

\* The file a repository has in the folder of this start.
FileOf(r) == Resolve(directory, Base) \o storage[r]

\* The migrations work in that folder; until the directory changes it is the
\* same for whoever asks, afterwards only if it is absolute.
MigratedInv ==
  /\ status \in {"migrating", "migrated", "post-migrated"} =>
       \A r \in Repositories : migrated[r] \in {Unset, FileOf(r)}
  /\ IsAbsolute(Base) =>
       \A r \in Repositories : migrated[r] \in {Unset, Base \o storage[r]}
  /\ status \in {"migrated", "post-migrated", "starting"} =>
       \A r \in Repositories : migrated[r] # Unset

\* Neither the post-migration nor the engine reads a file before its turn.
FreshInv ==
  /\ status \in {"migrating", "migrated"} => \A r \in Repositories : read[r] = Unset
  /\ status \in {"migrating", "migrated", "post-migrated", "starting"} =>
       \A r \in Repositories : opened[r] = Unset

SettingsInv ==
  /\ Typed
  /\ VariablesInv
  /\ MigratedInv
  /\ FreshInv
  /\ PostMigrationReadsMigrated
  /\ EngineOpensMigrated

-----------------------------------------------------------------------------
(* Paths.                                                                  *)

\* A path that begins with another one is absolute if that one is.
LEMMA Concatenated ==
  ASSUME NEW p \in Paths, NEW q \in Paths
  PROVE  /\ p \o q \in Paths
         /\ IsAbsolute(p \o q) <=> IsAbsolute(p)
<1>1. /\ p \in Seq(STRING) /\ q \in Seq(STRING) /\ p # <<>> /\ q # <<>>
  BY DEF Paths
<1>2. /\ p \o q \in Seq(STRING)
      /\ Len(p \o q) = Len(p) + Len(q)
      /\ \A i \in 1..(Len(p) + Len(q)) :
           (p \o q)[i] = IF i <= Len(p) THEN p[i] ELSE q[i - Len(p)]
  BY <1>1, ConcatProperties
<1>3. Len(p) \in Nat \ {0} /\ Len(q) \in Nat \ {0}
  BY <1>1, EmptySeq
<1>4. p \o q # <<>>
  BY <1>2, <1>3, EmptySeq
<1>5. (p \o q)[1] = p[1]
  BY <1>2, <1>3
<1>. QED
  BY <1>1, <1>2, <1>4, <1>5 DEF Paths, IsAbsolute

\* What is resolved against an absolute path is absolute.
LEMMA Resolved ==
  ASSUME NEW p \in AbsolutePaths, NEW q \in Paths
  PROVE  Resolve(p, q) \in AbsolutePaths
BY Concatenated DEF AbsolutePaths, Resolve

\* It does not matter whether the last part is added before or after.
LEMMA ResolvedTogether ==
  ASSUME NEW p \in AbsolutePaths, NEW q \in Paths, NEW r \in Paths \ AbsolutePaths
  PROVE  /\ Resolve(Resolve(p, q), r) = Resolve(p, q) \o r
         /\ Resolve(p, q \o r) = Resolve(p, q) \o r
         /\ IsAbsolute(q) => Resolve(p, q) = q
<1>1. ~IsAbsolute(r)
  BY DEF AbsolutePaths
<1>2. IsAbsolute(q \o r) <=> IsAbsolute(q)
  BY Concatenated DEF AbsolutePaths
<1>3. (p \o q) \o r = p \o (q \o r)
  BY ConcatAssociative DEF Paths, AbsolutePaths
<1>. QED
  BY <1>1, <1>2, <1>3 DEF Resolve

\* The folder of the databases is a path.
LEMMA BaseIsPath == Typed => Base \in Paths
BY SettingsAssumption DEF Typed, Base, getSqliteStoragePath, AbsolutePaths


-----------------------------------------------------------------------------
\* Before the first start no variable is set and no file is worked on.
LEMMA InitHolds == Init => SettingsInv
<1>. SUFFICES ASSUME Init PROVE SettingsInv
  OBVIOUS
<1>1. Typed
  <2>1. InitialDirectory \in AbsolutePaths /\ 0 \in 0..MaxStarts
    BY SettingsAssumption
  <2>. QED
    BY <2>1 DEF Init, Nothing, Typed, Statuses
<1>2. \A r \in Repositories : migrated[r] = Unset /\ read[r] = Unset /\ opened[r] = Unset
  BY DEF Init, Nothing
<1>. QED
  BY <1>1, <1>2 DEF Init, SettingsInv, VariablesInv, MigratedInv, FreshInv,
     PostMigrationReadsMigrated, EngineOpensMigrated

\* A new start sets its variables and forgets the files of the one before.
LEMMA StartHolds ==
  ASSUME SettingsInv, NEW args \in Arguments, StartRuntime(args)
  PROVE  SettingsInv'
<1>. USE SettingsAssumption
<1>1. /\ sqlitePath' \in Paths \union {Unset}
      /\ minimalSetup' \in BOOLEAN
      /\ WorkDirIsAccepted(args) => workDir' \in AbsolutePaths \union {Unset}
  BY DEF StartRuntime, SettingsInv, Typed, Given, WorkDirIsAccepted, AbsolutePaths
<1>2. /\ status' \in {"exited", "minimal", "migrating"}
      /\ status' # "exited" => WorkDirIsAccepted(args)
      /\ env' = IF status' = "migrating" THEN setDatabasePaths(sqlitePath') ELSE env
      /\ migrated' = Nothing /\ read' = Nothing /\ opened' = Nothing
      /\ directory' = directory
  BY DEF StartRuntime
<1>3. starts' \in 0..MaxStarts
  <2>1. starts \in 0..MaxStarts /\ starts < MaxStarts /\ starts' = starts + 1
    BY DEF StartRuntime, SettingsInv, Typed
  <2>. QED
    BY <2>1
<1>4. Base' \in Paths
  BY <1>1 DEF Base, getSqliteStoragePath, AbsolutePaths
<1>5. \A r \in Repositories :
        setDatabasePaths(sqlitePath')[r] =
          IF r \in HasVariable THEN Base' \o storage[r] ELSE env[r]
  BY DEF setDatabasePaths, Base, Join, AbsolutePaths
<1>6. \A r \in Repositories : Base' \o storage[r] \in Paths
  BY <1>4, Concatenated
<1>7. env' \in [Repositories -> Paths \union {Unset}]
  <2>1. env \in [Repositories -> Paths \union {Unset}]
    BY DEF SettingsInv, Typed
  <2>2. setDatabasePaths(sqlitePath') \in [Repositories -> Paths \union {Unset}]
    <3>1. \A r \in Repositories : setDatabasePaths(sqlitePath')[r] \in Paths \union {Unset}
      BY <1>5, <1>6, <2>1
    <3>. QED
      BY <3>1 DEF setDatabasePaths
  <2>. QED
    BY <1>2, <2>1, <2>2
<1>8. Typed'
  BY <1>1, <1>2, <1>3, <1>7 DEF SettingsInv, Typed, Statuses, Nothing
<1>9. VariablesInv'
  BY <1>2, <1>5 DEF VariablesInv
<1>10. MigratedInv'
  BY <1>2 DEF MigratedInv, Nothing
<1>11. FreshInv' /\ PostMigrationReadsMigrated' /\ EngineOpensMigrated'
  BY <1>2 DEF FreshInv, PostMigrationReadsMigrated, EngineOpensMigrated, Nothing
<1>. QED
  BY <1>8, <1>9, <1>10, <1>11 DEF SettingsInv

\* A migrated file is the one in the folder of this start.
LEMMA MigrateHolds ==
  ASSUME SettingsInv, NEW k \in DOMAIN Order, Migrate(k)
  PROVE  SettingsInv'
<1>. DEFINE r == Order[k]
<1>. USE SettingsAssumption
<1>1. /\ status = "migrating"
      /\ \A l \in 1..(k - 1) : migrated[Order[l]] # Unset
      /\ migrated[r] = Unset
      /\ migrated' = [migrated EXCEPT ![r] = Resolve(Resolve(directory, Base), storage[r])]
      /\ status' = IF k = Len(Order) THEN "migrated" ELSE "migrating"
      /\ UNCHANGED <<sqlitePath, workDir, minimalSetup, env, directory, read, opened,
                     starts>>
  BY DEF Migrate, Base, settings
<1>2. r \in Repositories
  BY DEF Repositories, ToSet
<1>3. Base \in Paths /\ Base' = Base
  BY <1>1, BaseIsPath DEF SettingsInv, Base
<1>4. /\ Resolve(Resolve(directory, Base), storage[r]) = FileOf(r)
      /\ FileOf(r) \in AbsolutePaths
      /\ IsAbsolute(Base) => FileOf(r) = Base \o storage[r]
  <2>1. directory \in AbsolutePaths /\ storage[r] \in Paths \ AbsolutePaths
    BY <1>2 DEF SettingsInv, Typed
  <2>2. Resolve(directory, Base) \in AbsolutePaths
    BY <2>1, <1>3, Resolved
  <2>3. Resolve(directory, Base) \o storage[r] \in AbsolutePaths
    BY <2>1, <2>2, Concatenated DEF AbsolutePaths
  <2>. QED
    BY <1>3, <2>1, <2>3, ResolvedTogether DEF FileOf
<1>5. migrated \in [Repositories -> AbsolutePaths \union {Unset}]
  BY DEF SettingsInv, Typed
<1>6. \A q \in Repositories : migrated'[q] = IF q = r THEN FileOf(r) ELSE migrated[q]
  BY <1>1, <1>2, <1>4, <1>5
<1>7. \A q : FileOf(q)' = FileOf(q)
  BY <1>1, <1>3 DEF FileOf
<1>8. VariablesInv'
  BY <1>1, <1>3 DEF SettingsInv, VariablesInv
<1>9. MigratedInv'
  <2>1. \A q \in Repositories : migrated'[q] \in {Unset, FileOf(q)'}
    BY <1>1, <1>6, <1>7 DEF SettingsInv, MigratedInv
  <2>2. IsAbsolute(Base') =>
          \A q \in Repositories : migrated'[q] \in {Unset, Base' \o storage[q]}
    BY <1>1, <1>3, <1>4, <1>6 DEF SettingsInv, MigratedInv
  <2>3. status' = "migrated" => \A q \in Repositories : migrated'[q] # Unset
    <3>. SUFFICES ASSUME status' = "migrated", NEW q \in Repositories
                  PROVE  migrated'[q] # Unset
      OBVIOUS
    <3>1. PICK l \in DOMAIN Order : q = Order[l]
      BY DEF Repositories, ToSet
    <3>2. k = Len(Order) /\ DOMAIN Order = 1..Len(Order) /\ Len(Order) \in Nat
      BY <1>1
    <3>3. CASE l = k
      BY <3>1, <3>3, <1>4, <1>6 DEF AbsolutePaths
    <3>4. CASE l # k
      <4>1. l \in 1..(k - 1)
        BY <3>2, <3>4
      <4>. QED
        BY <4>1, <3>1, <1>1, <1>4, <1>6 DEF AbsolutePaths
    <3>. QED
      BY <3>3, <3>4
  <2>. QED
    BY <1>1, <2>1, <2>2, <2>3 DEF MigratedInv
<1>10. migrated' \in [Repositories -> AbsolutePaths \union {Unset}]
  BY <1>1, <1>4, <1>5
<1>11. Typed'
  BY <1>1, <1>10 DEF SettingsInv, Typed, Statuses
<1>12. FreshInv' /\ PostMigrationReadsMigrated' /\ EngineOpensMigrated'
  BY <1>1 DEF SettingsInv, FreshInv, PostMigrationReadsMigrated, EngineOpensMigrated
<1>. QED
  BY <1>8, <1>9, <1>11, <1>12 DEF SettingsInv

\* The variable of a repository, resolved, names its migrated file.
LEMMA PostMigrateHolds == SettingsInv /\ PostMigrate => SettingsInv'
<1>. SUFFICES ASSUME SettingsInv, PostMigrate PROVE SettingsInv'
  OBVIOUS
<1>. USE SettingsAssumption
<1>1. /\ status = "migrated" /\ status' = "post-migrated"
      /\ UNCHANGED <<sqlitePath, workDir, minimalSetup, env, directory, migrated, opened,
                     starts>>
  BY DEF PostMigrate, settings
<1>2. read' = [r \in Repositories |->
         IF r \in {"correlation", "flow_node_instance", "process_model"}
         THEN Resolve(directory, Given(env[r], ConfiguredFor(r))) ELSE Unset]
  BY DEF PostMigrate
<1>3. Base \in Paths /\ Base' = Base
  BY <1>1, BaseIsPath DEF SettingsInv, Base
<1>4. ASSUME NEW r \in Repositories, read'[r] # Unset
      PROVE  read'[r] = FileOf(r) /\ read'[r] \in AbsolutePaths
  <2>1. /\ r \in HasVariable
        /\ read'[r] = Resolve(directory, Given(env[r], ConfiguredFor(r)))
    BY <1>2, <1>4 DEF HasVariable
  <2>2. env[r] = Base \o storage[r]
    BY <1>1, <2>1 DEF SettingsInv, VariablesInv
  <2>3. directory \in AbsolutePaths /\ storage[r] \in Paths \ AbsolutePaths
    BY DEF SettingsInv, Typed
  <2>4. Base \o storage[r] \in Paths
    BY <1>3, <2>3, Concatenated
  <2>5. read'[r] = Resolve(directory, Base \o storage[r])
    BY <2>1, <2>2, <2>4 DEF Given
  <2>. QED
    BY <1>3, <2>3, <2>4, <2>5, Resolved, ResolvedTogether DEF FileOf
<1>5. Typed'
  <2>1. read' \in [Repositories -> AbsolutePaths \union {Unset}]
    BY <1>2, <1>4
  <2>. QED
    BY <1>1, <2>1 DEF SettingsInv, Typed, Statuses
<1>6. PostMigrationReadsMigrated'
  BY <1>1, <1>4 DEF PostMigrationReadsMigrated, SettingsInv, MigratedInv
<1>7. VariablesInv' /\ MigratedInv'
  BY <1>1, <1>3 DEF SettingsInv, VariablesInv, MigratedInv, FileOf
<1>8. FreshInv' /\ EngineOpensMigrated'
  BY <1>1 DEF SettingsInv, FreshInv, EngineOpensMigrated
<1>. QED
  BY <1>5, <1>6, <1>7, <1>8 DEF SettingsInv

\* The change of the working directory moves no file with an absolute path.
LEMMA DirectoryHolds == SettingsInv /\ setWorkingDirectory => SettingsInv'
<1>. SUFFICES ASSUME SettingsInv, setWorkingDirectory PROVE SettingsInv'
  OBVIOUS
<1>. USE SettingsAssumption
<1>1. /\ status = "post-migrated" /\ status' = "starting"
      /\ directory' = Given(workDir, DefaultWorkDir)
      /\ UNCHANGED <<sqlitePath, workDir, minimalSetup, env, migrated, read, opened,
                     starts>>
  BY DEF setWorkingDirectory, settings, files
<1>2. directory' \in AbsolutePaths
  BY <1>1 DEF SettingsInv, Typed, Given
<1>3. Typed'
  BY <1>1, <1>2 DEF SettingsInv, Typed, Statuses
<1>4. VariablesInv' /\ MigratedInv'
  BY <1>1 DEF SettingsInv, VariablesInv, MigratedInv, Base
<1>5. FreshInv' /\ PostMigrationReadsMigrated' /\ EngineOpensMigrated'
  BY <1>1 DEF SettingsInv, FreshInv, PostMigrationReadsMigrated, EngineOpensMigrated
<1>. QED
  BY <1>3, <1>4, <1>5 DEF SettingsInv

\* An absolute folder is the same from the new working directory.
LEMMA EngineHolds == SettingsInv /\ EngineOpens => SettingsInv'
<1>. SUFFICES ASSUME SettingsInv, EngineOpens PROVE SettingsInv'
  OBVIOUS
<1>. USE SettingsAssumption
<1>1. /\ status = "starting" /\ status' = "running"
      /\ opened' = [r \in Repositories |-> Resolve(directory, Given(env[r], storage[r]))]
      /\ UNCHANGED <<sqlitePath, workDir, minimalSetup, env, directory, migrated, read,
                     starts>>
  BY DEF EngineOpens, settings
<1>2. Base \in Paths /\ Base' = Base
  BY <1>1, BaseIsPath DEF SettingsInv, Base
<1>3. directory \in AbsolutePaths
  BY DEF SettingsInv, Typed
<1>4. Typed'
  <2>1. ASSUME NEW r \in Repositories
        PROVE  Resolve(directory, Given(env[r], storage[r])) \in AbsolutePaths
    <3>1. env[r] \in Paths \union {Unset} /\ storage[r] \in Paths
      BY DEF SettingsInv, Typed
    <3>2. Given(env[r], storage[r]) \in Paths
      BY <3>1 DEF Given
    <3>. QED
      BY <1>3, <3>2, Resolved
  <2>2. opened' \in [Repositories -> AbsolutePaths \union {Unset}]
    BY <1>1, <2>1
  <2>. QED
    BY <1>1, <2>2 DEF SettingsInv, Typed, Statuses
<1>5. EngineOpensMigrated'
  <2>. SUFFICES ASSUME sqlitePath = Unset \/ IsAbsolute(sqlitePath),
                       NEW r \in Repositories \intersect HasVariable
                PROVE  opened'[r] = migrated[r]
    BY <1>1 DEF EngineOpensMigrated
  <2>1. IsAbsolute(Base)
    BY DEF Base, getSqliteStoragePath, AbsolutePaths
  <2>2. env[r] = Base \o storage[r] /\ storage[r] \in Paths \ AbsolutePaths
    BY <1>1 DEF SettingsInv, VariablesInv
  <2>3. Base \o storage[r] \in Paths /\ IsAbsolute(Base \o storage[r])
    BY <1>2, <2>1, <2>2, Concatenated
  <2>4. opened'[r] = Base \o storage[r]
    BY <1>1, <2>2, <2>3 DEF Given, Resolve
  <2>5. migrated[r] = Base \o storage[r]
    BY <1>1, <2>1 DEF SettingsInv, MigratedInv
  <2>. QED
    BY <2>4, <2>5
<1>6. VariablesInv' /\ MigratedInv' /\ FreshInv' /\ PostMigrationReadsMigrated'
  BY <1>1, <1>2 DEF SettingsInv, VariablesInv, MigratedInv, FreshInv,
     PostMigrationReadsMigrated
<1>. QED
  BY <1>4, <1>5, <1>6 DEF SettingsInv

\* A start that ends changes no variable and no file.
LEMMA EndHolds == SettingsInv /\ (StartFails \/ StartExits) => SettingsInv'
<1>. SUFFICES ASSUME SettingsInv, StartFails \/ StartExits PROVE SettingsInv'
  OBVIOUS
<1>1. /\ status # "exited" /\ status' \in {"failed", "exited"}
      /\ UNCHANGED <<sqlitePath, workDir, minimalSetup, env, directory, migrated, read,
                     opened, starts>>
  BY DEF StartFails, StartExits, settings, files
<1>. QED
  BY <1>1 DEF SettingsInv, Typed, Statuses, VariablesInv, MigratedInv, FreshInv,
     PostMigrationReadsMigrated, EngineOpensMigrated, Base

\* A step that changes nothing keeps the invariant.
LEMMA StutterHolds == SettingsInv /\ UNCHANGED vars => SettingsInv'
BY DEF vars, settings, files, SettingsInv, Typed, VariablesInv, MigratedInv, FreshInv,
   PostMigrationReadsMigrated, EngineOpensMigrated, Base, FileOf

-----------------------------------------------------------------------------
\* The inductive invariant: the variables are those of this start, and a
\* migrated file lies where they point (main.ts, migrator.ts).
THEOREM SettingsInvariant == Spec => []SettingsInv
<1>1. SettingsInv /\ [Next]_vars => SettingsInv'
  BY StartHolds, MigrateHolds, PostMigrateHolds, DirectoryHolds, EngineHolds, EndHolds,
     StutterHolds DEF Next
<1>. QED
  BY InitHolds, <1>1, PTL DEF Spec

\* Every file that is worked on has an absolute path (setDatabasePaths,
\* getConfig, setWorkingDirectory).
THEOREM SettingsTypeCorrect == Spec => []TypeOK
<1>1. SettingsInv => TypeOK
  <2>. SUFFICES ASSUME SettingsInv PROVE TypeOK
    OBVIOUS
  <2>1. IsAbsolute(directory)
    BY DEF SettingsInv, Typed, AbsolutePaths
  <2>2. \A r \in Repositories : \A file \in {migrated[r], read[r], opened[r]} :
          file = Unset \/ IsAbsolute(file)
    BY DEF SettingsInv, Typed, AbsolutePaths
  <2>. QED
    BY <2>1, <2>2 DEF SettingsInv, Typed, TypeOK
<1>. QED
  BY SettingsInvariant, <1>1, PTL

\* The post-migration reads what was migrated (runPostMigrations).
THEOREM ReadsMigrated == Spec => []PostMigrationReadsMigrated
<1>1. SettingsInv => PostMigrationReadsMigrated
  BY DEF SettingsInv
<1>. QED
  BY SettingsInvariant, <1>1, PTL

\* So does the engine, if the folder is absolute (setWorkingDirectory).
THEOREM OpensMigrated == Spec => []EngineOpensMigrated
<1>1. SettingsInv => EngineOpensMigrated
  BY DEF SettingsInv
<1>. QED
  BY SettingsInvariant, <1>1, PTL

=============================================================================

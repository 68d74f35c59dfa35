CONSTANTS
  Order <- AllRepositories
  storage <- Sqlite
  DefaultBase <- Databases
  DefaultWorkDir <- UserFolder
  InitialDirectory <- StartedIn
  Arguments <- AllArguments
  Unset = Unset
  MaxStarts = 2
SPECIFICATION Spec
\* A start ends.
CHECK_DEADLOCK FALSE
INVARIANTS
  TypeOK
  PostMigrationReadsMigrated
  EngineOpensMigrated

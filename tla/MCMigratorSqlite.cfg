CONSTANTS
  Dialect = "sqlite"
  InitialStores <- AllStores
  MaxRestarts = 2
SPECIFICATION FairSpec
\* A runtime that has migrated, or failed to, does not start again by itself.
CHECK_DEADLOCK FALSE
INVARIANTS
  TypeOK
  RepositoriesInOrder
  CopiesBounded
  FailsOnlyWhereKnown
  SchemaConverges
  StatesSyncedIfPossible
PROPERTIES
  CompleteStoreUntouched
  ValuesKept
  InstanceStaysKnown
  EventuallyMigrated
  ImplementsLog

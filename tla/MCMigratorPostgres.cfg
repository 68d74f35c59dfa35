CONSTANTS
  Dialect = "postgres"
  InitialStores <- SharedStores
  MaxRestarts = 2
SPECIFICATION Spec
\* A runtime that has migrated, or failed to, does not start again by itself.
CHECK_DEADLOCK FALSE
INVARIANTS
  FailsOnlyWhereKnown
  CorrelationsFilled
  CorrelationsNeverMixed

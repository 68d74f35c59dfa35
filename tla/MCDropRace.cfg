CONSTANTS
  Dialect = "postgres"
  InitialStores <- NewSharedStores
  MaxRestarts = 0
SPECIFICATION Spec
\* A runtime that has migrated, or failed to, does not start again by itself.
CHECK_DEADLOCK FALSE
PROPERTIES
  DropsOnlyLeftovers

CONSTANTS
  InitialStores <- PostgresStores
  Undefined = Undefined
  EngineRow <- NewRow
  MaxId = 8
  MaxRestarts = 0
SPECIFICATION FairSpec
\* A runtime that serves, or has exited, does not start again by itself.
CHECK_DEADLOCK FALSE
PROPERTIES
  EventuallyFilledIfFound

CONSTANTS
  InitialStores <- AllStores
  Undefined = Undefined
  EngineRow <- NewRow
  MaxId = 8
  MaxRestarts = 2
SPECIFICATION FairSpec
\* A runtime that serves, or has exited, does not start again by itself.
CHECK_DEADLOCK FALSE
INVARIANTS
  TypeOK
  MarkedWhenFilled
  FilledFromOwnModel
PROPERTIES
  SetOnce
  EventuallyFilledIfFound

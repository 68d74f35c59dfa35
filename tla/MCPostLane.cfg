CONSTANTS
  InitialStores <- OldStores
  Undefined = Undefined
  EngineRow <- NewRow
  MaxId = 8
  MaxRestarts = 0
SPECIFICATION Spec
\* A runtime that serves, or has exited, does not start again by itself.
CHECK_DEADLOCK FALSE
INVARIANTS
  LaneRemainsEmpty

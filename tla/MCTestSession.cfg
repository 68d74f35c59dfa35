CONSTANTS
  Sessions = 2
  Tests <- TestFiles
  MaxTries = 2
SPECIFICATION FairSpec
\* mocha ends.
CHECK_DEADLOCK FALSE
INVARIANTS
  TypeOK
  TornDownIsClean
  NothingKeepsRunning
  FoundIsOwn
  FailsForAReason
  RejectionNeverHidden
PROPERTIES
  EverySessionEnds

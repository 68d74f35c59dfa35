CONSTANTS
  Order <- TwoRepositories
  Count <- Scripts
  Instances = {i1, i2}
  MaxRestarts = 2
SPECIFICATION FairSpec
\* A runtime that runs, or has failed, need not do anything more.
CHECK_DEADLOCK FALSE
INVARIANTS
  TypeOK
  ExecutesOnMigratedStore
  StartedMeansServing
  NothingLeftIdle
PROPERTIES
  InterruptedIsResumed

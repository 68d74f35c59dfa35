CONSTANTS
  Order <- TwoRepositories
  Count <- Scripts
  Instances = {i1}
  MaxRestarts = 0
SPECIFICATION Spec
\* A runtime that runs, or has failed, need not do anything more.
CHECK_DEADLOCK FALSE
INVARIANTS
  NeverExecutedTwice

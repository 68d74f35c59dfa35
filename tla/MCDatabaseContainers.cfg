SPECIFICATION FairSpec
\* Every invocation ends.
CHECK_DEADLOCK FALSE
CONSTANTS
  Calls = 3
  maxRetries = 1
INVARIANTS
  TypeOK
  ResetIsFresh
  DatabaseUnlessAbandoned
PROPERTIES
  CommandsEnd

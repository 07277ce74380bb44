SPECIFICATION FairSpec
CONSTANTS
  Cancellable = TRUE
INVARIANTS
  NoFailureLost
  NothingRunsAfterReturn
PROPERTIES
  ShutdownCompletes
CHECK_DEADLOCK FALSE

SPECIFICATION FairManagerSpec
CONSTANTS
  Callers = {"c1", "c2"}
  Names = {"head", "archive"}
  Instances = {"a", "h"}
  Archives = {"a"}
  NoSub = NoSub
INVARIANTS
  PanicNeedsTwoStops
PROPERTIES
  
  CancelledCloseReturns
CHECK_DEADLOCK FALSE

SPECIFICATION FairManagerSpec
CONSTANTS
  Callers = {"c1", "c2"}
  Names = {"head", "archive"}
  Instances = {"a", "h"}
  Archives = {"a"}
  NoSub = NoSub
PROPERTIES
  RegisteredIsKept
CHECK_DEADLOCK FALSE

SPECIFICATION FairSpec
CONSTANTS
  StartBlock = 1
  EndBlock = 3
  Creations <- ThreeCreations
  BlockOf <- CreationBlocks
  ResumptionChoices = {TRUE, FALSE}
  Faults = {"fetch", "receipt", "unpack", "redis", "stop"}
  MaxCrashes = 2
INVARIANTS
  SkippedWereVisited
  ReportedProgress
  PassedAccountedFor
PROPERTIES
  ResumedRangeUnpacked
CHECK_DEADLOCK FALSE

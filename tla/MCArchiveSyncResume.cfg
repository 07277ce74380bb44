SPECIFICATION FairSpec
CONSTANTS
  StartBlock = 1
  EndBlock = 3
  Creations <- ThreeCreations
  BlockOf <- CreationBlocks
  ResumptionChoices = {TRUE}
  Faults = {}
  MaxCrashes = 1
PROPERTIES
  AllUnpacked
CHECK_DEADLOCK FALSE

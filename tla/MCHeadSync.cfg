SPECIFICATION FairSpec
CONSTANTS
  MaxNumber = 3
  MaxVersion = 1
INVARIANTS
  AnnouncedCovered
  PersistedWentToHooks
PROPERTIES
  AnnouncedHandled

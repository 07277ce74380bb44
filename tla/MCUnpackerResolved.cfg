SPECIFICATION Spec
CONSTANTS
  Jobs = {j1}
  Contracts = {c1}
  Callers = {"event"}
  ForceReprocess = FALSE
  EntryStates <- EnterAtDiscover
INVARIANTS
  ResolvedMeansUnpacked

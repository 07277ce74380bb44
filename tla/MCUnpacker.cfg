SPECIFICATION Spec
CONSTANTS
  Jobs = {j1, j2}
  Contracts = {c1}
  Callers = {"block", "rpc", "event"}
  ForceReprocess = FALSE
  EntryStates <- EnterAnywhere
SYMMETRY Symmetric
INVARIANTS
  RowsAccountForPipeline
  ModelNamesOwnRow
  FinalMeansStored
  FilesHaveRow
PROPERTIES
  ImplementsStore
  RowsKeepIdentity
  JobsDescend

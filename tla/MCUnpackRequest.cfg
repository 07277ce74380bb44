SPECIFICATION FairSpec
CONSTANTS
  Contracts = {"c1", "c2", "zero"}
  Spellings = {"lower", "other", "star"}
  AddressOf <- AddressOfText
  Hears <- HearsOfText
  Known = {"c1", "zero"}
  Requests = {"r1", "r2"}
  MaxPending = 1
INVARIANTS
  AnswersOwnContract
  RowMeansStored
PROPERTIES
  RequestsReturn

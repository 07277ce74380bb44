SPECIFICATION FairSpec
CONSTANTS
  Calls = {"r1", "r2"}
  Contracts = {"c1"}
  Addresses = {"lower", "checksum", "junk"}
  AddressOf <- OneContract
  Requests <- SomeRequests
INVARIANTS
  AnswersInOrder
  ShortMeansPanic
  StoreAnswersStored
PROPERTIES
  CallsReturn

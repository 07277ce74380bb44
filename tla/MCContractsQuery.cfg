SPECIFICATION FairSpec
CONSTANTS
  Rows <- SomeRows
  Networks <- TwoNetworks
  Plans <- SomePlans
  MaxRows = 4
INVARIANTS
  CrawlSound
  CrawlComplete
  ResponseExplained
  OnlyUpdatedAtFails
PROPERTIES
  RequestsAnswered

SPECIFICATION FairSpec
CONSTANTS
  Threads = {main, rx}
  Batches <- MCBatches
  RejectsReentry = TRUE
  MayClose = TRUE
  MaxFaults = 2
INVARIANTS
  TypeOK
  WholeBatches
  TotalIsHonest
PROPERTIES
  FlushReturns
  KeepsPromise

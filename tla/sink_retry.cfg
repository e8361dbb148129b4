SPECIFICATION Spec
CONSTANTS
  Threads = {main}
  Batches <- MCTwo
  RejectsReentry = TRUE
  MayClose = FALSE
  MaxFaults = 1
PROPERTIES
  LossIsRetried

SPECIFICATION Spec
CONSTANTS
  FILES <- MCFiles
  DIRS <- MCDirs
  Bodies = {b1, b2}
  Torn = torn
  MaxEdits = 2
  MaxRuns = 3
  MaxFaults = 2
INVARIANTS
  TypeOK
  DoneMeansPublished
  PushPublishesAll
  TornIsRepaired

SPECIFICATION FairSpec
CONSTANTS
  Importers = {p1, p2}
  Files <- MCFiles
  Name <- MCName
  Lines <- MCLines
  Calls <- MCCalls
  Chunk = 2
  MaxStarts = 3
  MaxFaults = 1
INVARIANTS
  TypeOK
  WholeFiles
  NoFileMissed
  ReportedIsHonest
PROPERTIES
  RunsEnd

SPECIFICATION Spec
CONSTANTS
  MaxStarts = 3
INVARIANTS
  StopLeavesNothing
  OnlyLatestStays
  ServingHasItsProgram

SPECIFICATION Spec
CONSTANTS
  MaxStarts = 2
INVARIANTS
  EndsWithExactlyOne

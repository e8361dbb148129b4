SPECIFICATION FairSpec
CONSTANTS
  CommandLines <- MCCommandLines
  None = None
  MaxClock = 7
INVARIANTS
  TypeOK
  ProbesWhatWasAsked
  NoBackToBack
  NoDriftUnlessMissed
  EachPairOncePerRound
PROPERTIES
  DurationEnds

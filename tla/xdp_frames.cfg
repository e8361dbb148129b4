SPECIFICATION Spec
CONSTANTS
  Frames <- MCFrames
  Probes <- MCProbes
  MaxExthdrs = 8
  RingSlots = 2
  MaxArrivals = 3
INVARIANTS
  TypeOK
  NoSilentDrop
  HostTrafficSpared
  OneRowPerProbe
  OkWasCaught
PROPERTIES
  LeftOnlyWhenFull

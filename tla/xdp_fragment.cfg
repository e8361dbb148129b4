SPECIFICATION Spec
CONSTANTS
  Frames <- MCFragments
  Probes <- MCProbes
  MaxExthdrs = 8
  RingSlots = 2
  MaxArrivals = 3
INVARIANTS
  HostTrafficSpared

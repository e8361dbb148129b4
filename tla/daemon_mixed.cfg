SPECIFICATION Spec
CONSTANTS
  Pairs <- MCMixed
  TcpSeqSpace = 8
  TcpSeqStep = 3
  TcpSeqStart <- MCStart
  IcmpSeqSpace = 4
  BatchSize = 2
  Timeout = 1
  MatchedTTL = 1
  SweepEvery = 1
  BatchInterval = 0
  JoinWait = 1
  None = None
  MaxProbes = 2
  MaxReplies = 2
INVARIANTS
  TypeOK
  BufferBound
  NoContradiction
  Accounted
  CleanExit
  PolledIsKept
PROPERTIES
  ImplementsLedger

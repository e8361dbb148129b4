SPECIFICATION Spec
CONSTANTS
  Pairs <- MCTcp
  TcpSeqSpace = 8
  TcpSeqStep = 3
  TcpSeqStart <- MCStart
  IcmpSeqSpace = 4
  BatchSize = 2
  Timeout = 1
  MatchedTTL = 1
  SweepEvery = 1
  BatchInterval = 1
  JoinWait = 1
  None = None
  MaxProbes = 1
  MaxReplies = 1
INVARIANTS
  OkWithinWindow

SPECIFICATION LiveSpec
CONSTANTS
  Pairs <- MCBothIcmp
  TcpSeqSpace = 8
  TcpSeqStep = 3
  TcpSeqStart <- MCStart
  IcmpSeqSpace = 4
  BatchSize = 2
  Timeout = 1
  MatchedTTL = 0
  SweepEvery = 0
  BatchInterval = 0
  JoinWait = 1
  None = None
  MaxProbes = 2
  MaxReplies = 1
PROPERTIES
  ProbeResolved
  ShutdownCompletes

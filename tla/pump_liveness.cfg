SPECIFICATION FairSpec
CONSTANTS
  c1 = c1
  c2 = c2
  Conns <- MCConns
  None = None
  FirstSeq = 1
  MaxRuns = 2
  MaxPackets = 2
  MaxNoise = 0
  SockCap = 1
  BlockIpv6 = TRUE
  CloneMayFail = FALSE
INVARIANTS RunningHasThreads LossBounded
PROPERTY StopStops

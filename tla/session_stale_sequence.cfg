SPECIFICATION SSpec
CONSTANTS
  c1 = c1
  c2 = c2
  Conns <- MCConns
  None = None
  FirstSeq = 0
  MaxRuns = 1
  MaxPackets = 1
  MaxNoise = 0
  SockCap = 1
  BlockIpv6 = FALSE
  CloneMayFail = FALSE
  Attempts = {a1}
  Probers = {}
  MaxProbes = 0
INVARIANT RetryStartsClean

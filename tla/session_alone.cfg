SPECIFICATION SFairSpec
CONSTANTS
  c1 = c1
  c2 = c2
  Conns <- MCConns
  None = None
  FirstSeq = 0
  MaxRuns = 2
  MaxPackets = 1
  MaxNoise = 0
  SockCap = 1
  BlockIpv6 = FALSE
  CloneMayFail = TRUE
  Attempts = {a1}
  Probers = {}
  MaxProbes = 0
INVARIANTS STypeOK DataOnlyWhenProven NonceUnique
PROPERTY LockReleased

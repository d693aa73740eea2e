SPECIFICATION Spec
CONSTANTS
  c1 = c1
  c2 = c2
  Conns <- MCConns
  None = None
  FirstSeq = 0
  MaxRuns = 2
  MaxPackets = 2
  MaxNoise = 1
  SockCap = 2
  BlockIpv6 = FALSE
  CloneMayFail = FALSE
SYMMETRY Symmetry
INVARIANTS TypeOK OneOwner NonceUnique ServerAccepts InStepInbound
PROPERTY RelayIsPipe

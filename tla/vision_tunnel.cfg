SPECIFICATION Spec
CONSTANTS
  ByteMod = 16
  UuidLen = 2
  MaxFrameBody = 12
  TestSeed <- MCTestSeed
  Requests <- MCRequests
  Packets <- MCPackets
  Draws = {0, 3}
  MaxPackets = 2
  MaxRecords = 3
INVARIANTS TypeOK RequestArrives FramesBounded EchoReturns OnlyProbeRefused CleanCloseIsWhole
PROPERTIES UpIsPipe DownIsPipe
CHECK_DEADLOCK FALSE

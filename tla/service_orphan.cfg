SPECIFICATION Spec
CONSTANTS
  MaxStarts = 1
  MaxStops = 1
  MaxAttempts = 1
INVARIANT NoSessionBehindTun

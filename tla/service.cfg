SPECIFICATION FairSpec
CONSTANTS
  MaxStarts = 1
  MaxStops = 2
  MaxAttempts = 2
INVARIANTS TypeOK LateAttemptsBounded StopSilencesPump
PROPERTY LoopsEnd

SPECIFICATION ShutdownFairSpec
CONSTANTS
  OwnWorkers = {w1, w2}
  MaxClaim = 2
  NumChannels = 1
  MaxOpen = 1
CHECK_DEADLOCK FALSE
PROPERTY ShutdownCompletes

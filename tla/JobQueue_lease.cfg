SPECIFICATION FairSpec
CONSTANTS
  NumJobs = 2
  Workers = {w1, w2}
  BatchSize = 2
  MaxAttempts = 2
  AttemptCap = 3
  LockTicks = 3
  RunTicks = 1
  MaxFaults = 1
  NULL = NULL
INVARIANTS NoDoubleProcessing VerdictsEarned
PROPERTIES LifecycleSpec EventuallySettled

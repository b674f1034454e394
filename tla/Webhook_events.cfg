SPECIFICATION FairSpec
CONSTANTS
  e1 = e1
  e2 = e2
  Events = {e1, e2}
  Mixes <- Pairs
  Handlers = {h1, h2}
  Window = 2
  MaxDays = 1
  MaxFaults = 1
INVARIANTS CountedOnce Announced
PROPERTIES EveryEventApplied WindowRecounted
CHECK_DEADLOCK FALSE

\* Two tabs save, a channel goes, and the link is deleted and made again.
SPECIFICATION Spec
CONSTANTS
  t1 = t1
  t2 = t2
  c1 = c1
  none = none
  Tabs = {t1, t2}
  Channels = {c1}
  NoChannel = none
  MaxSaves = 3
  MaxTokens = 3
  MaxChanges = 2
  MaxFaults = 1
INVARIANTS BoundIsConnected RegisteredHasRow
PROPERTY SavesOverWhatItSaw
SYMMETRY TabSymmetry
CHECK_DEADLOCK FALSE

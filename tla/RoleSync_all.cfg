SPECIFICATION FairSpec
\* A deleted link is over: the system may stop.
CHECK_DEADLOCK FALSE
CONSTANTS
  NumMembers = 2
  v1 = v1
  v2 = v2
  FactValues = {v1, v2}
  Rules <- TwoRules
  FirstRules <- NarrowOnly
  FirstFacts <- FirstMatch
  UserLimit = 1
  Syncs = {s1, s2}
  MaxChanges = 2
  MaxFaults = 1
INVARIANTS MirrorExact HeldIsRechecked GrantsEarned
PROPERTIES NotStripped MirrorConverges RolesConverge

SPECIFICATION FairSpec
CONSTANTS
  Channels = {c1}
  Probes = {p1, p2}
  Confirmations = 2
  Spacing = 1
  MaxMoves = 2
  MaxFaults = 1
INVARIANTS DoubtIsBooked ChangeAnnounced
PROPERTIES RemovalsEarned UnfollowNoticed FollowersFound

SPECIFICATION Spec
CONSTANTS
  Members = {m1, m2}
  Kicks = {k1}
  States = {s1}
  Requests = {r1}
  Workers = {w1}
  Rules = {"follower", "linked_unbound"}
  Chatters = {k1}
  NoOne = none
  MaxChanges = 2
  MaxFaults = 1
 
PROPERTIES UnlinkStrips FollowerGetsRole

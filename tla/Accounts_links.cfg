SPECIFICATION Spec
CONSTANTS
  Members = {m1, m2}
  Kicks = {k1, k2}
  States = {s1}
  Requests = {r1, r2}
  Workers = {w1, w2}
  Rules = {"follower"}
  Chatters = {}
  NoOne = none
  MaxChanges = 2
  MaxFaults = 0
SYMMETRY AccountSymmetry
INVARIANTS StateOnce RoleFollowsLink NoInheritance LinkedIsListed

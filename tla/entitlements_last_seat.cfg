CONSTANTS
  Requests = {p1, p2}
  NoRequest = NoRequest
  Users = {u1, u2}
  Keys = {k1}
  NoTarget = NoTarget
  UserLimit = 1
  BranchLimit = 1
  EntityLimit = 1
SPECIFICATION Spec
INVARIANTS MembersWithinLimit

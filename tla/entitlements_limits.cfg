CONSTANTS
  Requests = {p1, p2, p3}
  NoRequest = NoRequest
  Users = {u1, u2}
  Keys = {k1, k2, k3, k4}
  NoTarget = NoTarget
  UserLimit = 1
  BranchLimit = 1
  EntityLimit = 1
SPECIFICATION Spec
SYMMETRY Symmetry
INVARIANTS TypeOK EntityWithinLimits BranchesNearLimit EntitiesNearLimit

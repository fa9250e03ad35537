CONSTANTS
  Redeemers = {p1, p2}
  Issuers = {i1}
  Enders = {}
  Codes = {c1, c2}
  MaxSessions = 3
  MaxFamilies = 2
  MayCrash = TRUE
SPECIFICATION Spec
SYMMETRY Symmetry
INVARIANTS CodeStartsOneSession KinShareFamily
CHECK_DEADLOCK FALSE

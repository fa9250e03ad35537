CONSTANTS
  Redeemers = {p1}
  Issuers = {i1}
  Enders = {e1}
  Codes = {c1, c2}
  MaxSessions = 3
  MaxFamilies = 2
  MayCrash = FALSE
SPECIFICATION Spec
SYMMETRY Symmetry
INVARIANTS TypeOK SignOutTouchesKinOnly SignedOutForGood
CHECK_DEADLOCK FALSE

CONSTANTS
  Requests = {r1, r2, r3}
  Fields = {f}
  Values = {0, 1}
  Default = 0
  NoPatch = NoPatch
SPECIFICATION Spec
SYMMETRY Symmetry
INVARIANTS TypeOK EventsTellRecord
PROPERTY GoneStaysGone
CHECK_DEADLOCK FALSE

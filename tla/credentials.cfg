CONSTANTS
  Requests = {r1, r2}
  NoRow = NoRow
  NoCopy = NoCopy
  MaxPasswords = 3
SPECIFICATION Spec
SYMMETRY Symmetry
INVARIANTS TypeOK TemporaryMustChange CopyOpensAccount NoSessionByTemporary TemporaryHasCopy

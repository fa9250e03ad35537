CONSTANTS
  Emitters = {e1, e2}
  Occurrences = {o1}
  NoOccurrence = NoOccurrence
  Targets = {t1, t2}
  NoTarget = NoTarget
SPECIFICATION Spec
SYMMETRY Symmetry
INVARIANTS TypeOK OneRowPerKey RowsFollowCommit PromisedIsKept

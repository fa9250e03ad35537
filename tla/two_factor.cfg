CONSTANTS
  Requests = {r1, r2}
  NoRequest = NoRequest
  Places = {k1, k2}
  MaxFailures = 2
  MaxSecrets = 2
  MaxBatches = 2
  MaxStep = 2
SPECIFICATION Spec
SYMMETRY Symmetry
INVARIANTS TypeOK CodesAcceptedOnce OldCodesDie RefusalsBounded
PROPERTIES StepsAdvance

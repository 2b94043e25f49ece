\* One pair, a rotation and a decommission by two handlers, three stops and resumes; lost
\* exchanges overlap with their repeats.
SPECIFICATION Spec
CONSTANTS
  p1 = p1 p2 = p2 r1 = r1 r2 = r2 k1 = k1 h1 = h1 h2 = h2
  PairOps = {p1}
  RotOps = {r1}
  SpareKeys = {k1}
  Handlers = {h1, h2}
  MaxEpoch = 3
SYMMETRY Symmetry
\* The instance may really stop: operation ids are used once and a retired binding stays.
CHECK_DEADLOCK FALSE
INVARIANTS TypeOK CredentialContinuity DecommissionExact RetiredSourceIsEmpty
PROPERTIES RotationsAgree

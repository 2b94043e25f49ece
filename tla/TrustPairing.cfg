\* Two pairing operations and two handlers: commits, aborts and removals in every order.
SPECIFICATION Spec
CONSTANTS
  p1 = p1 p2 = p2 r1 = r1 r2 = r2 k1 = k1 h1 = h1 h2 = h2
  PairOps = {p1, p2}
  RotOps = {}
  SpareKeys = {k1}
  Handlers = {h1, h2}
  MaxEpoch = 2
SYMMETRY Symmetry
\* The instance may really stop: operation ids are used once and a retired binding stays.
CHECK_DEADLOCK FALSE
INVARIANTS NoOrphanKey NoSourceLeftBehind
PROPERTIES PairsAgree

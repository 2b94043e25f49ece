\* One binding moves between two connections; requests arrive late.
SPECIFICATION Spec
CONSTANTS
  b1 = b1 b2 = b2 c1 = c1 c2 = c2 u1 = u1 u2 = u2 w1 = w1 w2 = w2
  NoOne = NoOne
  Bindings = {b1}
  Connections = {c1, c2}
  Writers = {u1}
  Workers = {w1}
  MaxId = 2
  MaxKey = 1
  PageSize = 2
  PruneBatch = 2
  Types = {"hint"}
  Disruptions = {"revoke", "timeout"}
SYMMETRY Symmetry
\* The instance may really stop: the ids run out, and a binding whose hints were all
\* pruned before its first pairing can never be connected.
CHECK_DEADLOCK FALSE
INVARIANTS RetainedUntilApplied
PROPERTIES ImplementsFeed

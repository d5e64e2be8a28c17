SPECIFICATION Spec
CONSTANTS
  Handles = {h1, h2, h3}
  NumConns = 2
  MaxUses = 2
  MaxFlushes = 1
  Aging = TRUE
  Scenarios <- AllScenarios
SYMMETRY Symmetry
INVARIANTS TypeOK ExecutesKnownName PreparedOnce RefCountExact
PROPERTY QuietRefreshForgetsNames

SPECIFICATION Spec
CONSTANTS
  Migrators = {m1, m2}
  MaxRuns = 3
  Scenarios <- Sound
SYMMETRY Symmetry
INVARIANTS TypeOK HistoryMatchesSchema FaultlessNothingDoneTwice
PROPERTY RunCompletes

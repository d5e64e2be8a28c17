SPECIFICATION Spec
CONSTANTS
  Migrators = {m1}
  MaxRuns = 3
  Scenarios <- Faulty
INVARIANT NothingDoneTwice

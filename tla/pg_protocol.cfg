SPECIFICATION Spec
CONSTANTS
  Callers = {c1, c2}
  Nobody = Nobody
  Owners = {"slot", "transaction"}
  MaxCalls = 2
INVARIANTS TypeOK OwnAnswer ErrorMeansNoEffect
PROPERTIES OnlyTimeoutsAbandon CallEnds

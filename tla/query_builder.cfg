SPECIFICATION Spec
CONSTANTS
  Dialects = {"postgres", "sqlite"}
  Methods <- MCClauses
  Qualifying <- MCQualifying
  InWidths = {1, 2}
  RowLists <- MCRowLists
  SetLists <- MCSetLists
  MaxCalls = 2
  MaxSteps = 4
INVARIANTS TypeOK BoundWhereMeant EveryConditionApplied ValuesKept

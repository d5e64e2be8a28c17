SPECIFICATION Spec
CONSTANTS
  Dialects = {"postgres"}
  Methods <- MCClauses
  Qualifying <- MCQualifying
  InWidths = {1, 2}
  RowLists <- MCRowLists
  SetLists <- MCSetLists
  MaxCalls = 1
  MaxSteps = 2
INVARIANT DeletesOnlyWhatWasAsked

SPECIFICATION Spec
CONSTANTS
  None = None
  Internal <- MCInternal
  Documents <- MCDocuments
  Options <- MCOptions
INVARIANTS
  SourcedFactsHaveSources
CHECK_DEADLOCK FALSE

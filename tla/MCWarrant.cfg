SPECIFICATION Spec
CONSTANTS
  None = None
  Internal <- MCInternal
  Documents <- MCDocuments
  Options <- MCOptions
INVARIANTS
  TypeOK
  PassIsAccounted
  PassIsSourced
  CommentsMatchCensus
  UnlicensedIsVisible
  PassReadsPass
  ScoreAddsUp
CHECK_DEADLOCK FALSE

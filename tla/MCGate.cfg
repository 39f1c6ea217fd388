SPECIFICATION Spec
CONSTANTS
  FlowSets <- MCFlowSets
  None = None
  Reuse = "same"
  ZeekRuns = {TRUE, FALSE}
  TsharkRuns = {TRUE}
  MaxFlows = 2
INVARIANTS TypeOK PassIsEarned NoFalseAlarm ManifestVouches ManifestListsItsLogs

SPECIFICATION Spec
CONSTANTS
  FlowSets <- MCFlowSets
  None = None
  Reuse = "any"
  ZeekRuns = {TRUE}
  TsharkRuns = {TRUE}
  MaxFlows = 1
INVARIANT PassIsEarned

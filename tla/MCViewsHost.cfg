SPECIFICATION Spec
CONSTANTS
  Internal = {"h1", "h2"}
  LinkLocal = {"imds"}
  None = None
  Flows4 <- MCFlows4
  Flows6 <- MCFlows6
  Lens = {4}
  MaxPackets = 2
  Captures <- MCCaptures
  Sensors <- MCOrders
  FragSizes = {0, 12, 16}
INVARIANT HostSeesOnlyItsOwn
CHECK_DEADLOCK FALSE

SPECIFICATION Spec
CONSTANTS
  Internal = {"h1", "h2"}
  LinkLocal = {"imds"}
  None = None
  Flows4 <- MCFlows4
  Flows6 <- MCFlows6
  Lens = {4, 21}
  MaxPackets = 3
  Captures <- MCCaptures
  Sensors <- MCOrders
  FragSizes = {0, 12, 16}
INVARIANTS TypeOK ViewsArePure ConnectionsStayWhole Reassembles
CHECK_DEADLOCK FALSE

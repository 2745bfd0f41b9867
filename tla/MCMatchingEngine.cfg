SPECIFICATION Spec
CONSTANTS
  Base = 2
  OrderIds = {o1, o2, o3, o4}
  NoOrder = NoOrder
  NoRequest = NoRequest
  Prices <- MCPrices
  Requests <- MCKinds
SYMMETRY OrderSymmetry
INVARIANTS
  BookConsistent
  LevelsBacked
  VisibleUncrossed
  TradesAccountForFills
  TradesWithinLimits
  FOKCovered
PROPERTIES
  TimePriority
  ImplementsContract
\* With every order submitted and none left to cancel, the engine waits.
CHECK_DEADLOCK FALSE

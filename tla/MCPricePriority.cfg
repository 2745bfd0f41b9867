SPECIFICATION Spec
CONSTANTS
  Base = 2
  OrderIds = {o1, o2, o3, o4, o5}
  NoOrder = NoOrder
  NoRequest = NoRequest
  Prices <- MCPrices
  Requests <- MCUnits
SYMMETRY OrderSymmetry
PROPERTIES
  PricePriority
CHECK_DEADLOCK FALSE

SPECIFICATION Spec
CONSTANTS
  Adapters = {"evm", "tron"}
  Scale <- MCScale
  Transfers = {"a", "b"}
  TxOf <- OneEach
  Stated <- MCStated
  Brought <- MCBrought
  MaxInt = 63
  Confirmations = 2
  MaxReorg = 0
  NodeFails = FALSE
  MaxMisled = 0
  FirstHeight = 3
  StartHeight = 0
  MaxHeight = 5
INVARIANT OnlyArrivedCredited
CHECK_DEADLOCK FALSE

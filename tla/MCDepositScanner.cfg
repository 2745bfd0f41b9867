SPECIFICATION FairSpec
CONSTANTS
  Adapters = {"evm", "tron", "btc"}
  Scale <- MCScale
  Transfers = {"a", "b", "c"}
  TxOf <- TwoInOne
  Stated <- MCStated
  Brought <- MCBrought
  MaxInt = 63
  Confirmations = 2
  MaxReorg = 1
  NodeFails = TRUE
  MaxMisled = 1
  FirstHeight = 3
  StartHeight = 0
  MaxHeight = 5
INVARIANTS CreditedOnce CreditedWithinStated
PROPERTIES CreditedWhenConfirmed RoundReadsAll CatchesUp
CHECK_DEADLOCK FALSE

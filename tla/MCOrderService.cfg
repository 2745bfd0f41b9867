SPECIFICATION FairSpec
CONSTANTS
  OrderIds = {"o1", "o2", "o3"}
  Users = {"alice", "bob"}
  Owner <- SharedOwner
  Prices <- MCPrices
  Requests <- MCRequests
  NoOrder = NoOrder
  NoRequest = NoRequest
  BaseAsset = "BTC"
  QuoteAsset = "USDT"
  Assets = {"BTC", "USDT"}
  Deposits <- MCDeposits
  Concurrent = TRUE
  MayCancel = TRUE
  Base = 2
INVARIANTS
  SupplyExplained ChargedWithinFrozen ShortForCause SettlementFailsOnlyIfShort ReservesBackOrders
PROPERTY PlaceReturns
CHECK_DEADLOCK FALSE

SPECIFICATION Spec
CONSTANTS
  Users = {u1, u2}
  Assets = {btc, usdt}
  BaseAsset = btc
  QuoteAsset = usdt
  Amounts = {1, 2}
  TradePrices = {3, 4}
  TradeIds = {t1}
  NoTrade = NoTrade
  MaxEntries = 5
  Base = 2
SYMMETRY UserSymmetry
INVARIANTS Reconciles EntriesChain
CHECK_DEADLOCK FALSE

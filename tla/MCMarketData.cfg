SPECIFICATION MarketSpec
CONSTANTS
  Prices = {1, 2, 3}
  Quantities = {1, 2}
  Intervals = {1, 2}
  KeepTrades = 2
  KeepCandles = 2
  MaxInt = 10
  MaxClock = 3
  MaxTrades = 4
  MaxSetBacks = 1
INVARIANTS CandlesMatchTrades TickerMatchesTrades
CHECK_DEADLOCK FALSE

SPECIFICATION EntrySpec
CONSTANTS
  Base = 4
  MaxInt = 15
  MaxFilled = 12
  MinQty = 1
  MinNotional = 1
  Prices <- MCPrices
  Quantities <- MCQuantities
  Amounts <- MCAmounts
  Asked <- MCAsked
INVARIANTS
  FrozenCoversSpent
  MarketBudget
  AvgWithinFills
  NoWorseThanAsked
\* An order that is refused, or full, or whose budget buys nothing more, takes no step.
CHECK_DEADLOCK FALSE

--------------------------- MODULE MCOrderService ---------------------------
\* OrderService for small sets of orders, requests and users.
EXTENDS OrderService

Limit(side, tif, price, qty) ==
  [side |-> side, type |-> "LIMIT", tif |-> tif, price |-> price, qty |-> qty, quote |-> 0]

MarketBuy(quote) ==
  [side |-> "BUY", type |-> "MARKET", tif |-> "GTC", price |-> 0, qty |-> 0,
   quote |-> quote]

MCPrices == {3, 4}

\* Resting orders of both sides and sizes, a buy that may be filled below its
\* limit, an order that may expire and one that spends an amount.
MCRequests ==
  {Limit("BUY", "GTC", 3, 2), Limit("BUY", "GTC", 4, 1), Limit("SELL", "GTC", 3, 1),
   Limit("SELL", "GTC", 3, 2), Limit("SELL", "IOC", 3, 2), MarketBuy(3)}

\* Two sizes at one price.
TwoSizes ==
  {Limit(side, "GTC", 3, qty) : side \in {"BUY", "SELL"}, qty \in {1, 2}}

Funds(base, quote) == [u \in Users |-> [a \in Assets |->
  [available |-> IF a = BaseAsset THEN base ELSE quote, frozen |-> 0]]]

MCDeposits == Funds(2, 4)
Plenty == Funds(4, 6)

\* The first and last orders are placed by one user.
SharedOwner == [o \in OrderIds |-> IF o \in {"o1", "o3"} THEN "alice" ELSE "bob"]

\* One user places two orders and never meets them on the other side.
TwoSellers == [o \in OrderIds |-> IF o \in {"o1", "o2"} THEN "alice" ELSE "bob"]

\* Every order has a user of its own.
OwnOwner == [o \in OrderIds |-> o]
=============================================================================

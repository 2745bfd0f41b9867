------------------------------- MODULE Decimal -------------------------------
(***************************************************************************)
(* Fixed-point money arithmetic shared by the engine, the order service    *)
(* and the ledger.  Every amount is an integer number of smallest units;   *)
(* Base units make one coin.  All three conversions round towards zero.    *)
(*                                                                         *)
(* The int64 checks of the source are left out: the models stay far below  *)
(* 2^63, and the product is formed in a big.Int before it is divided.      *)
(***************************************************************************)
EXTENDS Integers

CONSTANT Base     \* units per coin: 100 000 000 in the code

ASSUME BaseAssumption == Base \in Nat \ {0}

\* Faulty variant: the cost is rounded up.
PriceQtyToQuoteUp(price, qty) ==
  IF price <= 0 \/ qty <= 0 THEN 0 ELSE (price * qty + Base - 1) \div Base

\* What a quantity of base units costs at a price, rounded down.
PriceQtyToQuote(price, qty) ==
  IF price <= 0 \/ qty <= 0 THEN 0 ELSE (price * qty) \div Base

\* How much base an amount of quote buys at a price, rounded down.
QuoteToQty(quote, price) ==
  IF price <= 0 THEN 0 ELSE (quote * Base) \div price

\* Faulty variant: the two prices are averaged without their quantities.
UnweightedAvg(curAvg, curQty, price, addQty) == (curAvg + price) \div 2

\* The running average price of an order after one more fill.
WeightedAvg(curAvg, curQty, price, addQty) ==
  IF curQty + addQty <= 0
  THEN 0
  ELSE (curAvg * curQty + price * addQty) \div (curQty + addQty)
==============================================================================

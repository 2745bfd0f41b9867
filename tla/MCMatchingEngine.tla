-------------------------- MODULE MCMatchingEngine --------------------------
(***************************************************************************)
(* MatchingEngine for TLC: requests of every kind that cross, queue up and *)
(* leave remainders, at two prices.                                        *)
(***************************************************************************)
EXTENDS MatchingEngine

Limit(s, t, p, q) ==
  [side |-> s, type |-> "LIMIT", tif |-> t, price |-> p, qty |-> q, quote |-> 0]
MarketBuy(a) ==
  [side |-> "BUY", type |-> "MARKET", tif |-> "GTC", price |-> 0, qty |-> 0, quote |-> a]
MarketSell(q) ==
  [side |-> "SELL", type |-> "MARKET", tif |-> "GTC", price |-> 0, qty |-> q, quote |-> 0]

MCPrices == {3, 4}

MCKinds ==
  {Limit(s, "GTC", p, q) : s \in Sides, p \in MCPrices, q \in {1, 3}}
  \cup {Limit("BUY", "IOC", 4, 2), Limit("SELL", "FOK", 3, 3), Limit("BUY", "FOK", 4, 2),
        MarketBuy(3), MarketSell(2)}

\* Orders of one size that rest, and one that takes more than one of them
\* offers and leaves nothing behind.
MCUnits == {Limit(s, "GTC", p, 1) : s \in Sides, p \in MCPrices} \cup {Limit("BUY", "IOC", 4, 2)}

OrderSymmetry == Permutations(OrderIds)
==============================================================================

------------------------------ MODULE OrderEntry ------------------------------
(***************************************************************************)
(* How a request becomes an order (buildOrder and freeze of the order      *)
(* service), and what the order then does with its funds.  A request names *)
(* its numbers in decimal; FromString makes big integers of them, and the  *)
(* order keeps their low 64 bits.  A buy goes on as in OrderFunding.  A    *)
(* request that is refused leaves no order.                                *)
(***************************************************************************)
EXTENDS OrderFunding, Int64

CONSTANTS
  Asked,        \* numbers a request may name, in units
  MinQty,       \* MinQtyUnits of the pair
  MinNotional   \* MinNotionalUnits of the pair

ASSUME EntryAssumption == Asked \subseteq Int /\ {MinQty, MinNotional} \subseteq Nat

VARIABLE asked   \* the request
entryVars == <<vars, asked>>

Requests ==
  [side: {"BUY", "SELL"}, type: {"LIMIT"}, price: Asked, qty: Asked]
  \cup [side: {"BUY"}, type: {"MARKET"}, amount: Asked]
  \cup [side: {"SELL"}, type: {"MARKET"}, qty: Asked]

EntryInit ==
  /\ asked \in Requests
  /\ type = "NONE"
  /\ price = 0 /\ frozen = 0 /\ remaining = 0 /\ remQuote = 0
  /\ filled = 0 /\ spent = 0 /\ avg = 0 /\ paid = {}

------------------------------------------------------------------------------
\* The request, and that the numbers in it are tested before they are cut.
IsAsked(side, kind) == type = "NONE" /\ asked.side = side /\ asked.type = kind

Qty == ToInt64(asked.qty)
QtyAllowed == asked.qty > 0 /\ Qty >= MinQty

\* The order is there, with q frozen for it; a Freeze of nothing is refused.
Placed(t, p, q) ==
  /\ q > 0
  /\ type' = t /\ price' = p /\ frozen' = q
  /\ UNCHANGED <<asked, filled, spent, avg, paid>>

EnterLimitBuy ==
  /\ IsAsked("BUY", "LIMIT") /\ asked.price > 0 /\ QtyAllowed
  /\ LET p == ToInt64(asked.price)
         q == PriceQtyToQuote(p, Qty)
     IN  IsInt64(q) /\ Placed("LIMIT", p, q)
  /\ remaining' = Qty /\ UNCHANGED remQuote

EnterMarketBuy ==
  /\ IsAsked("BUY", "MARKET") /\ asked.amount > 0
  /\ ToInt64(asked.amount) >= MinNotional
  /\ Placed("MARKET", 0, ToInt64(asked.amount))
  /\ remQuote' = frozen' /\ UNCHANGED remaining

\* A sell order reserves its quantity, and asks for a price or, at the market,
\* for none.
EnterSell ==
  /\ \/ IsAsked("SELL", "MARKET") /\ QtyAllowed /\ Placed("SELL", 0, Qty)
     \/ /\ IsAsked("SELL", "LIMIT") /\ asked.price > 0 /\ QtyAllowed
        /\ Placed("SELL", ToInt64(asked.price), Qty)
  /\ remaining' = Qty /\ UNCHANGED remQuote

Enter == EnterLimitBuy \/ EnterMarketBuy \/ EnterSell

------------------------------------------------------------------------------
\* Faulty variant: the price is not looked at.
FillSellAnywhere(p) ==
  /\ type = "SELL"
  /\ \E qty \in 1 .. remaining :
       /\ avg' = WeightedAvg(avg, filled, p, qty)
       /\ filled' = filled + qty /\ remaining' = remaining - qty
       /\ spent' = spent + qty
  /\ paid' = paid \cup {p}
  /\ UNCHANGED <<type, price, frozen, remQuote>>

\* A sell order fills at its price or better, and its settlement takes base.
FillSell(p) ==
  /\ type = "SELL" /\ p >= price
  /\ \E qty \in 1 .. remaining :
       /\ avg' = WeightedAvg(avg, filled, p, qty)
       /\ filled' = filled + qty /\ remaining' = remaining - qty
       /\ spent' = spent + qty
  /\ paid' = paid \cup {p}
  /\ UNCHANGED <<type, price, frozen, remQuote>>

\* Prices are those of the book, or the order's own when it waits there.
Fill == Next \/ \E p \in Prices \cup ({price} \ {0}) : FillSell(p)

EntryNext == Enter \/ (Fill /\ UNCHANGED asked)

EntrySpec == EntryInit /\ [][EntryNext]_entryVars

------------------------------------------------------------------------------
(***************************************************************************)
(* Properties                                                              *)
(***************************************************************************)

\* The order never does worse than its request, as it was written: it buys or
\* sells no more, pays no more, and a buy pays no higher price, even if a number
\* was cut to 64 bits on the way, which makes a positive one smaller.  A sell
\* gets no lower price, if the price it asked for was not cut.
NoWorseThanAsked ==
  /\ type \in {"LIMIT", "SELL"} => filled <= asked.qty
  /\ type = "MARKET" => spent <= asked.amount
  /\ type = "LIMIT" => \A p \in paid : p <= asked.price
  /\ asked.side = "SELL" /\ asked.type = "LIMIT" /\ IsInt64(asked.price)
       => \A p \in paid : p >= asked.price

------------------------------------------------------------------------------
(***************************************************************************)
(* A statement of the repository that the code does not keep (see README). *)
(***************************************************************************)

\* A limit order trades at the price of its request, or at a better one.
LimitPriceKept ==
  asked.type = "LIMIT" =>
    \A p \in paid : IF asked.side = "BUY" THEN p <= asked.price ELSE p >= asked.price
===============================================================================

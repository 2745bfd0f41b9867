---------------------------- MODULE OrderFunding ----------------------------
(***************************************************************************)
(* The money side of one buy order, seen alone: what the order service     *)
(* freezes for it before it reaches the engine, and what every fill of it  *)
(* takes out of that reservation when the fill is settled.  The            *)
(* counterparty, the book and the ledger are abstracted away: a fill may   *)
(* arrive at any price the engine can give the order and for any quantity  *)
(* the engine can compute.  The question is purely arithmetical: every     *)
(* conversion rounds down, the reservation once for the whole order, the   *)
(* cost once per fill, so do the fills fit in the reservation?             *)
(***************************************************************************)
EXTENDS Decimal

CONSTANTS Prices,      \* prices the book can quote, in units
          Quantities,  \* quantities a limit order can ask for
          Amounts,     \* quote amounts a market buy can offer
          MaxFilled    \* bound: a fill too small to cost one unit is free, so
                       \* a market buy's fills are not bounded by its budget

ASSUME FundingAssumption ==
  /\ Prices \subseteq Nat \ {0}
  /\ Quantities \subseteq Nat \ {0}
  /\ Amounts \subseteq Nat \ {0}
  /\ MaxFilled \in Nat

VARIABLES
  type,         \* "LIMIT" or "MARKET"
  price,        \* limit price; 0 for a market order
  frozen,       \* FrozenUnits: quote reserved when the order was placed
  remaining,    \* RemainingUnits of a limit order
  remQuote,     \* RemainingQuoteUnits of a market buy
  filled,       \* FilledQtyUnits
  spent,        \* SpentUnits: quote the settled fills have taken
  avg,          \* AvgPriceUnits
  paid          \* the prices of the fills so far

vars == <<type, price, frozen, remaining, remQuote, filled, spent, avg, paid>>

\* Freeze: price * quantity for a limit buy, the whole amount for a market buy.
InitLimit ==
  /\ type = "LIMIT"
  /\ price \in Prices
  /\ remaining \in Quantities
  /\ remQuote = 0
  /\ frozen = PriceQtyToQuote(price, remaining)

InitMarket ==
  /\ type = "MARKET"
  /\ price = 0
  /\ remaining = 0
  /\ remQuote \in Amounts
  /\ frozen = remQuote

Init ==
  /\ InitLimit \/ InitMarket
  /\ filled = 0 /\ spent = 0 /\ avg = 0 /\ paid = {}

\* One fill of qty at p: the engine's statistics and the settled cost.
Book(p, qty) ==
  /\ avg' = WeightedAvg(avg, filled, p, qty)
  /\ filled' = filled + qty
  /\ remaining' = remaining - qty
  /\ spent' = spent + PriceQtyToQuote(p, qty)
  /\ paid' = paid \cup {p}
  /\ UNCHANGED <<type, price, frozen>>

\* A limit buy fills at its price or better, up to what remains of it.
FillLimit(p) ==
  /\ type = "LIMIT"
  /\ p <= price
  /\ \E qty \in 1 .. remaining : Book(p, qty)
  /\ UNCHANGED remQuote

\* Faulty variant: the quantity is rounded up.
FillMarketRoundedUp(p) ==
  /\ type = "MARKET"
  /\ remQuote > 0
  /\ filled < MaxFilled
  /\ \E qty \in 1 .. QuoteToQty(remQuote, p) + 1 :
       /\ Book(p, qty)
       /\ remQuote' = remQuote - PriceQtyToQuote(p, qty)

\* A market buy fills up to what its remaining quote buys at the price.
FillMarket(p) ==
  /\ type = "MARKET"
  /\ remQuote > 0
  /\ filled < MaxFilled
  /\ \E qty \in 1 .. QuoteToQty(remQuote, p) :
       /\ Book(p, qty)
       /\ remQuote' = remQuote - PriceQtyToQuote(p, qty)

Next == \E p \in Prices : FillLimit(p) \/ FillMarket(p)

Spec == Init /\ [][Next]_vars

------------------------------------------------------------------------------
\* Types of the variables.
TypeOK ==
  /\ type \in {"LIMIT", "MARKET"}
  /\ price \in Prices \cup {0}
  /\ frozen \in Nat
  /\ remaining \in Int
  /\ remQuote \in Int
  /\ filled \in Nat
  /\ spent \in Nat
  /\ avg \in Nat
  /\ paid \subseteq Prices

\* The fills of a buy order never cost more than was frozen for it, however
\* they are cut into pieces: the promise behind the remark in PlaceOrder that
\* a settlement cannot fail because the reservation covers it.
FrozenCoversSpent == spent <= frozen

\* What is still reserved pays for the rest of a limit buy at its limit, so
\* a partly filled order can stay on the book on the reservation it has left.
FrozenCoversRest ==
  type = "LIMIT" => spent + PriceQtyToQuote(price, remaining) <= frozen

\* A market buy never overdraws its quote budget: the guard in consumeLevel
\* that abandons a half-booked fill when spent > RemainingQuoteUnits is dead.
MarketBudget ==
  type = "MARKET" => remQuote >= 0 /\ remQuote + spent = frozen

\* The rounded running average stays between the cheapest and the dearest
\* fill, however often it has been rounded.
AvgWithinFills ==
  filled > 0 => \E lo, hi \in paid : lo <= avg /\ avg <= hi
==============================================================================

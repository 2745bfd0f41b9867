--------------------------- MODULE TradingContract ---------------------------
(***************************************************************************)
(* What the matching engine promises to whoever submits an order, without  *)
(* a book: which trades an order may take part in, how far it can be       *)
(* filled, and how it may end.  Which of the possible trades happen, and   *)
(* in which order, is left open; price and time priority are stated of the *)
(* engine itself.                                                          *)
(***************************************************************************)
EXTENDS Decimal, Sequences

CONSTANTS OrderIds, Prices, Requests, NoRequest

VARIABLES
  req,      \* what each order asked for
  phase,    \* "NONE", "OPEN" or how the order ended
  filled,   \* base quantity it has traded
  budget,   \* quote a market buy may still spend
  trades    \* all trades so far

vars == <<req, phase, filled, budget, trades>>

Init ==
  /\ req = [o \in OrderIds |-> NoRequest]
  /\ phase = [o \in OrderIds |-> "NONE"]
  /\ filled = [o \in OrderIds |-> 0]
  /\ budget = [o \in OrderIds |-> 0]
  /\ trades = <<>>

IsMarket(o) == req[o].type = "MARKET"
IsMarketBuy(o) == IsMarket(o) /\ req[o].side = "BUY"

\* o may trade at price p.
Accepts(o, p) ==
  \/ IsMarket(o)
  \/ req[o].side = "BUY" /\ p <= req[o].price
  \/ req[o].side = "SELL" /\ p >= req[o].price

\* o may trade q more at price p.
HasRoom(o, p, q) ==
  IF IsMarketBuy(o)
  THEN PriceQtyToQuote(p, q) <= budget[o]
  ELSE filled[o] + q <= req[o].qty

\* An order comes in and is open, or is a FOK order and turned away.
Take(o, r) ==
  /\ phase[o] = "NONE"
  /\ req' = [req EXCEPT ![o] = r]
  /\ budget' = [budget EXCEPT ![o] = r.quote]
  /\ \/ phase' = [phase EXCEPT ![o] = "OPEN"]
     \/ r.tif = "FOK" /\ phase' = [phase EXCEPT ![o] = "REJECTED"]
  /\ UNCHANGED <<filled, trades>>

\* Two open orders of opposite sides trade at the limit price of the one that
\* was there first, which ends if the trade fills it.
Exchange(maker, tkr, q) ==
  LET p == req[maker].price IN
  /\ phase[maker] = "OPEN" /\ phase[tkr] = "OPEN"
  /\ req[maker].side # req[tkr].side
  /\ ~IsMarket(maker)
  /\ Accepts(tkr, p)
  /\ q > 0
  /\ HasRoom(maker, p, q) /\ HasRoom(tkr, p, q)
  /\ filled' = [filled EXCEPT ![maker] = @ + q, ![tkr] = @ + q]
  /\ budget' = IF IsMarketBuy(tkr)
               THEN [budget EXCEPT ![tkr] = @ - PriceQtyToQuote(p, q)]
               ELSE budget
  /\ phase' = IF filled'[maker] = req[maker].qty
              THEN [phase EXCEPT ![maker] = "FILLED"]
              ELSE phase
  /\ trades' = Append(trades, [maker |-> maker, taker |-> tkr, price |-> p, qty |-> q])
  /\ UNCHANGED req

\* How an open order may end otherwise.
MayEnd(o, final) ==
  \/ final = "FILLED" /\ IF IsMarket(o) THEN filled[o] > 0 ELSE filled[o] = req[o].qty
  \/ final = "REJECTED" /\ IsMarket(o) /\ filled[o] = 0
  \/ final = "EXPIRED" /\ req[o].tif = "IOC" /\ filled[o] < req[o].qty
  \/ final = "CANCELED" /\ ~IsMarket(o) /\ filled[o] < req[o].qty

Close(o, final) ==
  /\ phase[o] = "OPEN"
  /\ MayEnd(o, final)
  /\ phase' = [phase EXCEPT ![o] = final]
  /\ UNCHANGED <<req, filled, budget, trades>>

Next ==
  \/ \E o \in OrderIds, r \in Requests : Take(o, r)
  \/ \E m, t \in OrderIds : Exchange(m, t, filled'[m] - filled[m])
  \/ \E o \in OrderIds, final \in {"FILLED", "REJECTED", "EXPIRED", "CANCELED"} :
       Close(o, final)

Spec == Init /\ [][Next]_vars
==============================================================================

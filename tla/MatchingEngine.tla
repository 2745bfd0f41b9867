--------------------------- MODULE MatchingEngine ---------------------------
(***************************************************************************)
(* The matching engine of one trading pair (internal/engine).              *)
(*                                                                         *)
(* The engine is a single goroutine that runs one closure after another.   *)
(* Cancel is one step here.  Submit is cut at every fill, because a fill   *)
(* is what the rest of the system sees (listeners are called, and the      *)
(* order objects it writes are shared with other goroutines):  Submit ...  *)
(* makes the order the taker, Fill is one round of consumeLevel's loop,    *)
(* and a Finish action settles its final status.  While there is a taker   *)
(* no other closure runs.                                                  *)
(*                                                                         *)
(* A price level is a slot <<side, price>> with its queue and total.       *)
(* "mapped" are the slots the levels map holds, "heap" those among them    *)
(* whose level object is also in the heap.  A level object that has left   *)
(* the map may linger in the heap; it is empty or no longer valid and      *)
(* best() only ever discards it, so it has no counterpart here.            *)
(***************************************************************************)
EXTENDS Decimal, SequencesExt

CONSTANTS
  OrderIds,    \* the orders that may ever be submitted
  Prices,      \* limit prices in units
  Requests,    \* what a client can ask for (see RequestTypes)
  NoOrder,     \* "there is no taker"
  NoRequest    \* the request of an order not submitted yet

Sides == {"BUY", "SELL"}
Slots == Sides \X Prices

\* The orders buildOrder lets through.
LimitRequests ==
  [side: Sides, type: {"LIMIT"}, tif: {"GTC", "IOC", "FOK"}, price: Prices,
   qty: Nat \ {0}, quote: {0}]
MarketBuyRequests ==
  [side: {"BUY"}, type: {"MARKET"}, tif: {"GTC"}, price: {0},
   qty: {0}, quote: Nat \ {0}]
MarketSellRequests ==
  [side: {"SELL"}, type: {"MARKET"}, tif: {"GTC"}, price: {0},
   qty: Nat \ {0}, quote: {0}]
RequestTypes == LimitRequests \cup MarketBuyRequests \cup MarketSellRequests

ASSUME EngineAssumption ==
  /\ Prices \subseteq Nat \ {0}
  /\ Requests \subseteq RequestTypes
  /\ NoOrder \notin OrderIds
  /\ NoRequest \notin Requests

VARIABLES
  \* The order objects, field by field.
  req,        \* what was asked: Side, Type, TimeInForce, PriceUnits, ...
  status,     \* Status; "NONE" before the order is submitted
  rem,        \* RemainingUnits
  remQuote,   \* RemainingQuoteUnits
  filled,     \* FilledQtyUnits
  avg,        \* AvgPriceUnits
  \* The engine.
  queue,      \* slot -> its orders, oldest first
  total,      \* slot -> totalQty
  mapped,     \* the slots in orderBook.levels
  heap,       \* the slots whose mapped level is also in orderBook.hp
  active,     \* Engine.active
  taker,      \* the order being submitted, or NoOrder
  trades,     \* every trade emitted; Engine.seq is its length
  \* History, for stating priority.
  clock,      \* how many orders were submitted
  arrival     \* order -> its place among them, 0 if it was not submitted

orderVars == <<req, status, rem, remQuote, filled, avg>>
bookVars  == <<queue, total, mapped, heap, active>>
vars == <<orderVars, bookVars, taker, trades, clock, arrival>>

Trade == [maker: OrderIds, taker: OrderIds, price: Prices, qty: Nat \ {0}]

Init ==
  /\ req = [o \in OrderIds |-> NoRequest]
  /\ status = [o \in OrderIds |-> "NONE"]
  /\ rem = [o \in OrderIds |-> 0]
  /\ remQuote = [o \in OrderIds |-> 0]
  /\ filled = [o \in OrderIds |-> 0]
  /\ avg = [o \in OrderIds |-> 0]
  /\ queue = [s \in Slots |-> <<>>]
  /\ total = [s \in Slots |-> 0]
  /\ mapped = {}
  /\ heap = {}
  /\ active = {}
  /\ taker = NoOrder
  /\ trades = <<>>
  /\ clock = 0
  /\ arrival = [o \in OrderIds |-> 0]

------------------------------------------------------------------------------
\* The book as best() and the levels map see it.

Opposite(side) == IF side = "BUY" THEN "SELL" ELSE "BUY"

\* On the book of a side, p comes before q in the heap.
Better(side, p, q) == IF side = "BUY" THEN p > q ELSE p < q

SlotOf(o) == <<req[o].side, req[o].price>>

\* Faulty variant: a level at the taker's own limit is left alone.
CrossesStrictly(r, p) ==
  \/ r.type = "MARKET"
  \/ r.side = "BUY" /\ p < r.price
  \/ r.side = "SELL" /\ p > r.price

\* A request of this kind trades against a level at price p.
Crosses(r, p) ==
  \/ r.type = "MARKET"
  \/ r.side = "BUY" /\ p <= r.price
  \/ r.side = "SELL" /\ p >= r.price

\* The prices on a side that best() can still find.
Visible(side) == {p \in Prices : <<side, p>> \in heap /\ total[side, p] # 0}

\* What best() returns: the best visible price (no element: nil) ...
Best(side) ==
  {p \in Visible(side) : \A q \in Visible(side) \ {p} : Better(side, p, q)}

\* ... and the emptied levels it pops on the way.
Popped(side) ==
  {s \in heap : /\ s[1] = side
                /\ total[s] = 0
                /\ \A q \in Visible(side) : Better(side, s[2], q)}

\* Faulty variant: some quantity within the limit is enough.
CanPartlyFill(r) ==
  \E p \in Prices : /\ <<Opposite(r.side), p>> \in mapped
                   /\ total[Opposite(r.side), p] > 0
                   /\ Crosses(r, p)

\* canFullyFill looks at the map, not at the heap.
CanFullyFill(r) ==
  LET side == Opposite(r.side)
      within == {p \in Prices : /\ <<side, p>> \in mapped
                                /\ total[side, p] > 0
                                /\ Crosses(r, p)}
  IN  SumFunctionOnSet([p \in within |-> total[side, p]], within) >= r.qty

------------------------------------------------------------------------------
\* Matching one taker.

IsMarketBuy(o) == req[o].type = "MARKET" /\ req[o].side = "BUY"

Exhausted(o) == IF IsMarketBuy(o) THEN remQuote[o] <= 0 ELSE rem[o] <= 0

\* Faulty variant: the maker's remaining quantity is no limit.
FillQtyUncapped(t, m, p) ==
  IF IsMarketBuy(t) THEN QuoteToQty(remQuote[t], p) ELSE rem[t]

\* Faulty variant: a market buy gets one unit more than it can pay.
FillQtyUnpaid(t, m, p) ==
  LET wanted == IF IsMarketBuy(t) THEN QuoteToQty(remQuote[t], p) + 1 ELSE rem[t]
  IN  IF wanted > rem[m] THEN rem[m] ELSE wanted

\* The quantity the taker t trades with the maker m at price p.
FillQty(t, m, p) ==
  LET wanted == IF IsMarketBuy(t) THEN QuoteToQty(remQuote[t], p) ELSE rem[t]
  IN  IF wanted > rem[m] THEN rem[m] ELSE wanted

\* The level the taker t trades with next, if there is one.
Matchable(t) ==
  {p \in Best(Opposite(req[t].side)) :
     /\ ~Exhausted(t)
     /\ Crosses(req[t], p)
     /\ FillQty(t, Head(queue[Opposite(req[t].side), p]), p) > 0}

\* match() reaches best() only if the taker is not exhausted.
HeapAfterMatch(t) ==
  IF Exhausted(t) THEN heap ELSE heap \ Popped(Opposite(req[t].side))

\* A new order reaches the engine.  A FOK order that the levels cannot fill
\* is rejected at once; any other becomes the taker.  Order numbers come from
\* a counter, so the test for a duplicate of an active order never succeeds.
Arrive(o, r) ==
  /\ taker = NoOrder
  /\ status[o] = "NONE"
  /\ req' = [req EXCEPT ![o] = r]
  /\ rem' = [rem EXCEPT ![o] = r.qty]
  /\ remQuote' = [remQuote EXCEPT ![o] = r.quote]
  /\ clock' = clock + 1
  /\ arrival' = [arrival EXCEPT ![o] = clock']
  /\ UNCHANGED <<filled, avg, bookVars, trades>>

SubmitAccepted(o, r) ==
  /\ r.tif = "FOK" => CanFullyFill(r)
  /\ Arrive(o, r)
  /\ status' = [status EXCEPT ![o] = "NEW"]
  /\ taker' = o

SubmitRejected(o, r) ==
  /\ r.tif = "FOK" /\ ~CanFullyFill(r)
  /\ Arrive(o, r)
  /\ status' = [status EXCEPT ![o] = "REJECTED"]
  /\ UNCHANGED taker

\* One fill: the taker trades with the oldest order of the best level.
\* The code gives a fill up half way when it costs more than the taker's
\* remaining quote; OrderFundingProofs!BudgetSafe shows that cannot happen.
Fill ==
  /\ taker # NoOrder
  /\ \E p \in Matchable(taker) :
       LET s    == <<Opposite(req[taker].side), p>>
           m    == Head(queue[s])
           qty  == FillQty(taker, m, p)
           done == rem[m] = qty
       IN
       /\ avg' = [avg EXCEPT
            ![taker] = WeightedAvg(@, filled[taker], p, qty),
            ![m] = WeightedAvg(@, filled[m], p, qty)]
       /\ rem' = [rem EXCEPT ![taker] = @ - qty, ![m] = @ - qty]
       /\ filled' = [filled EXCEPT ![taker] = @ + qty, ![m] = @ + qty]
       /\ remQuote' = IF IsMarketBuy(taker)
                      THEN [remQuote EXCEPT ![taker] = @ - PriceQtyToQuote(p, qty)]
                      ELSE remQuote
       /\ total' = [total EXCEPT ![s] = @ - qty]
       /\ status' = [status EXCEPT
            ![m] = IF done THEN "FILLED" ELSE "PARTIALLY_FILLED"]
       /\ queue' = IF done THEN [queue EXCEPT ![s] = Tail(@)] ELSE queue
       /\ active' = IF done THEN active \ {m} ELSE active
       /\ trades' = Append(trades,
            [maker |-> m, taker |-> taker, price |-> p, qty |-> qty])
  /\ heap' = HeapAfterMatch(taker)
  /\ UNCHANGED <<req, mapped, taker, clock, arrival>>

\* What every end of a submission has in common.
Finish(final) ==
  /\ taker # NoOrder
  /\ Matchable(taker) = {}
  /\ status' = [status EXCEPT ![taker] = final]
  /\ taker' = NoOrder
  /\ UNCHANGED <<req, rem, remQuote, filled, avg, trades, clock, arrival>>

DropTaker ==
  /\ heap' = HeapAfterMatch(taker)
  /\ UNCHANGED <<queue, total, mapped, active>>

\* Faulty variants: the level's total grows by the whole order; the order goes
\* to the front of the queue.
RestWhole ==
  LET s == SlotOf(taker) IN
  /\ queue' = [queue EXCEPT ![s] = Append(@, taker)]
  /\ total' = [total EXCEPT ![s] = @ + req[taker].qty]
  /\ mapped' = mapped \cup {s}
  /\ heap' = HeapAfterMatch(taker) \cup ({s} \ mapped)
  /\ active' = active \cup {taker}

RestInFront ==
  LET s == SlotOf(taker) IN
  /\ queue' = [queue EXCEPT ![s] = <<taker>> \o @]
  /\ total' = [total EXCEPT ![s] = @ + rem[taker]]
  /\ mapped' = mapped \cup {s}
  /\ heap' = HeapAfterMatch(taker) \cup ({s} \ mapped)
  /\ active' = active \cup {taker}

\* orderBook.add: a new level goes into the map and the heap, a known one
\* only gets the order.
Rest ==
  LET s == SlotOf(taker) IN
  /\ queue' = [queue EXCEPT ![s] = Append(@, taker)]
  /\ total' = [total EXCEPT ![s] = @ + rem[taker]]
  /\ mapped' = mapped \cup {s}
  /\ heap' = HeapAfterMatch(taker) \cup ({s} \ mapped)
  /\ active' = active \cup {taker}

\* Faulty variant: a market order goes on until it has got everything.
FinishMarketExhausted ==
  /\ Finish(IF filled[taker] = 0 THEN "REJECTED" ELSE "FILLED")
  /\ req[taker].type = "MARKET" /\ Exhausted(taker)
  /\ DropTaker

FinishMarket ==
  /\ Finish(IF filled[taker] = 0 THEN "REJECTED" ELSE "FILLED")
  /\ req[taker].type = "MARKET"
  /\ DropTaker

FinishFilled ==
  /\ Finish("FILLED")
  /\ req[taker].type = "LIMIT" /\ rem[taker] = 0
  /\ DropTaker

\* Faulty variant: any order may expire.
FinishExpiredAny ==
  /\ Finish("EXPIRED")
  /\ req[taker].type = "LIMIT" /\ rem[taker] # 0
  /\ DropTaker

FinishExpired ==
  /\ Finish("EXPIRED")
  /\ req[taker].type = "LIMIT" /\ rem[taker] # 0 /\ req[taker].tif = "IOC"
  /\ DropTaker

\* Faulty variant: an IOC order may rest.
FinishRestingAny ==
  /\ Finish(IF filled[taker] > 0 THEN "PARTIALLY_FILLED" ELSE "NEW")
  /\ req[taker].type = "LIMIT" /\ rem[taker] # 0
  /\ Rest

FinishResting ==
  /\ Finish(IF filled[taker] > 0 THEN "PARTIALLY_FILLED" ELSE "NEW")
  /\ req[taker].type = "LIMIT" /\ rem[taker] # 0 /\ req[taker].tif # "IOC"
  /\ Rest

\* Cancel: the order leaves its level; an empty level leaves the map, and a
\* level that has left the map is no longer reachable through the heap.
Cancel(o) ==
  LET s    == SlotOf(o)
      gone == total[s] - rem[o] <= 0 \/ Len(queue[s]) = 1
  IN
  /\ taker = NoOrder
  /\ o \in active
  /\ \E i \in DOMAIN queue[s] :
       /\ queue[s][i] = o
       /\ queue' = [queue EXCEPT ![s] = IF gone THEN <<>> ELSE RemoveAt(@, i)]
  /\ total' = [total EXCEPT ![s] = IF gone THEN 0 ELSE @ - rem[o]]
  /\ mapped' = IF gone THEN mapped \ {s} ELSE mapped
  /\ heap' = IF gone THEN heap \ {s} ELSE heap
  /\ active' = active \ {o}
  /\ status' = [status EXCEPT ![o] = "CANCELED"]
  /\ UNCHANGED <<req, rem, remQuote, filled, avg, taker, trades, clock, arrival>>

------------------------------------------------------------------------------
Submit ==
  \E o \in OrderIds, r \in Requests : SubmitAccepted(o, r) \/ SubmitRejected(o, r)

\* The event loop works on the closure it has taken up.
Work == Fill \/ FinishMarket \/ FinishFilled \/ FinishExpired \/ FinishResting

Next == Submit \/ Work \/ \E o \in OrderIds : Cancel(o)

Spec == Init /\ [][Next]_vars

------------------------------------------------------------------------------
(***************************************************************************)
(* Properties                                                              *)
(***************************************************************************)

\* Types of the variables.
TypeOK ==
  /\ req \in [OrderIds -> Requests \cup {NoRequest}]
  /\ status \in [OrderIds -> {"NONE", "NEW", "PARTIALLY_FILLED", "FILLED",
                              "CANCELED", "REJECTED", "EXPIRED"}]
  /\ rem \in [OrderIds -> Int]
  /\ remQuote \in [OrderIds -> Int]
  /\ filled \in [OrderIds -> Nat]
  /\ avg \in [OrderIds -> Nat]
  /\ queue \in [Slots -> Seq(OrderIds)]
  /\ total \in [Slots -> Int]
  /\ heap \subseteq mapped
  /\ mapped \subseteq Slots
  /\ active \subseteq OrderIds
  /\ taker \in OrderIds \cup {NoOrder}
  /\ trades \in Seq(Trade)
  /\ clock \in Nat
  /\ arrival \in [OrderIds -> Nat]

Open == {"NEW", "PARTIALLY_FILLED"}

\* Engine.active and the queues describe the same set of resting orders: an
\* order stands once, in the queue of its own side and price, exactly while
\* it is active, and then it is a limit order that is open and not used up.
\* Cancel finds its order through active and then searches the queue, fills
\* pop the queue and then delete from active; neither may miss the other.
BookConsistent ==
  /\ \A s \in Slots : \A i, j \in DOMAIN queue[s] : queue[s][i] = queue[s][j] => i = j
  /\ \A s \in Slots : \A i \in DOMAIN queue[s] :
       queue[s][i] \in active /\ s = SlotOf(queue[s][i])
  /\ \A o \in active :
       /\ \E i \in DOMAIN queue[SlotOf(o)] : queue[SlotOf(o)][i] = o
       /\ o # taker
       /\ req[o] \in LimitRequests /\ req[o].tif # "IOC"
       /\ status[o] \in Open
       /\ rem[o] > 0
       /\ rem[o] + filled[o] = req[o].qty
       /\ status[o] = "NEW" => filled[o] = 0

\* totalQty is the remaining quantity of the level's orders.  consumeLevel
\* indexes orders[0] whenever totalQty > 0, so a level whose total ran ahead
\* of its queue would stop the event loop for good.
LevelTotals ==
  \A s \in Slots :
    total[s] = SumFunctionOnSet([i \in DOMAIN queue[s] |-> rem[queue[s][i]]], DOMAIN queue[s])

\* Between submissions no bid that best() can find reaches an ask that best()
\* can find: match() never stops while it could go on.
VisibleUncrossed ==
  taker = NoOrder =>
    \A bid \in Visible("BUY"), ask \in Visible("SELL") : bid < ask

\* The trades an order took part in, and what they exchanged and cost.
OwnTrades(o) == {i \in DOMAIN trades : o \in {trades[i].maker, trades[i].taker}}
Quantities   == [i \in DOMAIN trades |-> trades[i].qty]
Costs        == [i \in DOMAIN trades |-> PriceQtyToQuote(trades[i].price, trades[i].qty)]

\* The quantity fields of an order are the sum of the trades it took part
\* in, and a market buy has paid for what it got out of its budget; and the
\* level totals are made of what the trades have left.
TradesAccountForFills ==
  /\ LevelTotals
  /\ \A o \in OrderIds :
       /\ filled[o] = SumFunctionOnSet(Quantities, OwnTrades(o))
       /\ status[o] # "NONE" =>
            /\ rem[o] = req[o].qty - filled[o]
            /\ remQuote[o] >= 0
            /\ remQuote[o] = req[o].quote -
                 IF IsMarketBuy(o) THEN SumFunctionOnSet(Costs, OwnTrades(o)) ELSE 0

\* Every trade joins a buy and a sell at the maker's own price, a price the
\* taker accepts as well, and no order ever gets more than it asked for.
TradesWithinLimits ==
  /\ \A i \in DOMAIN trades :
       LET t == trades[i] IN
       /\ req[t.maker].side # req[t.taker].side
       /\ t.price = req[t.maker].price
       /\ Crosses(req[t.taker], t.price)
  /\ \A o \in OrderIds :
       status[o] # "NONE" /\ ~IsMarketBuy(o) => filled[o] <= req[o].qty

NewTrades == IF Len(trades') > Len(trades) THEN {trades'[Len(trades')]} ELSE {}

\* Time priority: whoever trades as a maker had been waiting longest among
\* the orders resting on the same side at the same price, whatever fills and
\* cancellations the queue went through in between.
TimePriority ==
  [][\A t \in NewTrades :
       \A o \in active : SlotOf(o) = SlotOf(t.maker) => arrival[t.maker] <= arrival[o]]_vars

\* consumeLevel takes orders[0] of a level whose totalQty is positive: there
\* is one, and conversely nobody queues at a level that looks empty.
LevelsBacked ==
  \A s \in Slots : total[s] >= 0 /\ (total[s] > 0 <=> queue[s] # <<>>)

\* A FOK order that was let in can be filled, as long as no level it needs
\* has dropped out of the heap: the levels it may trade with always hold at
\* least what it still wants.
Hidden(side) == {p \in Prices : total[side, p] > 0 /\ <<side, p>> \notin heap}

FOKCovered ==
  taker # NoOrder /\ req[taker].tif = "FOK" =>
    LET side == Opposite(req[taker].side) IN
    Hidden(side) = {} =>
      rem[taker] <= SumFunctionOnSet([p \in Prices |-> total[side, p]],
                      {p \in Visible(side) : Crosses(req[taker], p)})

\* An order that has ended keeps its status and its fills for ever, and only
\* a taker or an active order is ever written to.
EndedStaysEnded ==
  [][\A o \in OrderIds :
       status[o] \in {"FILLED", "CANCELED", "REJECTED", "EXPIRED"} =>
         /\ status'[o] = status[o] /\ filled'[o] = filled[o] /\ rem'[o] = rem[o]
         /\ o \notin active']_vars

\* The engine keeps the contract: seen from outside, every step it takes is a
\* step TradingContract allows, or no step at all (an order starts to rest).
phase == [o \in OrderIds |-> IF status[o] \in Open THEN "OPEN" ELSE status[o]]

Contract == INSTANCE TradingContract WITH budget <- remQuote

ImplementsContract == Contract!Spec

------------------------------------------------------------------------------
(***************************************************************************)
(* Statements of the repository that the code does not keep (see README).  *)
(***************************************************************************)

\* Price priority: nobody trades at a price while an order resting on the
\* same side offers a better one.
PricePriority ==
  [][\A t \in NewTrades :
       \A o \in active :
         req[o].side = req[t.maker].side => ~Better(req[o].side, req[o].price, t.price)]_vars

\* A FOK order is filled completely or not at all, and never rests.
FOKAllOrNothing ==
  \A o \in OrderIds \ {taker} :
    status[o] # "NONE" /\ req[o].tif = "FOK" => status[o] \in {"FILLED", "REJECTED"}
==============================================================================

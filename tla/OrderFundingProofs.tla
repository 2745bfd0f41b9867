------------------------- MODULE OrderFundingProofs -------------------------
(***************************************************************************)
(* The invariants of OrderFunding and of OrderEntry for every Base, every  *)
(* width of integers and all prices, quantities, amounts and requests,     *)
(* from what Arithmetic shows of the rounding.                             *)
(***************************************************************************)
EXTENDS OrderEntry, Arithmetic

\* What fills keep of a buy order, however it came about: the conjuncts the runs
\* check, and what they need of the quantities that no fill may change.
Funded ==
  /\ {price, remaining, remQuote, avg} \subseteq Int /\ paid \subseteq Int
  /\ {frozen, filled, spent} \subseteq Nat
  /\ type = "LIMIT" => price > 0 /\ remaining >= 0
  /\ FrozenCoversRest
  /\ MarketBudget
  /\ AvgWithinFills

------------------------------------------------------------------------------
(***************************************************************************)
(* Fills                                                                   *)
(***************************************************************************)

\* One more price keeps the average among the prices.
LEMMA AverageInv ==
  ASSUME Funded, NEW p \in Int, NEW qty \in Nat \ {0},
         avg' = WeightedAvg(avg, filled, p, qty), filled' = filled + qty,
         paid' = paid \cup {p}
  PROVE  avg' \in Int /\ filled' \in Nat /\ paid' \subseteq Int /\ AvgWithinFills'
<1> USE DEF Funded
<1>1. PICK lo \in paid', hi \in paid' :
        /\ lo <= p /\ p <= hi
        /\ filled > 0 => lo <= avg /\ avg <= hi
  <2>1. CASE filled = 0
    BY <2>1
  <2>2. CASE filled > 0
    <3>1. PICK l \in paid, h \in paid : l <= avg /\ avg <= h
      BY <2>2 DEF AvgWithinFills
    <3> l \in Int /\ h \in Int
      OBVIOUS
    <3>2. PICK l2 \in {l, p} : l2 <= l /\ l2 <= p
      BY <3>1
    <3>3. PICK h2 \in {h, p} : h <= h2 /\ p <= h2
      BY <3>1
    <3>4. l2 <= avg /\ avg <= h2
      BY <3>1, <3>2, <3>3
    <3> QED
      BY <3>2, <3>3, <3>4
  <2> QED
    BY <2>1, <2>2
<1>2. lo \in Int /\ hi \in Int
  OBVIOUS
<1>3. avg' \in Int /\ lo <= avg' /\ avg' <= hi
  BY <1>1, <1>2, AvgBetween
<1> QED
  BY <1>3 DEF AvgWithinFills

\* A fill of a limit buy keeps the rest of the order covered.
LEMMA FillLimitInv ==
  ASSUME Funded, NEW p \in Nat \ {0}, FillLimit(p)
  PROVE  Funded'
<1> USE DEF FillLimit
<1>1. PICK qty \in 1 .. remaining : Book(p, qty)
  OBVIOUS
<1>2. qty \in Nat \ {0} /\ remaining \in Nat /\ price \in Nat \ {0}
  BY DEF Funded
<1> {p, qty, price, remaining, remaining - qty} \subseteq Int
  BY <1>2
<1>3. avg' \in Int /\ filled' \in Nat /\ paid' \subseteq Int /\ AvgWithinFills'
  BY <1>1, <1>2, AverageInv DEF Book
<1>4. PriceQtyToQuote(p, qty) \in Nat
  BY QuoteNat
<1>5. FrozenCoversRest'
  <2>1. remaining - qty \in Nat /\ remaining = qty + (remaining - qty)
    BY <1>2
  <2>2. PriceQtyToQuote(p, qty) + PriceQtyToQuote(price, remaining - qty)
          <= PriceQtyToQuote(price, remaining)
    BY <1>2, <2>1, QuoteSplits
  <2>3. PriceQtyToQuote(price, remaining - qty) \in Nat
    BY QuoteNat
  <2>4. PriceQtyToQuote(price, remaining) \in Nat
    BY QuoteNat
  <2> QED
    BY <1>1, <1>4, <2>2, <2>3, <2>4 DEF Book, Funded, FrozenCoversRest
<1> QED
  BY <1>1, <1>2, <1>3, <1>4, <1>5 DEF Book, Funded, MarketBudget

\* A fill of a market buy keeps its budget and its reservation in step.
LEMMA FillMarketInv ==
  ASSUME Funded, NEW p \in Nat \ {0}, FillMarket(p)
  PROVE  Funded'
<1> USE DEF FillMarket
<1>1. PICK qty \in 1 .. QuoteToQty(remQuote, p) :
        /\ Book(p, qty)
        /\ remQuote' = remQuote - PriceQtyToQuote(p, qty)
  OBVIOUS
<1>2. remQuote \in Nat
  BY DEF Funded, MarketBudget
<1>3. QuoteToQty(remQuote, p) \in Int
  <2>1. remQuote * Base \in Int
    BY <1>2, BaseAssumption
  <2> QED
    BY <1>2, <2>1, DivBounds DEF QuoteToQty
<1>4. qty \in Nat \ {0} /\ qty <= QuoteToQty(remQuote, p)
  BY <1>3
<1>5. PriceQtyToQuote(p, qty) \in Nat /\ PriceQtyToQuote(p, qty) <= remQuote
  BY <1>2, <1>4, QuoteOfQtyFits, QuoteBounds
<1>6. avg' \in Int /\ filled' \in Nat /\ paid' \subseteq Int /\ AvgWithinFills'
  BY <1>1, <1>4, AverageInv DEF Book
<1> QED
  BY <1>1, <1>2, <1>4, <1>5, <1>6 DEF Book, Funded, FrozenCoversRest, MarketBudget

\* A fill costs a natural number of units, and a type stays what it is.
LEMMA FillsBuys ==
  ASSUME Funded, Next
  PROVE  Funded' /\ UNCHANGED <<type, price, frozen>> /\ type \in {"LIMIT", "MARKET"}
  BY FillLimitInv, FillMarketInv, FundingAssumption DEF Next, FillLimit, FillMarket, Book

\* Fills never cost more than the order reserved.
LEMMA FundedCovers == Funded /\ type \in {"LIMIT", "MARKET"} => FrozenCoversSpent
<1> SUFFICES ASSUME Funded, type \in {"LIMIT", "MARKET"} PROVE FrozenCoversSpent
  OBVIOUS
<1>1. CASE type = "LIMIT"
  <2>1. price \in Int /\ remaining \in Int
    BY DEF Funded
  <2>2. PriceQtyToQuote(price, remaining) \in Nat
    BY <2>1, QuoteNat
  <2> QED
    BY <1>1, <2>2 DEF Funded, FrozenCoversRest, FrozenCoversSpent
<1>2. CASE type = "MARKET"
  BY <1>2 DEF Funded, MarketBudget, FrozenCoversSpent
<1> QED
  BY <1>1, <1>2

------------------------------------------------------------------------------
(***************************************************************************)
(* An order with any price and quantity                                    *)
(***************************************************************************)

\* The inductive invariant of OrderFunding.
IInv == TypeOK /\ Funded

\* Every conjunct of the invariant holds when the order has just been frozen.
LEMMA InitInv == Init => IInv
<1> SUFFICES ASSUME Init PROVE IInv
  OBVIOUS
<1> USE FundingAssumption DEF Init
<1>1. CASE InitLimit
  <2>1. price \in Nat \ {0} /\ remaining \in Nat \ {0}
    BY <1>1 DEF InitLimit
  <2>2. PriceQtyToQuote(price, remaining) \in Nat
    BY <2>1, QuoteBounds
  <2> QED
    BY <1>1, <2>1, <2>2
       DEF InitLimit, IInv, TypeOK, Funded, FrozenCoversRest, MarketBudget, AvgWithinFills
<1>2. CASE InitMarket
  BY <1>2
     DEF InitMarket, IInv, TypeOK, Funded, FrozenCoversRest, MarketBudget, AvgWithinFills
<1> QED
  BY <1>1, <1>2

\* Every step keeps the invariant.
LEMMA NextInv == IInv /\ [Next]_vars => IInv'
<1>1. ASSUME IInv, UNCHANGED vars PROVE IInv'
  BY <1>1
     DEF vars, IInv, TypeOK, Funded, FrozenCoversRest, MarketBudget, AvgWithinFills
<1>2. ASSUME IInv, NEW p \in Prices, FillLimit(p) \/ FillMarket(p) PROVE IInv'
  <2>1. Funded'
    BY <1>2, FillsBuys DEF Next, IInv
  <2>2. PICK qty \in Int : qty >= 1 /\ Book(p, qty)
    <3>1. remQuote * Base \in Int
      BY <1>2, BaseAssumption DEF IInv, TypeOK
    <3>2. QuoteToQty(remQuote, p) \in Int
      BY <3>1, FundingAssumption, DivBounds DEF QuoteToQty
    <3> QED
      BY <1>2, <3>2 DEF FillLimit, FillMarket, IInv, TypeOK
  <2> p \in Int /\ p \in Nat /\ qty \in Nat \ {0}
    BY <2>2, FundingAssumption
  <2>3. PriceQtyToQuote(p, qty) \in Nat
    BY QuoteNat
  <2>4. avg' \in Nat
    <3>1. avg \in Nat /\ filled \in Nat
      BY <1>2 DEF IInv, TypeOK
    <3>2. WeightedAvg(avg, filled, p, qty) \in Nat
      BY <3>1, AvgNat
    <3> QED
      BY <2>2, <3>2 DEF Book
  <2>5. remQuote' \in Int
    BY <1>2, <2>1 DEF Funded
  <2> QED
    BY <1>2, <2>1, <2>2, <2>3, <2>4, <2>5 DEF Book, IInv, TypeOK
<1> QED
  BY <1>1, <1>2 DEF Next

\* The invariant holds in every reachable state.
THEOREM Invariance == Spec => []IInv
  BY InitInv, NextInv, PTL DEF Spec

\* Fills never cost more than the order reserved (PlaceOrder's "the freeze
\* covers it"), for every scale, price, quantity and way of cutting fills.
THEOREM FundingSafe == Spec => []FrozenCoversSpent
<1>1. IInv => FrozenCoversSpent
  BY FundedCovers DEF IInv, TypeOK
<1> QED
  BY <1>1, Invariance, PTL

\* A market buy never overdraws its budget: the abandoned-fill branch of
\* consumeLevel is unreachable for every scale and every price.
THEOREM BudgetSafe == Spec => []MarketBudget
<1>1. IInv => MarketBudget
  BY DEF IInv, Funded
<1> QED
  BY <1>1, Invariance, PTL

\* The rounded running average stays among the prices that were paid.
THEOREM AvgSafe == Spec => []AvgWithinFills
<1>1. IInv => AvgWithinFills
  BY DEF IInv, Funded
<1> QED
  BY <1>1, Invariance, PTL

------------------------------------------------------------------------------
(***************************************************************************)
(* An order with the numbers of a request                                  *)
(***************************************************************************)

\* What an order of each type owes to its request.
Nothing == type = "NONE" /\ filled = 0 /\ spent = 0 /\ remQuote = 0 /\ avg = 0 /\ paid = {}

LimitBuy ==
  /\ type = "LIMIT" /\ asked.side = "BUY" /\ asked.type = "LIMIT"
  /\ price <= asked.price /\ filled + remaining <= asked.qty
  /\ \A p \in paid : p <= price

MarketBuy ==
  type = "MARKET" /\ asked.side = "BUY" /\ asked.type = "MARKET" /\ frozen <= asked.amount

Sell ==
  /\ type = "SELL" /\ asked.side = "SELL"
  /\ remaining >= 0 /\ filled + remaining <= asked.qty
  /\ spent + remaining <= frozen
  /\ asked.type = "LIMIT" => asked.price > 0 /\ price = ToInt64(asked.price)
  /\ \A p \in paid : p >= price

\* The numbers a request has, according to its kind.
Numbers ==
  /\ asked.type = "LIMIT" => asked.price \in Int /\ asked.qty \in Int
  /\ asked.type # "LIMIT" /\ asked.side = "BUY" => asked.amount \in Int
  /\ asked.type # "LIMIT" /\ asked.side = "SELL" => asked.qty \in Int

\* The inductive invariant of OrderEntry.
EntryInv ==
  /\ asked \in Requests
  /\ Funded
  /\ Nothing \/ LimitBuy \/ MarketBuy \/ Sell

\* A request has its numbers.
LEMMA RequestNumbers == asked \in Requests => Numbers
  BY EntryAssumption DEF Requests, Numbers

\* A positive number that is cut to 64 bits does not grow, and one that fits
\* is kept.
LEMMA Cut ==
  ASSUME NEW n \in Int, n > 0
  PROVE  ToInt64(n) \in Int /\ ToInt64(n) <= n /\ (IsInt64(n) => ToInt64(n) = n)
<1>1. n \in Nat
  OBVIOUS
<1>2. LET low == ((n + MaxInt + 1) % (2 * (MaxInt + 1))) - (MaxInt + 1)
      IN  low \in Int /\ low <= n /\ (n <= MaxInt => low = n)
  BY <1>1, LowBits, MaxIntAssumption
<1> QED
  BY <1>2 DEF ToInt64, Width, IsInt64

\* buildOrder and freeze leave an order whose numbers are at most those of the
\* request, and whose reservation is at least what it may cost.
LEMMA EnterInv == EntryInv /\ Enter => EntryInv'
<1> SUFFICES ASSUME EntryInv, Enter PROVE EntryInv'
  OBVIOUS
<1>1. /\ type = "NONE" /\ filled = 0 /\ spent = 0 /\ remQuote = 0 /\ avg = 0 /\ paid = {}
      /\ {price, remaining, frozen} \subseteq Int
      /\ UNCHANGED <<asked, filled, spent, avg, paid>>
  BY DEF EntryInv, Nothing, LimitBuy, MarketBuy, Sell, Funded, Enter, EnterLimitBuy,
         EnterMarketBuy, EnterSell, IsAsked, Placed
<1>2. asked \in Requests /\ Numbers
  BY RequestNumbers DEF EntryInv
<1>3. AvgWithinFills'
  BY <1>1 DEF AvgWithinFills
<1>4. CASE EnterLimitBuy
  <2> DEFINE p == ToInt64(asked.price)
             q == PriceQtyToQuote(p, Qty)
  <2>1. /\ asked.side = "BUY" /\ asked.type = "LIMIT" /\ asked.price > 0 /\ asked.qty > 0
        /\ q > 0 /\ type' = "LIMIT" /\ price' = p /\ frozen' = q
        /\ remaining' = Qty /\ remQuote' = remQuote
    BY <1>4 DEF EnterLimitBuy, IsAsked, Placed, QtyAllowed
  <2>2. /\ p \in Int /\ p <= asked.price /\ Qty \in Int /\ Qty <= asked.qty
        /\ asked.price \in Int /\ asked.qty \in Int
    BY <1>2, <2>1, Cut DEF Numbers, Qty
  <2>3. p > 0 /\ Qty > 0 /\ q \in Nat
    BY <2>1, <2>2, QuoteNat DEF PriceQtyToQuote
  <2> HIDE DEF p, q
  <2>4. FrozenCoversRest'
    BY <1>1, <2>1, <2>3 DEF FrozenCoversRest, p, q
  <2>5. MarketBudget'
    BY <2>1 DEF MarketBudget
  <2>6. Funded'
    BY <1>1, <1>3, <2>1, <2>2, <2>3, <2>4, <2>5 DEF Funded
  <2>7. LimitBuy'
    BY <1>1, <2>1, <2>2 DEF LimitBuy
  <2> QED
    BY <1>1, <1>2, <2>6, <2>7 DEF EntryInv
<1>5. CASE EnterMarketBuy
  <2> DEFINE q == ToInt64(asked.amount)
  <2>1. /\ asked.side = "BUY" /\ asked.type = "MARKET" /\ asked.amount > 0
        /\ q > 0 /\ type' = "MARKET" /\ price' = 0 /\ frozen' = q
        /\ remQuote' = q /\ remaining' = remaining
    BY <1>5 DEF EnterMarketBuy, IsAsked, Placed
  <2>2. q \in Int /\ q <= asked.amount /\ asked.amount \in Int
    BY <1>2, <2>1, Cut DEF Numbers
  <2> HIDE DEF q
  <2>3. FrozenCoversRest' /\ MarketBudget'
    BY <1>1, <2>1, <2>2 DEF FrozenCoversRest, MarketBudget
  <2>4. Funded'
    BY <1>1, <1>3, <2>1, <2>2, <2>3 DEF Funded
  <2>5. MarketBuy'
    BY <1>1, <2>1, <2>2 DEF MarketBuy
  <2> QED
    BY <1>1, <1>2, <2>4, <2>5 DEF EntryInv
<1>6. CASE EnterSell
  <2>1. /\ asked.side = "SELL" /\ asked.qty > 0
        /\ Qty > 0 /\ type' = "SELL" /\ frozen' = Qty
        /\ remaining' = Qty /\ remQuote' = remQuote
        /\ \/ asked.type = "MARKET" /\ price' = 0
           \/ asked.type = "LIMIT" /\ asked.price > 0 /\ price' = ToInt64(asked.price)
    BY <1>6 DEF EnterSell, IsAsked, Placed, QtyAllowed
  <2>2. asked.qty \in Int /\ (asked.type = "LIMIT" => asked.price \in Int)
    BY <1>2, <2>1 DEF Numbers
  <2>3. Qty \in Int /\ Qty <= asked.qty
    BY <2>1, <2>2, Cut DEF Qty
  <2>4. price' \in Int
    BY <2>1, <2>2, Cut
  <2>5. FrozenCoversRest' /\ MarketBudget'
    BY <2>1 DEF FrozenCoversRest, MarketBudget
  <2>6. Funded'
    BY <1>1, <1>3, <2>1, <2>3, <2>4, <2>5 DEF Funded
  <2>7. Sell'
    BY <1>1, <2>1, <2>2, <2>3 DEF Sell
  <2> QED
    BY <1>1, <1>2, <2>6, <2>7 DEF EntryInv
<1> QED
  BY <1>4, <1>5, <1>6 DEF Enter

\* A fill of a buy stays within the request.
LEMMA BuyInv == EntryInv /\ Next /\ UNCHANGED asked => EntryInv'
<1> SUFFICES ASSUME EntryInv, Next, UNCHANGED asked PROVE EntryInv'
  OBVIOUS
<1>1. Funded' /\ UNCHANGED <<type, price, frozen>> /\ type \in {"LIMIT", "MARKET"}
  BY FillsBuys DEF EntryInv
<1>2. asked \in Requests /\ Numbers
  BY RequestNumbers DEF EntryInv
<1>3. CASE type = "MARKET"
  BY <1>1, <1>2, <1>3 DEF EntryInv, Nothing, LimitBuy, MarketBuy, Sell
<1>4. CASE type = "LIMIT"
  <2>1. LimitBuy
    BY <1>4 DEF EntryInv, Nothing, LimitBuy, MarketBuy, Sell
  <2>2. PICK p \in Prices, qty \in 1 .. remaining : p <= price /\ Book(p, qty)
    BY <1>4 DEF Next, FillLimit, FillMarket
  <2>3. /\ filled' = filled + qty /\ remaining' = remaining - qty /\ paid' = paid \cup {p}
        /\ {filled, remaining, qty} \subseteq Int
    BY <2>2 DEF Book, EntryInv, Funded
  <2>4. LimitBuy'
    <3>1. filled' + remaining' = filled + remaining
      BY <2>3
    <3> QED
      BY <1>1, <2>1, <2>2, <2>3, <3>1 DEF LimitBuy
  <2> QED
    BY <1>1, <1>2, <2>4 DEF EntryInv
<1> QED
  BY <1>1, <1>3, <1>4

\* A fill of a sell stays within the request.
LEMMA SellInv ==
  ASSUME EntryInv, NEW p \in Prices \cup ({price} \ {0}), FillSell(p), UNCHANGED asked
  PROVE  EntryInv'
<1>1. Sell /\ asked \in Requests /\ Numbers
  BY RequestNumbers DEF EntryInv, Nothing, LimitBuy, MarketBuy, Sell, FillSell
<1>2. PICK qty \in 1 .. remaining :
        /\ avg' = WeightedAvg(avg, filled, p, qty)
        /\ filled' = filled + qty /\ remaining' = remaining - qty
        /\ spent' = spent + qty
  BY DEF FillSell
<1>3. /\ p >= price /\ paid' = paid \cup {p} /\ UNCHANGED <<type, price, frozen, remQuote>>
      /\ type = "SELL"
  BY DEF FillSell
<1>4. {filled, spent, frozen} \subseteq Nat /\ {remaining, price, remQuote} \subseteq Int
  BY DEF EntryInv, Funded
<1>5. qty \in Nat \ {0} /\ qty <= remaining /\ p \in Int
  BY <1>4, FundingAssumption
<1>6. avg' \in Int /\ filled' \in Nat /\ paid' \subseteq Int /\ AvgWithinFills'
  BY <1>2, <1>3, <1>5, AverageInv DEF EntryInv
<1>7. Funded'
  BY <1>2, <1>3, <1>4, <1>5, <1>6 DEF Funded, FrozenCoversRest, MarketBudget
<1>8. Sell'
  <2>1. filled' + remaining' = filled + remaining /\ spent' + remaining' = spent + remaining
    BY <1>2, <1>4, <1>5
  <2> QED
    BY <1>1, <1>2, <1>3, <1>4, <1>5, <2>1 DEF Sell
<1> QED
  BY <1>1, <1>7, <1>8 DEF EntryInv

\* Every step keeps the invariant.
LEMMA EntryNextInv == EntryInv /\ [EntryNext]_entryVars => EntryInv'
<1> SUFFICES ASSUME EntryInv, [EntryNext]_entryVars PROVE EntryInv'
  OBVIOUS
<1>1. CASE UNCHANGED entryVars
  BY <1>1 DEF entryVars, vars, EntryInv, Funded, FrozenCoversRest, MarketBudget,
              AvgWithinFills, Nothing, LimitBuy, MarketBuy, Sell, Requests
<1>2. CASE EntryNext
  BY <1>2, EnterInv, BuyInv, SellInv DEF EntryNext, Fill
<1> QED
  BY <1>1, <1>2

\* The invariant holds from the request to the last fill.
THEOREM EntryInvariance == EntrySpec => []EntryInv
<1>1. EntryInit => EntryInv
  BY DEF EntryInit, EntryInv, Nothing, Funded, FrozenCoversRest, MarketBudget, AvgWithinFills
<1> QED
  BY <1>1, EntryNextInv, PTL DEF EntrySpec

\* buildOrder cuts the numbers of a request to 64 bits after it has tested them;
\* the order that results never does worse than the request said.
THEOREM NoWorseThanAskedSafe == EntrySpec => []NoWorseThanAsked
<1>1. EntryInv => NoWorseThanAsked
  <2> SUFFICES ASSUME EntryInv PROVE NoWorseThanAsked
    OBVIOUS
  <2>1. Numbers /\ {filled, spent, frozen} \subseteq Nat
        /\ {remaining, price, remQuote} \subseteq Int /\ paid \subseteq Int
    BY RequestNumbers DEF EntryInv, Funded
  <2>2. CASE Nothing
    BY <2>2 DEF Nothing, NoWorseThanAsked
  <2>3. CASE LimitBuy
    <3>1. remaining >= 0
      BY <2>3 DEF EntryInv, Funded, LimitBuy
    <3>2. asked.qty \in Int /\ asked.price \in Int
      BY <2>1, <2>3 DEF Numbers, LimitBuy
    <3> QED
      BY <2>1, <2>3, <3>1, <3>2 DEF LimitBuy, NoWorseThanAsked
  <2>4. CASE MarketBuy
    <3>1. asked.amount \in Int /\ remQuote >= 0 /\ remQuote + spent = frozen
      BY <2>1, <2>4 DEF EntryInv, Funded, MarketBudget, MarketBuy, Numbers
    <3> QED
      BY <2>1, <2>4, <3>1 DEF MarketBuy, NoWorseThanAsked
  <2>5. CASE Sell
    <3>1. asked.qty \in Int
      BY <2>1, <2>5 DEF Numbers, Sell
    <3>2. asked.type = "LIMIT" /\ IsInt64(asked.price) => price = asked.price
      BY <2>1, <2>5, Cut DEF Numbers, Sell
    <3> QED
      BY <2>1, <2>5, <3>1, <3>2 DEF Sell, NoWorseThanAsked
  <2> QED
    BY <2>2, <2>3, <2>4, <2>5 DEF EntryInv
<1> QED
  BY <1>1, EntryInvariance, PTL

\* FundingSafe for the orders that requests make, sells included.
THEOREM EntryFundingSafe == EntrySpec => []FrozenCoversSpent
<1>1. EntryInv => FrozenCoversSpent
  <2> SUFFICES ASSUME EntryInv PROVE FrozenCoversSpent
    OBVIOUS
  <2>1. CASE LimitBuy \/ MarketBuy
    BY <2>1, FundedCovers DEF EntryInv, LimitBuy, MarketBuy
  <2>2. CASE Nothing \/ Sell
    BY <2>2 DEF EntryInv, Funded, Nothing, Sell, FrozenCoversSpent
  <2> QED
    BY <2>1, <2>2 DEF EntryInv
<1> QED
  BY <1>1, EntryInvariance, PTL

\* BudgetSafe for the orders that requests make.
THEOREM EntryBudgetSafe == EntrySpec => []MarketBudget
<1>1. EntryInv => MarketBudget
  BY DEF EntryInv, Funded
<1> QED
  BY <1>1, EntryInvariance, PTL

\* AvgSafe for the orders that requests make.
THEOREM EntryAvgSafe == EntrySpec => []AvgWithinFills
<1>1. EntryInv => AvgWithinFills
  BY DEF EntryInv, Funded
<1> QED
  BY <1>1, EntryInvariance, PTL
==============================================================================

------------------------- MODULE OrderServiceProofs -------------------------
(***************************************************************************)
(* The money that orders move, and what the funds they freeze cover, for   *)
(* any users, orders and requests, and however their calls and             *)
(* cancellations overlap.  The engine's invariants are taken over from its *)
(* proofs: the engine of the service (Engine) and that of the proofs (EP)  *)
(* are the same formulas.                                                  *)
(***************************************************************************)
EXTENDS OrderService, Arithmetic

EP == INSTANCE MatchingEngineProofs

\* The assumptions of the engine's proofs hold here.
LEMMA EngineHyp ==
  /\ Prices \subseteq Nat \ {0}
  /\ Requests \subseteq EP!RequestTypes
  /\ NoOrder \notin OrderIds
  /\ NoRequest \notin Requests
  BY EngineAssumption
     DEF EP!RequestTypes, EP!LimitRequests, EP!MarketBuyRequests, EP!MarketSellRequests, EP!Sides,
         Engine!RequestTypes, Engine!LimitRequests, Engine!MarketBuyRequests,
         Engine!MarketSellRequests, Engine!Sides

\* Prices are positive.
LEMMA PriceFacts == \A x \in Prices : x \in Int /\ x \in Nat \ {0}
  BY EP!PriceFacts, EngineHyp, BaseAssumption

\* What is proved of the engine's states.
EngineInv == EP!IInv /\ EP!TradesTold /\ EP!BuysCovered

\* A step of the engine keeps its invariants, and tells its callers no more than
\* this: it appends at most one trade, undoes no fill and leaves requests alone.
LEMMA EngineStep ==
  ASSUME EngineInv, EP!Next \/ UNCHANGED EP!vars
  PROVE  /\ EngineInv'
         /\ trades' = trades \/ \E t \in EP!Trade : trades' = Append(trades, t)
         /\ \A o \in OrderIds :
              /\ status[o] # "NONE" => status'[o] # "NONE" /\ req'[o] = req[o]
              /\ filled'[o] >= filled[o]
<1>1. EP!IInv'
  BY EP!NextInv, EngineHyp, BaseAssumption DEF EngineInv
<1>2. EP!TradesTold'
  BY EP!NextTold, EngineHyp, BaseAssumption DEF EngineInv
<1>3. EP!BuysCovered'
  BY EP!NextBuys, EngineHyp, BaseAssumption DEF EngineInv
<1>4. /\ trades' = trades \/ \E t \in EP!Trade : trades' = Append(trades, t)
      /\ \A o \in OrderIds :
           /\ status[o] # "NONE" => status'[o] # "NONE" /\ req'[o] = req[o]
           /\ filled'[o] >= filled[o]
  BY EP!StepFacts, EngineHyp, BaseAssumption DEF EngineInv
<1> QED
  BY <1>1, <1>2, <1>3, <1>4 DEF EngineInv

\* The event loop does the same in both instances.
LEMMA SameWork == Engine!Work <=> EP!Work
  BY DEF Engine!Work, EP!Work, Engine!Fill, EP!Fill, Engine!Matchable, EP!Matchable,
         Engine!Best, EP!Best, Engine!Visible, EP!Visible, Engine!Better, EP!Better,
         Engine!Opposite, EP!Opposite, Engine!Exhausted, EP!Exhausted,
         Engine!IsMarketBuy, EP!IsMarketBuy, Engine!Crosses, EP!Crosses,
         Engine!FillQty, EP!FillQty, Engine!HeapAfterMatch, EP!HeapAfterMatch,
         Engine!Popped, EP!Popped, WeightedAvg, PriceQtyToQuote, QuoteToQty,
         Engine!WeightedAvg, Engine!PriceQtyToQuote, Engine!QuoteToQty,
         EP!WeightedAvg, EP!PriceQtyToQuote, EP!QuoteToQty, Engine!FinishMarket,
         EP!FinishMarket, Engine!FinishFilled, EP!FinishFilled, Engine!FinishExpired,
         EP!FinishExpired, Engine!FinishResting, EP!FinishResting, Engine!Finish,
         EP!Finish, Engine!DropTaker, EP!DropTaker, Engine!Rest, EP!Rest,
         Engine!SlotOf, EP!SlotOf

\* Both instances cancel an order in the same way.
LEMMA SameCancel == ASSUME NEW o PROVE Engine!Cancel(o) <=> EP!Cancel(o)
  BY DEF Engine!Cancel, EP!Cancel, Engine!SlotOf, EP!SlotOf, Engine!RemoveAt,
         EP!RemoveAt

\* Both instances take in a submission, or refuse it, in the same way.
LEMMA SameSubmit ==
  ASSUME NEW o, NEW r
  PROVE  /\ Engine!SubmitAccepted(o, r) <=> EP!SubmitAccepted(o, r)
         /\ Engine!SubmitRejected(o, r) <=> EP!SubmitRejected(o, r)
  BY DEF Engine!SubmitAccepted, EP!SubmitAccepted, Engine!SubmitRejected,
         EP!SubmitRejected, Engine!Arrive, EP!Arrive, Engine!CanFullyFill,
         EP!CanFullyFill, Engine!Opposite, EP!Opposite, Engine!Crosses, EP!Crosses,
         Engine!bookVars, EP!bookVars, Engine!SumFunctionOnSet, EP!SumFunctionOnSet,
         Engine!FoldFunctionOnSet, EP!FoldFunctionOnSet, Engine!MapThenFoldSet,
         EP!MapThenFoldSet

\* Both instances start in the same states.
LEMMA SameInit == Engine!Init <=> EP!Init
  BY DEF Engine!Init, EP!Init, Engine!Slots, EP!Slots, Engine!Sides, EP!Sides

------------------------------------------------------------------------------
(***************************************************************************)
(* Balances                                                                *)
(***************************************************************************)

\* Freeze and Unfreeze move what a user has, and create or destroy nothing.
LEMMA Moves ==
  ASSUME NEW b \in BalanceTypes, NEW u \in Users, NEW a \in Assets, NEW q \in Int, NEW n,
         \/ CanFreeze(b, u, a, q) /\ n = AfterFreeze(b, u, a, q)
         \/ CanRelease(b, u, a, q) /\ n = AfterUnfreeze(b, u, a, q)
  PROVE  n \in BalanceTypes /\ \A x \in Assets : Supply(n, x) = Supply(b, x)
<1>1. b[u][a].available \in Nat /\ b[u][a].frozen \in Nat
  BY DEF BalanceTypes
<1>2. n \in BalanceTypes
  BY DEF AfterFreeze, CanFreeze, AfterUnfreeze, CanRelease, BalanceTypes
<1>3. ASSUME NEW x \in Assets, NEW v \in Users
      PROVE  Total(n, v, x) = Total(b, v, x)
  <2>1. CASE v = u /\ x = a
    <3>1. \/ /\ n[u][a].available = b[u][a].available - q
             /\ n[u][a].frozen = b[u][a].frozen + q
          \/ /\ n[u][a].available = b[u][a].available + q
             /\ n[u][a].frozen = b[u][a].frozen - q
      BY DEF AfterFreeze, AfterUnfreeze, BalanceTypes
    <3> QED
      BY <1>1, <2>1, <3>1 DEF Total
  <2>2. CASE ~(v = u /\ x = a)
    <3>1. n[v][x] = b[v][x]
      BY <2>2 DEF AfterFreeze, AfterUnfreeze, BalanceTypes
    <3> QED
      BY <3>1 DEF Total
  <2> QED
    BY <2>1, <2>2
<1>4. \A x \in Assets : Supply(n, x) = Supply(b, x)
  BY <1>3 DEF Supply
<1> QED
  BY <1>2, <1>4

\* A supply is an integer.
LEMMA SupplyInt == ASSUME NEW b \in BalanceTypes, NEW x \in Assets PROVE Supply(b, x) \in Int
<1> DEFINE f == [v \in Users |-> Total(b, v, x)]
<1>1. \A v \in Users : f[v] \in Int
  BY DEF Total, BalanceTypes
<1>2. IsFiniteSet(Users)
  BY ServiceAssumption
<1> HIDE DEF f
<1>3. SumFunctionOnSet(f, Users) \in Int
  BY <1>1, <1>2, SumType
<1> QED
  BY <1>3 DEF Supply, f

\* One user's total of an asset changes by d, and so does the supply.
LEMMA SupplyChange ==
  ASSUME NEW b \in BalanceTypes, NEW n \in BalanceTypes, NEW u \in Users, NEW x \in Assets,
         \A v \in Users \ {u} : Total(n, v, x) = Total(b, v, x)
  PROVE  /\ Supply(n, x) \in Int /\ Supply(b, x) \in Int
         /\ Supply(n, x) = Supply(b, x) + Total(n, u, x) - Total(b, u, x)
<1> DEFINE f == [v \in Users |-> Total(b, v, x)]
           g == [v \in Users |-> Total(n, v, x)]
<1>1. \A v \in Users : f[v] \in Int /\ g[v] \in Int
  BY DEF Total, BalanceTypes
<1>2. \A v \in Users \ {u} : g[v] = f[v]
  OBVIOUS
<1>3. g[u] = Total(n, u, x) /\ f[u] = Total(b, u, x) /\ f[u] \in Int /\ g[u] \in Int
  BY <1>1
<1>4. Supply(n, x) = SumFunctionOnSet(g, Users) /\ Supply(b, x) = SumFunctionOnSet(f, Users)
  BY DEF Supply
<1>5. IsFiniteSet(Users)
  BY ServiceAssumption
<1> HIDE DEF f, g
<1>6. SumFunctionOnSet(g, Users) = SumFunctionOnSet(f, Users) - f[u] + g[u]
  BY <1>1, <1>2, <1>5, SumChange
<1>7. SumFunctionOnSet(f, Users) \in Int /\ SumFunctionOnSet(g, Users) \in Int
  BY <1>1, <1>5, SumType
<1> QED
  BY <1>3, <1>4, <1>6, <1>7

\* Each side of a settlement gives from what it has frozen of one asset, and
\* gets the other asset.
LEMMA SideTyped ==
  ASSUME NEW b \in BalanceTypes, NEW u \in Users, NEW y \in Assets, NEW c \in Nat,
         b[u][y].frozen >= c, NEW x \in Assets, NEW q \in Nat
  PROVE  [b EXCEPT ![u][y].frozen = @ - c, ![u][x].available = @ + q] \in BalanceTypes
<1>1. b[u][y].frozen - c \in Nat
  BY DEF BalanceTypes
<1>2. [b EXCEPT ![u][y].frozen = @ - c] \in BalanceTypes
  BY <1>1 DEF BalanceTypes
<1>3. PICK m \in BalanceTypes : m = [b EXCEPT ![u][y].frozen = @ - c]
  BY <1>2
<1>4. m[u][x].available + q \in Nat
  BY DEF BalanceTypes
<1>5. [m EXCEPT ![u][x].available = @ + q] \in BalanceTypes
  <2>1. m[u] \in [Assets -> [available: Nat, frozen: Nat]] /\ m[u][x] \in [available: Nat, frozen: Nat]
    BY DEF BalanceTypes
  <2>2. PICK z \in [available: Nat, frozen: Nat] : z = [m[u][x] EXCEPT !.available = @ + q]
    BY <1>4, <2>1
  <2>3. PICK w \in [Assets -> [available: Nat, frozen: Nat]] : w = [m[u] EXCEPT ![x] = z]
    BY <2>1
  <2>4. [m EXCEPT ![u] = w] \in BalanceTypes
    BY DEF BalanceTypes
  <2>5. [m EXCEPT ![u][x].available = @ + q] = [m EXCEPT ![u] = w]
    BY <2>2, <2>3
  <2> QED
    BY <2>4, <2>5
<1> QED
  BY <1>3, <1>5

\* A settlement that is done or refused leaves the supplies alone; one that is
\* torn has created the base and destroyed the quote of its trade.
LEMMA Settles ==
  ASSUME NEW b \in BalanceTypes, NEW buyer \in Users, NEW seller \in Users,
         NEW q \in Nat, NEW c \in Nat, NEW n, NEW how,
         n = AfterSettle(b, buyer, seller, BaseAsset, QuoteAsset, q, c),
         how = SettleOutcome(b, buyer, seller, BaseAsset, QuoteAsset, q, c)
  PROVE  /\ n \in BalanceTypes
         /\ how \in {"done", "torn", "refused"}
         /\ Supply(n, BaseAsset) = Supply(b, BaseAsset) + IF how = "torn" THEN q ELSE 0
         /\ Supply(n, QuoteAsset) = Supply(b, QuoteAsset) - IF how = "torn" THEN c ELSE 0
<1> DEFINE B == BaseAsset
           Q == QuoteAsset
           h == BuyerPaid(b, buyer, B, Q, q, c)
           s == SellerPaid(h, seller, B, Q, q, c)
<1>1. B \in Assets /\ Q \in Assets /\ B # Q
  BY ServiceAssumption
<1>2. how \in {"done", "torn", "refused"}
  BY DEF SettleOutcome
<1>3. Supply(b, B) \in Int /\ Supply(b, Q) \in Int
  BY <1>1, SupplyChange
<1>4. CASE how = "refused"
  BY <1>3, <1>4 DEF AfterSettle
<1>5. ASSUME how # "refused"
      PROVE  /\ h \in BalanceTypes /\ buyer # seller
             /\ Supply(h, B) = Supply(b, B) + q /\ Supply(h, Q) = Supply(b, Q) - c
             /\ h[seller] = b[seller]
  <2>1. buyer # seller /\ b[buyer][Q].frozen >= c
    BY <1>1, <1>5 DEF SettleOutcome, BuyerRefused, BalanceTypes
  <2>2. /\ b[buyer][Q].frozen \in Nat /\ b[buyer][Q].available \in Nat
        /\ b[buyer][B].frozen \in Nat /\ b[buyer][B].available \in Nat
    BY <1>1 DEF BalanceTypes
  <2>3. h \in BalanceTypes
    BY <1>1, <2>1, SideTyped DEF BuyerPaid
  <2>4. /\ h[buyer][Q].frozen = b[buyer][Q].frozen - c
        /\ h[buyer][Q].available = b[buyer][Q].available
        /\ h[buyer][B].available = b[buyer][B].available + q
        /\ h[buyer][B].frozen = b[buyer][B].frozen
        /\ \A v \in Users \ {buyer} : h[v] = b[v]
    BY <1>1 DEF BuyerPaid, BalanceTypes
  <2> HIDE DEF h
  <2>5. /\ Total(h, buyer, B) - Total(b, buyer, B) = q
        /\ Total(h, buyer, Q) - Total(b, buyer, Q) = -c
    BY <2>2, <2>4 DEF Total
  <2>6. \A v \in Users \ {buyer} : Total(h, v, B) = Total(b, v, B) /\ Total(h, v, Q) = Total(b, v, Q)
    BY <2>4 DEF Total
  <2>7. /\ Supply(h, B) \in Int /\ Supply(h, Q) \in Int
        /\ Supply(h, B) = Supply(b, B) + Total(h, buyer, B) - Total(b, buyer, B)
        /\ Supply(h, Q) = Supply(b, Q) + Total(h, buyer, Q) - Total(b, buyer, Q)
    BY <1>1, <2>3, <2>6, SupplyChange
  <2>8. /\ Total(h, buyer, B) \in Int /\ Total(b, buyer, B) \in Int
        /\ Total(h, buyer, Q) \in Int /\ Total(b, buyer, Q) \in Int
    BY <1>1, <2>3 DEF Total, BalanceTypes
  <2>9. Supply(h, B) = Supply(b, B) + q /\ Supply(h, Q) = Supply(b, Q) - c
    BY <1>3, <2>5, <2>7, <2>8
  <2> QED
    BY <2>1, <2>3, <2>4, <2>9
<1>6. CASE how = "torn"
  <2>1. n = h
    BY <1>6 DEF AfterSettle
  <2> HIDE DEF h
  <2> QED
    BY <1>5, <1>6, <2>1
<1>7. CASE how = "done"
  <2>1. n = s
    BY <1>7 DEF AfterSettle
  <2>2. b[seller][B].frozen >= q
    BY <1>1, <1>7 DEF SettleOutcome, SellerRefused, BalanceTypes
  <2> HIDE DEF h
  <2>3. h \in BalanceTypes /\ h[seller][B].frozen >= q
    BY <1>5, <1>7, <2>2
  <2>4. /\ h[seller][Q].frozen \in Nat /\ h[seller][Q].available \in Nat
        /\ h[seller][B].frozen \in Nat /\ h[seller][B].available \in Nat
    BY <1>1, <2>3 DEF BalanceTypes
  <2>5. s \in BalanceTypes
    BY <1>1, <2>3, SideTyped DEF SellerPaid
  <2>6. /\ s[seller][B].frozen = h[seller][B].frozen - q
        /\ s[seller][B].available = h[seller][B].available
        /\ s[seller][Q].available = h[seller][Q].available + c
        /\ s[seller][Q].frozen = h[seller][Q].frozen
        /\ \A v \in Users \ {seller} : s[v] = h[v]
    BY <1>1, <2>3 DEF SellerPaid, BalanceTypes
  <2> HIDE DEF s
  <2>7. /\ Total(s, seller, B) - Total(h, seller, B) = -q
        /\ Total(s, seller, Q) - Total(h, seller, Q) = c
    BY <2>4, <2>6 DEF Total
  <2>8. \A v \in Users \ {seller} : Total(s, v, B) = Total(h, v, B) /\ Total(s, v, Q) = Total(h, v, Q)
    BY <2>6 DEF Total
  <2>9. /\ Supply(s, B) = Supply(h, B) + Total(s, seller, B) - Total(h, seller, B)
        /\ Supply(s, Q) = Supply(h, Q) + Total(s, seller, Q) - Total(h, seller, Q)
        /\ Supply(h, B) \in Int /\ Supply(h, Q) \in Int
    BY <1>1, <2>3, <2>5, <2>8, SupplyChange
  <2>10. /\ Total(s, seller, B) \in Int /\ Total(h, seller, B) \in Int
         /\ Total(s, seller, Q) \in Int /\ Total(h, seller, Q) \in Int
    BY <1>1, <2>3, <2>5 DEF Total, BalanceTypes
  <2>11. Supply(s, B) = Supply(h, B) - q /\ Supply(s, Q) = Supply(h, Q) + c
    BY <2>7, <2>9, <2>10
  <2> QED
    BY <1>3, <1>5, <1>7, <2>1, <2>5, <2>11
<1> QED
  BY <1>2, <1>4, <1>6, <1>7

------------------------------------------------------------------------------
(***************************************************************************)
(* The inductive invariant.                                                *)
(***************************************************************************)

\* What is known of an order where its goroutine stands.
StageOf(o) ==
  /\ pc[o] # "idle" => asked[o] \in Requests
  /\ pc[o] \in {"idle", "frozen", "refused"} => status[o] = "NONE" /\ spent[o] = 0
  /\ pc[o] \in {"submitted", "stored", "failed"} => status[o] # "NONE" /\ req[o] = asked[o]
  /\ pc[o] \notin {"stored", "failed"} => cancelPc[o] = "idle"
  /\ pc[o] \in {"frozen", "submitted"} => frozenUnits[o] = FreezeAmount(asked[o])

Stages == \A o \in OrderIds : StageOf(o)

\* The trades that the goroutine of o has settled.
SettledBy(o) == {i \in DOMAIN outcome : trades[i].taker = o /\ outcome[i] = "done"}

\* While its trades are being settled, a buy order is charged for exactly those
\* that are, and a sell order for no more than it was filled.
ChargeOf(o) ==
  IF asked[o].side = "BUY"
  THEN spent[o] = SumFunctionOnSet(EP!Costs, SettledBy(o))
  ELSE spent[o] <= filled[o]

Charged == \A o \in OrderIds : pc[o] = "submitted" => ChargeOf(o)

\* SupplyExplained in the terms of the engine's proofs.
Explained ==
  /\ Supply(bal, BaseAsset) = Supply(Deposits, BaseAsset)
       + SumFunctionOnSet(EP!Quantities, With("torn"))
  /\ Supply(bal, QuoteAsset) = Supply(Deposits, QuoteAsset)
       - SumFunctionOnSet(EP!Costs, With("torn"))

\* The inductive invariant.
ServiceInv ==
  EngineInv /\ TypeOK /\ Stages /\ Charged /\ ChargedWithinFrozen /\ Explained

\* The two instances of the engine say the same of trades, and their sums and
\* conversions are those of this module.
LEMMA SameTerms ==
  /\ Engine!Quantities = EP!Quantities /\ Engine!Costs = EP!Costs
  /\ \A f, S : EP!SumFunctionOnSet(f, S) = SumFunctionOnSet(f, S)
  /\ \A p, q : EP!PriceQtyToQuote(p, q) = PriceQtyToQuote(p, q)
<1>1. Engine!Quantities = EP!Quantities
  BY DEF Engine!Quantities, EP!Quantities
<1>2. Engine!Costs = EP!Costs
  BY DEF Engine!Costs, EP!Costs, Engine!PriceQtyToQuote, EP!PriceQtyToQuote
<1>3. ASSUME NEW f, NEW S PROVE EP!SumFunctionOnSet(f, S) = SumFunctionOnSet(f, S)
  BY DEF EP!SumFunctionOnSet, SumFunctionOnSet, EP!FoldFunctionOnSet, FoldFunctionOnSet,
         EP!MapThenFoldSet, MapThenFoldSet
<1>4. ASSUME NEW p, NEW q PROVE EP!PriceQtyToQuote(p, q) = PriceQtyToQuote(p, q)
  BY DEF EP!PriceQtyToQuote, PriceQtyToQuote
<1> QED
  BY <1>1, <1>2, <1>3, <1>4

\* Costs are natural numbers.
LEMMA CostNat == ASSUME NEW p \in Int, NEW q \in Int PROVE PriceQtyToQuote(p, q) \in Nat
<1>1. EP!PriceQtyToQuote(p, q) \in Nat
  BY EP!QuoteNat, EngineHyp, BaseAssumption
<1> QED
  BY <1>1, SameTerms

\* What a request asks to be frozen.
LEMMA FreezeFacts ==
  ASSUME NEW r \in Requests
  PROVE  /\ FreezeAmount(r) \in Nat /\ FreezeAsset(r) \in Assets
         /\ r.side \in {"BUY", "SELL"} /\ r.qty \in Nat
<1>1. /\ r.side \in {"BUY", "SELL"} /\ r.qty \in Nat /\ r.quote \in Nat
      /\ r.type \in {"LIMIT", "MARKET"} /\ (r.type = "LIMIT" => r.price \in Prices)
  BY EP!RequestFacts, EngineHyp, BaseAssumption DEF EP!Sides
<1>2. r.type = "LIMIT" => r.price \in Int /\ r.qty \in Int
  BY <1>1, PriceFacts
<1>3. r.type = "LIMIT" => PriceQtyToQuote(r.price, r.qty) \in Nat
  BY <1>2, CostNat
<1>4. FreezeAmount(r) \in Nat
  BY <1>1, <1>3 DEF FreezeAmount
<1>5. FreezeAsset(r) \in Assets
  BY ServiceAssumption DEF FreezeAsset
<1> QED
  BY <1>1, <1>4, <1>5

\* The trades, one by one.
LEMMA TradeFacts ==
  ASSUME EngineInv, TypeOK
  PROVE  /\ trades \in Seq(EP!Trade) /\ IsFiniteSet(DOMAIN trades) /\ DOMAIN trades \subseteq Int
         /\ \A i \in DOMAIN trades :
              /\ trades[i].maker \in OrderIds /\ trades[i].taker \in OrderIds
              /\ EP!Quantities[i] = trades[i].qty /\ trades[i].qty \in Nat
              /\ EP!Costs[i] = PriceQtyToQuote(trades[i].price, trades[i].qty)
              /\ EP!Costs[i] \in Nat
<1>1. trades \in Seq(EP!Trade)
  BY DEF EngineInv, EP!IInv, EP!TypeOK
<1>2. DOMAIN trades = 1 .. Len(trades) /\ Len(trades) \in Nat
  BY <1>1
<1>3. IsFiniteSet(DOMAIN trades)
  BY <1>2, FS_Interval
<1>4. ASSUME NEW i \in DOMAIN trades
      PROVE  /\ trades[i].maker \in OrderIds /\ trades[i].taker \in OrderIds
             /\ EP!Quantities[i] = trades[i].qty /\ trades[i].qty \in Nat
             /\ EP!Costs[i] = PriceQtyToQuote(trades[i].price, trades[i].qty)
             /\ EP!Costs[i] \in Nat
  <2>1. trades[i] \in EP!Trade
    BY <1>1
  <2>2. /\ trades[i].maker \in OrderIds /\ trades[i].taker \in OrderIds
        /\ trades[i].price \in Prices /\ trades[i].qty \in Nat
    BY <2>1 DEF EP!Trade
  <2>3. trades[i].price \in Int /\ trades[i].qty \in Int
    BY <2>2, PriceFacts
  <2>4. PriceQtyToQuote(trades[i].price, trades[i].qty) \in Nat
    BY <2>3, CostNat
  <2>5. EP!Costs[i] = PriceQtyToQuote(trades[i].price, trades[i].qty)
    BY SameTerms DEF EP!Costs
  <2>6. EP!Quantities[i] = trades[i].qty
    BY DEF EP!Quantities
  <2> QED
    BY <2>2, <2>4, <2>5, <2>6
<1> QED
  BY <1>1, <1>2, <1>3, <1>4

\* As long as nothing is settled, the sums over settled trades stay as they are.
LEMMA SumsStay ==
  ASSUME EngineInv, TypeOK, outcome' = outcome,
         trades' = trades \/ \E t \in EP!Trade : trades' = Append(trades, t)
  PROVE  /\ DOMAIN outcome \subseteq DOMAIN trades'
         /\ \A how : With(how)' = With(how)
         /\ \A o : SettledBy(o)' = SettledBy(o)
         /\ \A S \in SUBSET DOMAIN outcome :
              /\ SumFunctionOnSet(EP!Quantities', S) = SumFunctionOnSet(EP!Quantities, S)
              /\ SumFunctionOnSet(EP!Costs', S) = SumFunctionOnSet(EP!Costs, S)
<1>0. DOMAIN outcome \subseteq DOMAIN trades
  BY DEF TypeOK
<1>1. \A i \in DOMAIN trades : i \in DOMAIN trades' /\ trades'[i] = trades[i]
  <2>1. trades \in Seq(EP!Trade)
    BY TradeFacts
  <2> QED
    BY <2>1
<1>2. \A how : With(how)' = With(how)
  BY DEF With
<1>3. ASSUME NEW o PROVE SettledBy(o)' = SettledBy(o)
  BY <1>0, <1>1 DEF SettledBy
<1>4. ASSUME NEW S \in SUBSET DOMAIN outcome
      PROVE  /\ SumFunctionOnSet(EP!Quantities', S) = SumFunctionOnSet(EP!Quantities, S)
             /\ SumFunctionOnSet(EP!Costs', S) = SumFunctionOnSet(EP!Costs, S)
  <2>1. IsFiniteSet(S)
    BY <1>0, TradeFacts, FS_Subset
  <2>2. \A i \in S : EP!Quantities[i] \in Int /\ EP!Costs[i] \in Int
    BY <1>0, TradeFacts
  <2>3. \A i \in S : EP!Quantities'[i] = EP!Quantities[i] /\ EP!Costs'[i] = EP!Costs[i]
    BY <1>0, <1>1 DEF EP!Quantities, EP!Costs
  <2> QED
    BY <2>1, <2>2, <2>3, SumSame
<1> QED
  BY <1>0, <1>1, <1>2, <1>3, <1>4

\* What is explained stays explained while nothing is settled and no money is
\* made or lost.
LEMMA ExplainedStays ==
  ASSUME EngineInv, TypeOK, Explained, outcome' = outcome,
         trades' = trades \/ \E t \in EP!Trade : trades' = Append(trades, t),
         \A a \in Assets : Supply(bal', a) = Supply(bal, a)
  PROVE  Explained'
<1>1. With("torn")' = With("torn") /\ With("torn") \in SUBSET DOMAIN outcome
  BY SumsStay DEF With
<1>2. /\ SumFunctionOnSet(EP!Quantities', With("torn")) = SumFunctionOnSet(EP!Quantities, With("torn"))
      /\ SumFunctionOnSet(EP!Costs', With("torn")) = SumFunctionOnSet(EP!Costs, With("torn"))
  BY <1>1, SumsStay
<1>3. /\ SumFunctionOnSet(EP!Quantities', With("torn")') = SumFunctionOnSet(EP!Quantities, With("torn"))
      /\ SumFunctionOnSet(EP!Costs', With("torn")') = SumFunctionOnSet(EP!Costs, With("torn"))
  BY <1>1, <1>2
<1>4. Supply(bal', BaseAsset) = Supply(bal, BaseAsset) /\ Supply(bal', QuoteAsset) = Supply(bal, QuoteAsset)
  BY ServiceAssumption
<1> QED
  BY <1>3, <1>4 DEF Explained

\* So do the charges.
LEMMA ChargeStays ==
  ASSUME EngineInv, EngineInv', TypeOK, outcome' = outcome,
         trades' = trades \/ \E t \in EP!Trade : trades' = Append(trades, t),
         NEW o \in OrderIds, ChargeOf(o), spent'[o] = spent[o], asked'[o] = asked[o],
         filled'[o] >= filled[o]
  PROVE  ChargeOf(o)'
<1>1. SettledBy(o)' = SettledBy(o) /\ SettledBy(o) \in SUBSET DOMAIN outcome
  BY SumsStay DEF SettledBy
<1>2. SumFunctionOnSet(EP!Costs', SettledBy(o)) = SumFunctionOnSet(EP!Costs, SettledBy(o))
  BY <1>1, SumsStay
<1>3. SumFunctionOnSet(EP!Costs', SettledBy(o)') = SumFunctionOnSet(EP!Costs, SettledBy(o))
  BY <1>1, <1>2
<1>4. filled[o] \in Int /\ filled'[o] \in Int /\ spent[o] \in Int
  BY DEF EngineInv, EP!IInv, EP!TypeOK, TypeOK
<1> QED
  BY <1>3, <1>4 DEF ChargeOf

\* Steps of the service leave the engine alone.
LEMMA Quiet ==
  ASSUME EngineInv, UNCHANGED engineVars
  PROVE  /\ EngineInv'
         /\ trades' = trades /\ status' = status /\ req' = req /\ filled' = filled
<1>1. UNCHANGED EP!vars
  BY DEF engineVars, EP!vars, EP!orderVars, EP!bookVars
<1>2. EngineInv'
  BY <1>1, EngineStep
<1> QED
  BY <1>2 DEF engineVars

\* unfreezeRemaining gives back no more than what was not charged, and makes no
\* money.
LEMMA Releases ==
  ASSUME TypeOK, NEW o \in OrderIds, asked[o] \in Requests, UnfreezeRemaining(o)
  PROVE  /\ frozenUnits' \in [OrderIds -> Nat]
         /\ \A x \in OrderIds \ {o} : frozenUnits'[x] = frozenUnits[x]
         /\ spent[o] <= frozenUnits[o] => spent[o] <= frozenUnits'[o]
         /\ bal' \in BalanceTypes
         /\ \A a \in Assets : Supply(bal', a) = Supply(bal, a)
<1> DEFINE rest == frozenUnits[o] - spent[o]
           a == FreezeAsset(asked[o])
<1>1. /\ frozenUnits \in [OrderIds -> Nat] /\ spent[o] \in Nat /\ frozenUnits[o] \in Nat
      /\ bal \in BalanceTypes
  BY DEF TypeOK
<1>2. rest \in Int /\ a \in Assets /\ Owner[o] \in Users
  BY <1>1, FreezeFacts, ServiceAssumption
<1>3. /\ frozenUnits' = [frozenUnits EXCEPT ![o] = IF rest > 0 THEN @ - rest ELSE @]
      /\ bal' = IF CanRelease(bal, Owner[o], a, rest)
                THEN AfterUnfreeze(bal, Owner[o], a, rest) ELSE bal
  BY DEF UnfreezeRemaining
<1>4. frozenUnits'[o] = IF rest > 0 THEN spent[o] ELSE frozenUnits[o]
  BY <1>1, <1>3
<1>5. frozenUnits' \in [OrderIds -> Nat] /\ \A x \in OrderIds \ {o} : frozenUnits'[x] = frozenUnits[x]
  <2>1. (IF rest > 0 THEN frozenUnits[o] - rest ELSE frozenUnits[o]) \in Nat
    BY <1>1
  <2> HIDE DEF rest
  <2> QED
    BY <1>1, <1>3, <2>1
<1>6. spent[o] <= frozenUnits[o] => spent[o] <= frozenUnits'[o]
  BY <1>1, <1>4
<1> HIDE DEF rest, a
<1>7. bal' \in BalanceTypes /\ \A x \in Assets : Supply(bal', x) = Supply(bal, x)
  <2>1. CASE CanRelease(bal, Owner[o], a, rest)
    <3>1. bal' = AfterUnfreeze(bal, Owner[o], a, rest)
      BY <1>3, <2>1
    <3> QED
      BY <1>1, <1>2, <2>1, <3>1, Moves
  <2>2. CASE ~CanRelease(bal, Owner[o], a, rest)
    BY <1>1, <1>3, <2>2
  <2> QED
    BY <2>1, <2>2
<1> QED
  BY <1>5, <1>6, <1>7

------------------------------------------------------------------------------
(***************************************************************************)
(* Every step keeps the invariant.                                         *)
(***************************************************************************)

\* Orders are placed: funds are frozen, or the order is refused.
LEMMA PlaceKeeps ==
  ASSUME ServiceInv, NEW o \in OrderIds, NEW r \in Requests, PlaceFrozen(o, r) \/ PlaceRefused(o, r)
  PROVE  ServiceInv'
<1>0. EngineInv /\ TypeOK /\ Stages /\ Charged /\ ChargedWithinFrozen /\ Explained
  BY DEF ServiceInv
<1>1. UNCHANGED engineVars /\ UNCHANGED <<spent, outcome, cancelPc>>
  BY DEF PlaceFrozen, PlaceRefused
<1>2. EngineInv' /\ trades' = trades /\ status' = status /\ req' = req /\ filled' = filled
  BY <1>0, <1>1, Quiet
<1>3. /\ pc[o] = "idle" /\ asked' = [asked EXCEPT ![o] = r]
      /\ frozenUnits' = [frozenUnits EXCEPT ![o] = FreezeAmount(r)]
      /\ \E x \in {"frozen", "refused"} : pc' = [pc EXCEPT ![o] = x]
  BY DEF PlaceFrozen, PlaceRefused
<1>4. FreezeAmount(r) \in Nat /\ FreezeAsset(r) \in Assets /\ Owner[o] \in Users /\ FreezeAmount(r) \in Int
  BY FreezeFacts, ServiceAssumption
<1>5. bal \in BalanceTypes
  BY <1>0 DEF TypeOK
<1>6. bal' \in BalanceTypes /\ \A a \in Assets : Supply(bal', a) = Supply(bal, a)
  <2>1. CASE PlaceFrozen(o, r)
    <3>1. /\ CanFreeze(bal, Owner[o], FreezeAsset(r), FreezeAmount(r))
          /\ bal' = AfterFreeze(bal, Owner[o], FreezeAsset(r), FreezeAmount(r))
      BY <2>1 DEF PlaceFrozen
    <3> QED
      BY <1>4, <1>5, <3>1, Moves
  <2>2. CASE PlaceRefused(o, r)
    BY <1>5, <2>2 DEF PlaceRefused
  <2> QED
    BY <2>1, <2>2
<1>7. TypeOK'
  <2>1. asked' \in [OrderIds -> Requests \cup {NoRequest}] /\ frozenUnits' \in [OrderIds -> Nat]
    BY <1>0, <1>3, <1>4 DEF TypeOK
  <2>2. pc' \in [OrderIds -> {"idle", "frozen", "submitted", "stored", "failed", "refused"}]
    BY <1>0, <1>3 DEF TypeOK
  <2> QED
    BY <1>0, <1>1, <1>2, <1>6, <2>1, <2>2 DEF TypeOK
<1>8. Explained'
  BY <1>0, <1>1, <1>2, <1>6, ExplainedStays
<1>9. ASSUME NEW x \in OrderIds, x # o
      PROVE  asked'[x] = asked[x] /\ pc'[x] = pc[x] /\ frozenUnits'[x] = frozenUnits[x]
  BY <1>0, <1>3, <1>9 DEF TypeOK
<1>10. asked'[o] = r /\ pc'[o] \in {"frozen", "refused"} /\ frozenUnits'[o] = FreezeAmount(r)
  BY <1>0, <1>3 DEF TypeOK
<1>11. Stages'
  <2>1. status[o] = "NONE" /\ spent[o] = 0 /\ cancelPc[o] = "idle"
    BY <1>0, <1>3 DEF Stages, StageOf
  <2>2. ASSUME NEW x \in OrderIds PROVE StageOf(x)'
    <3>1. CASE x = o
      <4>1. FreezeAmount(asked'[o]) = FreezeAmount(r)
        BY <1>10
      <4> QED
        BY <1>1, <1>2, <1>10, <2>1, <3>1, <4>1 DEF StageOf
    <3>2. CASE x # o
      BY <1>0, <1>1, <1>2, <1>9, <3>2 DEF Stages, StageOf, FreezeAmount
    <3> QED
      BY <3>1, <3>2
  <2> QED
    BY <2>2 DEF Stages
<1>12. Charged'
  <2> SUFFICES ASSUME NEW x \in OrderIds, pc'[x] = "submitted" PROVE ChargeOf(x)'
    BY DEF Charged
  <2>1. x # o /\ pc[x] = "submitted" /\ asked'[x] = asked[x]
    BY <1>9, <1>10
  <2>2. ChargeOf(x)
    BY <1>0, <2>1 DEF Charged
  <2>3. filled'[x] >= filled[x]
    BY <1>0, <1>2 DEF EngineInv, EP!IInv, EP!TypeOK
  <2> QED
    BY <1>0, <1>1, <1>2, <2>1, <2>2, <2>3, ChargeStays
<1>13. ChargedWithinFrozen'
  <2>1. spent[o] = 0
    BY <1>0, <1>3 DEF Stages, StageOf
  <2> QED
    BY <1>0, <1>1, <1>4, <1>9, <1>10, <2>1 DEF ChargedWithinFrozen
<1> QED
  BY <1>2, <1>7, <1>8, <1>11, <1>12, <1>13 DEF ServiceInv

\* The engine takes a step, with or without a goroutine that waits for it, and
\* nobody settles or releases anything.
LEMMA EngineMoves ==
  ASSUME ServiceInv, EP!Next, UNCHANGED <<asked, frozenUnits, spent, outcome, bal>>,
         pc' \in [OrderIds -> {"idle", "frozen", "submitted", "stored", "failed", "refused"}],
         cancelPc' \in [OrderIds -> {"idle", "canceled"}],
         \A o \in OrderIds : pc'[o] = "submitted" => ChargeOf(o),
         EngineInv' => Stages'
  PROVE  ServiceInv'
<1>0. EngineInv /\ TypeOK /\ Stages /\ Charged /\ ChargedWithinFrozen /\ Explained
  BY DEF ServiceInv
<1>1. /\ EngineInv'
      /\ trades' = trades \/ \E t \in EP!Trade : trades' = Append(trades, t)
      /\ \A o \in OrderIds : filled'[o] >= filled[o]
  BY <1>0, EngineStep
<1>2. TypeOK'
  <2>1. DOMAIN outcome' \subseteq DOMAIN trades'
    BY <1>0, <1>1, SumsStay
  <2> QED
    BY <1>0, <2>1 DEF TypeOK
<1>3. \A a \in Assets : Supply(bal', a) = Supply(bal, a)
  OBVIOUS
<1>4. Explained'
  BY <1>0, <1>1, <1>3, ExplainedStays
<1>5. Charged'
  <2> SUFFICES ASSUME NEW o \in OrderIds, pc'[o] = "submitted" PROVE ChargeOf(o)'
    BY DEF Charged
  <2>1. ChargeOf(o)
    OBVIOUS
  <2> QED
    BY <1>0, <1>1, <2>1, ChargeStays
<1>6. ChargedWithinFrozen'
  BY <1>0 DEF ChargedWithinFrozen
<1> QED
  BY <1>1, <1>2, <1>4, <1>5, <1>6 DEF ServiceInv

\* The engine takes the order of a goroutine: it has traded nothing yet.
LEMMA SubmitKeeps ==
  ASSUME ServiceInv, NEW o \in OrderIds, SubmitOrder(o)
  PROVE  ServiceInv'
<1>0. EngineInv /\ TypeOK /\ Stages /\ Charged
  BY DEF ServiceInv
<1>1. pc[o] = "frozen" /\ pc' = [pc EXCEPT ![o] = "submitted"]
  BY DEF SubmitOrder
<1>2. StageOf(o) /\ asked[o] \in Requests /\ status[o] = "NONE" /\ spent[o] = 0
  BY <1>0, <1>1 DEF Stages, StageOf
<1>3. EP!SubmitAccepted(o, asked[o]) \/ EP!SubmitRejected(o, asked[o])
  BY SameSubmit DEF SubmitOrder
<1>4. EP!Next
  <2>1. EP!Submit
    BY <1>2, <1>3 DEF EP!Submit
  <2> QED
    BY <2>1 DEF EP!Next
<1>5. \E x \in {"NEW", "REJECTED"} : status' = [status EXCEPT ![o] = x]
  BY <1>3 DEF EP!SubmitAccepted, EP!SubmitRejected
<1>6. req' = [req EXCEPT ![o] = asked[o]]
  BY <1>3 DEF EP!SubmitAccepted, EP!SubmitRejected, EP!Arrive
<1>7. UNCHANGED <<asked, frozenUnits, spent, outcome, cancelPc, bal>>
  BY DEF SubmitOrder
<1>8. /\ status \in [OrderIds -> {"NONE", "NEW", "PARTIALLY_FILLED", "FILLED",
                                  "CANCELED", "REJECTED", "EXPIRED"}]
      /\ req \in [OrderIds -> Requests \cup {NoRequest}]
      /\ pc \in [OrderIds -> {"idle", "frozen", "submitted", "stored", "failed", "refused"}]
      /\ cancelPc \in [OrderIds -> {"idle", "canceled"}]
  BY <1>0 DEF EngineInv, EP!IInv, EP!TypeOK, TypeOK
<1>9. ASSUME NEW x \in OrderIds, x # o
      PROVE  status'[x] = status[x] /\ req'[x] = req[x] /\ pc'[x] = pc[x]
  BY <1>1, <1>5, <1>6, <1>8, <1>9
<1>10. status'[o] # "NONE" /\ req'[o] = asked[o] /\ pc'[o] = "submitted"
  BY <1>1, <1>5, <1>6, <1>8
<1>11. Stages'
  <2> SUFFICES ASSUME NEW x \in OrderIds PROVE StageOf(x)'
    BY DEF Stages
  <2>1. CASE x = o
    <3>1. FreezeAmount(asked'[o]) = FreezeAmount(asked[o])
      BY <1>7
    <3> QED
      BY <1>1, <1>2, <1>7, <1>10, <2>1, <3>1 DEF StageOf
  <2>2. CASE x # o
    <3>1. FreezeAmount(asked'[x]) = FreezeAmount(asked[x]) /\ StageOf(x)
      BY <1>0, <1>7 DEF Stages
    <3> QED
      BY <1>7, <1>9, <2>2, <3>1 DEF StageOf
  <2> QED
    BY <2>1, <2>2
<1>12. ChargeOf(o)
  <2>1. SettledBy(o) = {}
    <3>1. \A i \in DOMAIN trades : trades[i].taker # o
      BY <1>0, <1>2 DEF EngineInv, EP!IInv, EP!TradesSound
    <3> QED
      BY <1>0, <3>1 DEF SettledBy, TypeOK
  <2>2. SumFunctionOnSet(EP!Costs, SettledBy(o)) = 0
    BY <2>1, SumEmpty
  <2>3. filled[o] \in Nat
    BY <1>0 DEF EngineInv, EP!IInv, EP!TypeOK
  <2> QED
    BY <1>2, <2>2, <2>3 DEF ChargeOf
<1>13. ASSUME NEW x \in OrderIds, pc'[x] = "submitted" PROVE ChargeOf(x)
  BY <1>0, <1>9, <1>12, <1>13 DEF Charged
<1>14. pc' \in [OrderIds -> {"idle", "frozen", "submitted", "stored", "failed", "refused"}]
  BY <1>1, <1>8
<1> QED
  BY <1>4, <1>7, <1>8, <1>11, <1>13, <1>14, EngineMoves

\* While the engine works or cancels, no order is submitted, and those that are
\* stay what they are.
LEMMA StagesStay ==
  ASSUME EngineInv, EP!Work \/ \E a \in OrderIds : EP!Cancel(a),
         UNCHANGED <<asked, frozenUnits, spent>>,
         NEW x \in OrderIds, StageOf(x), pc'[x] = pc[x],
         cancelPc'[x] = cancelPc[x] \/ pc[x] \in {"stored", "failed"}
  PROVE  StageOf(x)'
<1>1. status[x] = "NONE" => status'[x] = "NONE"
  BY EP!OnlySubmitStarts, EngineHyp, BaseAssumption DEF EngineInv
<1>2. EP!Next
  BY DEF EP!Next
<1>3. status[x] # "NONE" => status'[x] # "NONE" /\ req'[x] = req[x]
  BY <1>2, EngineStep
<1>4. FreezeAmount(asked'[x]) = FreezeAmount(asked[x])
  OBVIOUS
<1> QED
  BY <1>1, <1>3, <1>4 DEF StageOf

\* The engine fills orders and ends submissions.
LEMMA WorkKeeps == ASSUME ServiceInv, EngineWorks PROVE ServiceInv'
<1>0. EngineInv /\ TypeOK /\ Stages /\ Charged
  BY DEF ServiceInv
<1>1. EP!Work /\ UNCHANGED <<asked, pc, frozenUnits, spent, outcome, cancelPc, bal>>
  BY SameWork DEF EngineWorks, serviceVars
<1>2. EP!Next
  BY <1>1 DEF EP!Next
<1>3. Stages'
  <2> SUFFICES ASSUME NEW x \in OrderIds PROVE StageOf(x)'
    BY DEF Stages
  <2>1. StageOf(x) /\ pc'[x] = pc[x] /\ cancelPc'[x] = cancelPc[x]
    BY <1>0, <1>1 DEF Stages
  <2> QED
    BY <1>0, <1>1, <2>1, StagesStay
<1>4. \A x \in OrderIds : pc'[x] = "submitted" => ChargeOf(x)
  BY <1>0, <1>1 DEF Charged
<1>5. /\ pc' \in [OrderIds -> {"idle", "frozen", "submitted", "stored", "failed", "refused"}]
      /\ cancelPc' \in [OrderIds -> {"idle", "canceled"}]
  BY <1>0, <1>1 DEF TypeOK
<1> QED
  BY <1>1, <1>2, <1>3, <1>4, <1>5, EngineMoves

\* The engine cancels a stored order.
LEMMA CancelKeeps ==
  ASSUME ServiceInv, NEW o \in OrderIds, CancelInEngine(o)
  PROVE  ServiceInv'
<1>0. EngineInv /\ TypeOK /\ Stages /\ Charged
  BY DEF ServiceInv
<1>1. /\ pc[o] \in {"stored", "failed"} /\ cancelPc' = [cancelPc EXCEPT ![o] = "canceled"]
      /\ UNCHANGED <<asked, pc, frozenUnits, spent, outcome, bal>>
  BY DEF CancelInEngine
<1>2. EP!Cancel(o)
  BY SameCancel DEF CancelInEngine
<1>3. EP!Next
  BY <1>2 DEF EP!Next
<1>4. cancelPc \in [OrderIds -> {"idle", "canceled"}]
  BY <1>0 DEF TypeOK
<1>5. Stages'
  <2> SUFFICES ASSUME NEW x \in OrderIds PROVE StageOf(x)'
    BY DEF Stages
  <2>1. StageOf(x) /\ pc'[x] = pc[x]
    BY <1>0, <1>1 DEF Stages
  <2>2. cancelPc'[x] = cancelPc[x] \/ pc[x] \in {"stored", "failed"}
    BY <1>1, <1>4
  <2> QED
    BY <1>0, <1>1, <1>2, <2>1, <2>2, StagesStay
<1>6. \A x \in OrderIds : pc'[x] = "submitted" => ChargeOf(x)
  BY <1>0, <1>1 DEF Charged
<1>7. /\ pc' \in [OrderIds -> {"idle", "frozen", "submitted", "stored", "failed", "refused"}]
      /\ cancelPc' \in [OrderIds -> {"idle", "canceled"}]
  BY <1>0, <1>1, <1>4 DEF TypeOK
<1> QED
  BY <1>1, <1>3, <1>5, <1>6, <1>7, EngineMoves

\* A goroutine ends, or a cancellation does, and may give back what is left.
LEMMA ReleaseKeeps ==
  ASSUME ServiceInv, NEW o \in OrderIds, FinishPlace(o) \/ UnfreezeCanceled(o)
  PROVE  ServiceInv'
<1>0. EngineInv /\ TypeOK /\ Stages /\ Charged /\ ChargedWithinFrozen /\ Explained
  BY DEF ServiceInv
<1>1. /\ UNCHANGED engineVars /\ UNCHANGED <<asked, spent, outcome>>
      /\ UnfreezeRemaining(o) \/ UNCHANGED <<frozenUnits, bal>>
  BY DEF FinishPlace, UnfreezeCanceled
<1>2. EngineInv' /\ trades' = trades /\ status' = status /\ req' = req /\ filled' = filled
  BY <1>0, <1>1, Quiet
<1>3. StageOf(o)
  BY <1>0 DEF Stages
<1>4. /\ pc' \in [OrderIds -> {"idle", "frozen", "submitted", "stored", "failed", "refused"}]
      /\ cancelPc' \in [OrderIds -> {"idle", "canceled"}]
      /\ \A x \in OrderIds \ {o} : pc'[x] = pc[x] /\ cancelPc'[x] = cancelPc[x]
      /\ pc[o] \in {"submitted", "stored", "failed"} /\ pc'[o] \in {"stored", "failed"}
  <2>1. /\ pc \in [OrderIds -> {"idle", "frozen", "submitted", "stored", "failed", "refused"}]
        /\ cancelPc \in [OrderIds -> {"idle", "canceled"}]
    BY <1>0 DEF TypeOK
  <2>2. CASE FinishPlace(o)
    <3>1. pc[o] = "submitted" /\ pc' = [pc EXCEPT ![o] = "stored"] /\ cancelPc' = cancelPc
      BY <2>2 DEF FinishPlace, Returned
    <3> QED
      BY <2>1, <3>1
  <2>3. CASE UnfreezeCanceled(o)
    <3>1. cancelPc[o] = "canceled" /\ cancelPc' = [cancelPc EXCEPT ![o] = "idle"] /\ pc' = pc
      BY <2>3 DEF UnfreezeCanceled
    <3>2. pc[o] \in {"stored", "failed"}
      BY <1>3, <3>1 DEF StageOf
    <3> QED
      BY <2>1, <3>1, <3>2
  <2> QED
    BY <2>2, <2>3
<1>5. asked[o] \in Requests
  BY <1>3, <1>4 DEF StageOf
<1>6. /\ frozenUnits' \in [OrderIds -> Nat]
      /\ \A x \in OrderIds \ {o} : frozenUnits'[x] = frozenUnits[x]
      /\ spent[o] <= frozenUnits[o] => spent[o] <= frozenUnits'[o]
      /\ bal' \in BalanceTypes
      /\ \A a \in Assets : Supply(bal', a) = Supply(bal, a)
  <2>1. CASE UnfreezeRemaining(o)
    BY <1>0, <1>5, <2>1, Releases
  <2>2. CASE UNCHANGED <<frozenUnits, bal>>
    BY <1>0, <2>2 DEF TypeOK
  <2> QED
    BY <1>1, <2>1, <2>2
<1>7. TypeOK'
  BY <1>0, <1>1, <1>2, <1>4, <1>6 DEF TypeOK
<1>8. Explained'
  BY <1>0, <1>1, <1>2, <1>6, ExplainedStays
<1>9. Stages'
  <2> SUFFICES ASSUME NEW x \in OrderIds PROVE StageOf(x)'
    BY DEF Stages
  <2>1. CASE x = o
    <3>1. status[o] # "NONE" /\ req[o] = asked[o]
      BY <1>3, <1>4 DEF StageOf
    <3> QED
      BY <1>1, <1>2, <1>4, <1>5, <2>1, <3>1 DEF StageOf
  <2>2. CASE x # o
    <3>1. FreezeAmount(asked'[x]) = FreezeAmount(asked[x]) /\ StageOf(x)
      BY <1>0, <1>1 DEF Stages
    <3> QED
      BY <1>1, <1>2, <1>4, <1>6, <2>2, <3>1 DEF StageOf
  <2> QED
    BY <2>1, <2>2
<1>10. Charged'
  <2> SUFFICES ASSUME NEW x \in OrderIds, pc'[x] = "submitted" PROVE ChargeOf(x)'
    BY DEF Charged
  <2>1. pc[x] = "submitted"
    BY <1>4
  <2>2. ChargeOf(x)
    BY <1>0, <2>1 DEF Charged
  <2>3. filled[x] \in Nat
    BY <1>0 DEF EngineInv, EP!IInv, EP!TypeOK
  <2>4. filled'[x] >= filled[x]
    BY <1>2, <2>3
  <2> QED
    BY <1>0, <1>1, <1>2, <2>2, <2>4, ChargeStays
<1>11. ChargedWithinFrozen'
  BY <1>0, <1>1, <1>6 DEF ChargedWithinFrozen
<1> QED
  BY <1>2, <1>7, <1>8, <1>9, <1>10, <1>11 DEF ServiceInv

\* A finite set of integers has a minimum.
LEMMA MinIn == ASSUME NEW S, IsFiniteSet(S), S \subseteq Int, S # {} PROVE Min(S) \in S
<1>1. PICK m \in S : \A q \in S \ {m} : m < q
  BY FiniteHasEnds
<1>2. \A q \in S : m <= q
  BY <1>1
<1> QED
  BY <1>1, <1>2 DEF Min

\* All the trades of a buyer have cost no more than was to be frozen.
LEMMA BuyWithin ==
  ASSUME EngineInv, TypeOK, NEW o \in OrderIds, status[o] # "NONE", req[o] = asked[o],
         asked[o].side = "BUY"
  PROVE  SumFunctionOnSet(EP!Costs, EP!OwnTrades(o)) <= FreezeAmount(asked[o])
<1>1. EP!SumFunctionOnSet(EP!Costs, EP!OwnTrades(o)) <=
        IF EP!IsMarketBuy(o) THEN req[o].quote ELSE EP!PriceQtyToQuote(req[o].price, req[o].qty)
  BY EP!BuyersPayWithin, EngineHyp, BaseAssumption DEF EngineInv
<1>2. SumFunctionOnSet(EP!Costs, EP!OwnTrades(o)) <=
        IF EP!IsMarketBuy(o) THEN req[o].quote ELSE PriceQtyToQuote(req[o].price, req[o].qty)
  BY <1>1, SameTerms
<1>3. FreezeAmount(asked[o]) =
        IF EP!IsMarketBuy(o) THEN req[o].quote ELSE PriceQtyToQuote(req[o].price, req[o].qty)
  BY DEF FreezeAmount, EP!IsMarketBuy
<1> QED
  BY <1>2, <1>3

\* No buyer has been charged for more trades than there are, and those have
\* cost no more than was frozen.
LEMMA ChargeBound ==
  ASSUME EngineInv, TypeOK, NEW o \in OrderIds, status[o] # "NONE", req[o] = asked[o],
         asked[o].side = "BUY",
         NEW S, S \subseteq {i \in DOMAIN trades : trades[i].taker = o}
  PROVE  SumFunctionOnSet(EP!Costs, S) <= FreezeAmount(asked[o])
<1> DEFINE T == EP!OwnTrades(o)
<1>1. S \subseteq T /\ T \subseteq DOMAIN trades
  BY DEF EP!OwnTrades
<1>2. IsFiniteSet(T) /\ \A i \in T : EP!Costs[i] \in Nat
  BY <1>1, TradeFacts, FS_Subset
<1>3. SumFunctionOnSet(EP!Costs, T) <= FreezeAmount(asked[o])
  BY BuyWithin
<1> HIDE DEF T
<1>4. SumFunctionOnSet(EP!Costs, S) <= SumFunctionOnSet(EP!Costs, T)
  <2>1. \A i \in S : EP!Costs[i] \in Int /\ EP!Costs[i] <= EP!Costs[i]
    BY <1>1, <1>2
  <2> QED
    BY <1>1, <1>2, <2>1, SumWithin
<1>5. IsFiniteSet(S) /\ SumFunctionOnSet(EP!Costs, S) \in Int /\ SumFunctionOnSet(EP!Costs, T) \in Int
  BY <1>1, <1>2, FS_Subset, SumType
<1>6. asked[o] \in Requests
  BY DEF EngineInv, EP!IInv, EP!Accounting
<1>7. FreezeAmount(asked[o]) \in Nat
  BY <1>6, FreezeFacts
<1> QED
  BY <1>3, <1>4, <1>5, <1>7

\* One trade is settled.  The engine does not move, so that what the buyer is
\* charged for is still among the order's trades, and a sell order is charged
\* what the engine says it was filled.
LEMMA SettleKeeps ==
  ASSUME ServiceInv, NEW o \in OrderIds, SettleNext(o)
  PROVE  ServiceInv'
<1>0. EngineInv /\ TypeOK /\ Stages /\ Charged /\ ChargedWithinFrozen /\ Explained
  BY DEF ServiceInv
<1> DEFINE j == Min(Unsettled(o))
<1>1. /\ j \in DOMAIN trades /\ trades[j].taker = o /\ j \notin DOMAIN outcome
  <2>1. Unsettled(o) # {} /\ Unsettled(o) \subseteq DOMAIN trades
    BY DEF SettleNext, Unsettled
  <2>2. IsFiniteSet(DOMAIN trades) /\ DOMAIN trades \subseteq Int
    BY <1>0, TradeFacts
  <2>3. IsFiniteSet(Unsettled(o)) /\ Unsettled(o) \subseteq Int
    BY <2>1, <2>2, FS_Subset
  <2>4. j \in Unsettled(o)
    BY <2>1, <2>3, MinIn
  <2> HIDE DEF j
  <2> QED
    BY <2>4 DEF Unsettled
<1>2. PICK i \in DOMAIN trades : i = j
  BY <1>1
<1> DEFINE tr     == trades[i]
           cost   == PriceQtyToQuote(tr.price, tr.qty)
           buyer  == Owner[Buyer(tr)]
           seller == Owner[Seller(tr)]
           how    == SettleOutcome(bal, buyer, seller, BaseAsset, QuoteAsset, tr.qty, cost)
<1>3. /\ pc[o] = "submitted"
      /\ bal' = AfterSettle(bal, buyer, seller, BaseAsset, QuoteAsset, tr.qty, cost)
      /\ outcome' = [k \in DOMAIN outcome \cup {i} |-> IF k = i THEN how ELSE outcome[k]]
      /\ \/ /\ how = "done"
            /\ spent' = [spent EXCEPT ![o] = IF asked[o].side = "BUY" THEN @ + cost ELSE filled[o]]
            /\ UNCHANGED pc
         \/ how # "done" /\ pc' = [pc EXCEPT ![o] = "failed"] /\ UNCHANGED spent
      /\ UNCHANGED <<asked, frozenUnits, cancelPc>> /\ UNCHANGED engineVars
  BY <1>2 DEF SettleNext, Returned, Charge
<1>4. /\ tr.taker = o /\ i \notin DOMAIN outcome
      /\ tr.maker \in OrderIds /\ tr.taker \in OrderIds /\ tr.qty \in Nat /\ cost \in Nat
      /\ EP!Quantities[i] = tr.qty /\ EP!Costs[i] = cost
  BY <1>0, <1>1, <1>2, TradeFacts
<1>5. buyer \in Users /\ seller \in Users
  BY <1>4, ServiceAssumption DEF Buyer, Seller
<1>6. /\ bal \in BalanceTypes /\ spent \in [OrderIds -> Nat] /\ filled \in [OrderIds -> Nat]
      /\ pc \in [OrderIds -> {"idle", "frozen", "submitted", "stored", "failed", "refused"}]
      /\ DOMAIN outcome \subseteq DOMAIN trades
  BY <1>0 DEF TypeOK, EngineInv, EP!IInv, EP!TypeOK
<1>7. PICK qty \in Nat : qty = tr.qty
  BY <1>4
<1>8. PICK c \in Nat : c = cost
  BY <1>4
<1>9. PICK h : h = how
  OBVIOUS
<1>10. /\ bal' \in BalanceTypes /\ h \in {"done", "torn", "refused"}
       /\ Supply(bal', BaseAsset) = Supply(bal, BaseAsset) + IF h = "torn" THEN qty ELSE 0
       /\ Supply(bal', QuoteAsset) = Supply(bal, QuoteAsset) - IF h = "torn" THEN c ELSE 0
  <2> HIDE DEF buyer, seller, tr
  <2> QED
    BY <1>3, <1>5, <1>6, <1>7, <1>8, <1>9, Settles
<1>11. /\ outcome' = [k \in DOMAIN outcome \cup {i} |-> IF k = i THEN h ELSE outcome[k]]
       /\ \/ /\ h = "done"
             /\ spent' = [spent EXCEPT ![o] = IF asked[o].side = "BUY" THEN @ + c ELSE filled[o]]
             /\ UNCHANGED pc
          \/ h # "done" /\ pc' = [pc EXCEPT ![o] = "failed"] /\ UNCHANGED spent
  BY <1>3, <1>8, <1>9
<1>12. EP!Quantities[i] = qty /\ EP!Costs[i] = c /\ trades[i].taker = o /\ i \notin DOMAIN outcome
  BY <1>4, <1>7, <1>8
<1> HIDE DEF j, tr, cost, buyer, seller, how
<1>13. EngineInv' /\ trades' = trades /\ status' = status /\ req' = req /\ filled' = filled
  BY <1>0, <1>3, Quiet
<1>14. EP!Quantities' = EP!Quantities /\ EP!Costs' = EP!Costs
  BY <1>13 DEF EP!Quantities, EP!Costs
<1>15. StageOf(o) /\ asked[o] \in Requests /\ status[o] # "NONE" /\ req[o] = asked[o]
       /\ frozenUnits[o] = FreezeAmount(asked[o]) /\ cancelPc[o] = "idle"
  BY <1>0, <1>3 DEF Stages, StageOf
<1>16. \A x \in OrderIds \ {o} : pc'[x] = pc[x] /\ spent'[x] = spent[x]
  BY <1>6, <1>11
<1>17. \/ /\ h = "done" /\ pc'[o] = "submitted"
          /\ spent'[o] = IF asked[o].side = "BUY" THEN spent[o] + c ELSE filled[o]
       \/ h # "done" /\ pc'[o] = "failed" /\ spent'[o] = spent[o]
  BY <1>3, <1>6, <1>11
<1>18. spent' \in [OrderIds -> Nat]
  <2>1. (IF asked[o].side = "BUY" THEN spent[o] + c ELSE filled[o]) \in Nat
    BY <1>6
  <2> QED
    BY <1>6, <1>11, <2>1
<1>19. DOMAIN outcome' = DOMAIN outcome \cup {i} /\ outcome'[i] = h
       /\ \A k \in DOMAIN outcome : outcome'[k] = outcome[k]
  BY <1>11, <1>12
<1>20. TypeOK'
  <2>1. pc' \in [OrderIds -> {"idle", "frozen", "submitted", "stored", "failed", "refused"}]
    BY <1>6, <1>11
  <2>2. DOMAIN outcome' \subseteq DOMAIN trades'
    BY <1>6, <1>13, <1>19
  <2>3. /\ asked' \in [OrderIds -> Requests \cup {NoRequest}] /\ frozenUnits' \in [OrderIds -> Nat]
        /\ cancelPc' \in [OrderIds -> {"idle", "canceled"}]
    BY <1>0, <1>3 DEF TypeOK
  <2> QED
    BY <1>10, <1>18, <2>1, <2>2, <2>3 DEF TypeOK
<1>21. Stages'
  <2> SUFFICES ASSUME NEW x \in OrderIds PROVE StageOf(x)'
    BY DEF Stages
  <2>1. FreezeAmount(asked'[x]) = FreezeAmount(asked[x]) /\ StageOf(x)
    BY <1>0, <1>3 DEF Stages
  <2>2. CASE x = o
    BY <1>3, <1>13, <1>15, <1>17, <2>1, <2>2 DEF StageOf
  <2>3. CASE x # o
    BY <1>3, <1>13, <1>16, <2>1, <2>3 DEF StageOf
  <2> QED
    BY <2>2, <2>3
<1>22. IsFiniteSet(DOMAIN outcome) /\ \A k \in DOMAIN outcome \cup {i} :
         EP!Quantities[k] \in Int /\ EP!Costs[k] \in Int
  BY <1>0, <1>6, TradeFacts, FS_Subset
<1>23. Explained'
  <2>1. With("torn")' = With("torn") \cup IF h = "torn" THEN {i} ELSE {}
    BY <1>12, <1>19 DEF With
  <2>2. IsFiniteSet(With("torn")) /\ With("torn") \subseteq DOMAIN outcome /\ i \notin With("torn")
    BY <1>12, <1>22, FS_Subset DEF With
  <2>3. /\ SumFunctionOnSet(EP!Quantities, With("torn")) \in Int
        /\ SumFunctionOnSet(EP!Costs, With("torn")) \in Int
    BY <1>22, <2>2, SumType
  <2>4. /\ SumFunctionOnSet(EP!Quantities, With("torn") \cup {i})
             = SumFunctionOnSet(EP!Quantities, With("torn")) + qty
        /\ SumFunctionOnSet(EP!Costs, With("torn") \cup {i})
             = SumFunctionOnSet(EP!Costs, With("torn")) + c
    <3>1. /\ \A k \in With("torn") \cup {i} : EP!Quantities[k] \in Int
          /\ \A k \in With("torn") \cup {i} : EP!Costs[k] \in Int
      BY <1>22, <2>2
    <3>2. /\ SumFunctionOnSet(EP!Quantities, With("torn") \cup {i})
               = SumFunctionOnSet(EP!Quantities, With("torn")) + EP!Quantities[i]
          /\ SumFunctionOnSet(EP!Costs, With("torn") \cup {i})
               = SumFunctionOnSet(EP!Costs, With("torn")) + EP!Costs[i]
      BY <2>2, <3>1, SumInsert
    <3> QED
      BY <1>12, <3>2
  <2>5. Supply(Deposits, BaseAsset) \in Int /\ Supply(Deposits, QuoteAsset) \in Int
    BY ServiceAssumption, SupplyInt
  <2>6. /\ Supply(bal, BaseAsset) = Supply(Deposits, BaseAsset)
             + SumFunctionOnSet(EP!Quantities, With("torn"))
        /\ Supply(bal, QuoteAsset) = Supply(Deposits, QuoteAsset)
             - SumFunctionOnSet(EP!Costs, With("torn"))
    BY <1>0 DEF Explained
  <2>7. /\ Supply(bal', BaseAsset) = Supply(Deposits, BaseAsset)
             + SumFunctionOnSet(EP!Quantities, With("torn")')
        /\ Supply(bal', QuoteAsset) = Supply(Deposits, QuoteAsset)
             - SumFunctionOnSet(EP!Costs, With("torn")')
    <3>1. CASE h = "torn"
      <4>1. With("torn")' = With("torn") \cup {i}
        BY <2>1, <3>1
      <4>2. /\ Supply(bal', BaseAsset) = Supply(bal, BaseAsset) + qty
            /\ Supply(bal', QuoteAsset) = Supply(bal, QuoteAsset) - c
        BY <1>10, <3>1
      <4>3. /\ SumFunctionOnSet(EP!Quantities, With("torn")')
                 = SumFunctionOnSet(EP!Quantities, With("torn")) + qty
            /\ SumFunctionOnSet(EP!Costs, With("torn")')
                 = SumFunctionOnSet(EP!Costs, With("torn")) + c
        BY <2>4, <4>1
      <4> QED
        BY <2>3, <2>5, <2>6, <4>2, <4>3
    <3>2. CASE h # "torn"
      <4>1. With("torn")' = With("torn")
        BY <2>1, <3>2
      <4> QED
        BY <1>10, <2>3, <2>5, <2>6, <3>2, <4>1
    <3> QED
      BY <3>1, <3>2
  <2> QED
    BY <1>14, <2>7 DEF Explained
<1>24. ASSUME NEW x \in OrderIds, x # o PROVE SettledBy(x)' = SettledBy(x)
  BY <1>12, <1>13, <1>19, <1>24 DEF SettledBy
<1>25. ASSUME h = "done", asked[o].side = "BUY"
       PROVE  /\ spent'[o] = SumFunctionOnSet(EP!Costs, SettledBy(o)')
              /\ SettledBy(o)' \subseteq {k \in DOMAIN trades : trades[k].taker = o}
  <2>1. SettledBy(o)' = SettledBy(o) \cup {i}
    BY <1>12, <1>13, <1>19, <1>25 DEF SettledBy
  <2>2. IsFiniteSet(SettledBy(o)) /\ SettledBy(o) \subseteq DOMAIN outcome /\ i \notin SettledBy(o)
    BY <1>12, <1>22, FS_Subset DEF SettledBy
  <2>3. SumFunctionOnSet(EP!Costs, SettledBy(o) \cup {i})
          = SumFunctionOnSet(EP!Costs, SettledBy(o)) + EP!Costs[i]
    <3>1. \A k \in SettledBy(o) \cup {i} : EP!Costs[k] \in Int
      BY <1>22, <2>2
    <3> QED
      BY <2>2, <3>1, SumInsert
  <2>4. spent[o] = SumFunctionOnSet(EP!Costs, SettledBy(o))
    BY <1>0, <1>3, <1>25 DEF Charged, ChargeOf
  <2>5. SettledBy(o)' \subseteq {k \in DOMAIN trades : trades[k].taker = o}
    BY <1>6, <1>12, <2>1 DEF SettledBy
  <2> QED
    BY <1>12, <1>17, <1>25, <2>1, <2>3, <2>4, <2>5
<1>26. Charged'
  <2> SUFFICES ASSUME NEW x \in OrderIds, pc'[x] = "submitted" PROVE ChargeOf(x)'
    BY DEF Charged
  <2>1. CASE x = o
    <3>1. h = "done" /\ spent'[o] = IF asked[o].side = "BUY" THEN spent[o] + c ELSE filled[o]
      BY <1>17, <2>1
    <3>2. CASE asked[o].side = "BUY"
      BY <1>3, <1>14, <1>25, <2>1, <3>1, <3>2 DEF ChargeOf
    <3>3. CASE asked[o].side # "BUY"
      <4>1. spent'[o] <= filled'[o]
        BY <1>6, <1>13, <3>1, <3>3
      <4> QED
        BY <1>3, <2>1, <3>3, <4>1 DEF ChargeOf
    <3> QED
      BY <3>2, <3>3
  <2>2. CASE x # o
    <3>1. ChargeOf(x)
      BY <1>0, <1>16, <2>2 DEF Charged
    <3> QED
      BY <1>3, <1>13, <1>14, <1>16, <1>24, <2>2, <3>1 DEF ChargeOf
  <2> QED
    BY <2>1, <2>2
<1>27. ChargedWithinFrozen'
  <2> SUFFICES ASSUME NEW x \in OrderIds PROVE spent'[x] <= frozenUnits'[x]
    BY DEF ChargedWithinFrozen
  <2>1. spent[x] <= frozenUnits[x] /\ frozenUnits' = frozenUnits
    BY <1>0, <1>3 DEF ChargedWithinFrozen
  <2>2. CASE x # o \/ h # "done"
    BY <1>16, <1>17, <2>1, <2>2
  <2>3. CASE x = o /\ h = "done" /\ asked[o].side = "BUY"
    <3>1. PICK S : S = SettledBy(o)'
      OBVIOUS
    <3>2. SumFunctionOnSet(EP!Costs, S) <= FreezeAmount(asked[o])
      BY <1>0, <1>15, <1>25, <2>3, <3>1, ChargeBound
    <3> QED
      BY <1>15, <1>25, <2>1, <2>3, <3>1, <3>2
  <2>4. CASE x = o /\ h = "done" /\ asked[o].side # "BUY"
    <3>1. asked[o].side = "SELL" /\ FreezeAmount(asked[o]) = asked[o].qty /\ asked[o].qty \in Nat
      BY <1>15, <2>4, FreezeFacts DEF FreezeAmount
    <3>2. filled[o] <= req[o].qty
      <4>1. rem[o] = req[o].qty - filled[o] /\ rem[o] >= 0
        BY <1>0, <1>15, <3>1 DEF EngineInv, EP!IInv, EP!Accounting, EP!IsMarketBuy
      <4> QED
        BY <1>6, <1>15, <3>1, <4>1
    <3> QED
      BY <1>15, <1>17, <2>1, <2>4, <3>1, <3>2
  <2> QED
    BY <2>2, <2>3, <2>4
<1> QED
  BY <1>13, <1>20, <1>21, <1>23, <1>26, <1>27 DEF ServiceInv

\* Every step keeps the invariant.
LEMMA NextInv == ServiceInv /\ [Next]_vars => ServiceInv'
<1> SUFFICES ASSUME ServiceInv, [Next]_vars PROVE ServiceInv'
  OBVIOUS
<1>1. CASE EngineWorks
  BY <1>1, WorkKeeps
<1>2. ASSUME NEW o \in OrderIds, Place(o) PROVE ServiceInv'
  BY <1>2, PlaceKeeps DEF Place
<1>3. ASSUME NEW o \in OrderIds, SubmitOrder(o) PROVE ServiceInv'
  BY <1>3, SubmitKeeps
<1>4. ASSUME NEW o \in OrderIds, Proceed(o) PROVE ServiceInv'
  BY <1>4, SettleKeeps, ReleaseKeeps DEF Proceed
<1>5. ASSUME NEW o \in OrderIds, CancelInEngine(o) PROVE ServiceInv'
  BY <1>5, CancelKeeps
<1>6. CASE UNCHANGED vars
  <2>0. EngineInv /\ TypeOK /\ Stages /\ Charged /\ ChargedWithinFrozen /\ Explained
    BY DEF ServiceInv
  <2>1. UNCHANGED engineVars /\ UNCHANGED <<asked, pc, frozenUnits, spent, outcome, cancelPc, bal>>
    BY <1>6 DEF vars, serviceVars
  <2>2. EngineInv' /\ trades' = trades /\ status' = status /\ req' = req /\ filled' = filled
    BY <2>0, <2>1, Quiet
  <2>3. TypeOK'
    BY <2>0, <2>1, <2>2 DEF TypeOK
  <2>4. Explained'
    BY <2>0, <2>1, <2>2, ExplainedStays
  <2>5. Stages'
    BY <2>0, <2>1, <2>2 DEF Stages, StageOf, FreezeAmount
  <2>6. ChargedWithinFrozen'
    BY <2>0, <2>1 DEF ChargedWithinFrozen
  <2>7. EP!Costs' = EP!Costs
    BY <2>2 DEF EP!Costs
  <2>8. Charged'
    BY <2>0, <2>1, <2>2, <2>7 DEF Charged, ChargeOf, SettledBy
  <2> QED
    BY <2>2, <2>3, <2>4, <2>5, <2>6, <2>8 DEF ServiceInv
<1> QED
  BY <1>1, <1>2, <1>3, <1>4, <1>5, <1>6 DEF Next

\* It holds at the start.
LEMMA InitInv == Init => ServiceInv
<1> SUFFICES ASSUME Init PROVE ServiceInv
  OBVIOUS
<1>1. EP!Init
  BY SameInit DEF Init
<1>2. EP!IInv
  BY <1>1, EP!InitInv, EngineHyp, BaseAssumption
<1>3. EP!TradesTold
  BY <1>1, EP!InitTold, EngineHyp, BaseAssumption
<1>4. /\ status = [o \in OrderIds |-> "NONE"] /\ trades = <<>>
      /\ asked = [o \in OrderIds |-> NoRequest] /\ pc = [o \in OrderIds |-> "idle"]
      /\ frozenUnits = [o \in OrderIds |-> 0] /\ spent = [o \in OrderIds |-> 0]
      /\ outcome = <<>> /\ cancelPc = [o \in OrderIds |-> "idle"] /\ bal = Deposits
  BY <1>1 DEF Init, EP!Init
<1>5. EP!BuysCovered
  BY <1>4 DEF EP!BuysCovered
<1>6. TypeOK
  BY <1>4, ServiceAssumption DEF TypeOK
<1>7. Stages /\ Charged /\ ChargedWithinFrozen
  BY <1>4 DEF Stages, StageOf, Charged, ChargedWithinFrozen
<1>8. Explained
  <2>1. With("torn") = {}
    BY <1>4 DEF With
  <2>2. /\ SumFunctionOnSet(EP!Quantities, With("torn")) = 0
        /\ SumFunctionOnSet(EP!Costs, With("torn")) = 0
    BY <2>1, SumEmpty
  <2>3. Supply(Deposits, BaseAsset) \in Int /\ Supply(Deposits, QuoteAsset) \in Int
    BY ServiceAssumption, SupplyInt
  <2> QED
    BY <1>4, <2>2, <2>3 DEF Explained
<1> QED
  BY <1>2, <1>3, <1>5, <1>6, <1>7, <1>8 DEF ServiceInv, EngineInv

\* The invariant holds in every reachable state, however the calls overlap.
THEOREM Invariance == Spec => []ServiceInv
  BY InitInv, NextInv, PTL DEF Spec

\* No balance and no reservation becomes negative, and only trades are settled.
THEOREM TypeSafe == Spec => []TypeOK
<1>1. ServiceInv => TypeOK
  BY DEF ServiceInv
<1> QED
  BY <1>1, Invariance, PTL

\* Money is made and lost only by settlements that break off, and exactly the
\* base and the quote that the broken ones had moved.
THEOREM SupplyExplainedSafe == Spec => []SupplyExplained
<1>1. ServiceInv => SupplyExplained
  BY SameTerms DEF ServiceInv, Explained, SupplyExplained
<1> QED
  BY <1>1, Invariance, PTL

\* No order is charged more than was frozen for it, whatever other goroutines do
\* to the fields from which the charge is read.
THEOREM ChargedWithinFrozenSafe == Spec => []ChargedWithinFrozen
<1>1. ServiceInv => ChargedWithinFrozen
  BY DEF ServiceInv
<1> QED
  BY <1>1, Invariance, PTL

------------------------------------------------------------------------------
(***************************************************************************)
(* Frozen funds.                                                           *)
(*                                                                         *)
(* All orders of a user on one side draw on one frozen balance.  What an   *)
(* order holds is what is frozen for it, less what settlements took for    *)
(* it.  However calls overlap, a user has frozen at least what the user's  *)
(* orders hold together.  An order that does not run short holds enough    *)
(* for each of its trades that is not settled, and for what it may still   *)
(* trade; so a settlement that fails tells of an order that does.          *)
(***************************************************************************)

\* The orders for which funds were frozen.
Placed == {o \in OrderIds : pc[o] \in {"frozen", "submitted", "stored", "failed"}}

PlacedOf(u, side) == {o \in Placed : Owner[o] = u /\ asked[o].side = side}

\* What an order gives for some of its trades: quote to buy, base to sell.
Worth(o)   == IF asked[o].side = "BUY" THEN EP!Costs ELSE EP!Quantities
Used(o, S) == SumFunctionOnSet(Worth(o), S)

\* The trades for which a settlement took what the order gives: a torn one
\* took it from the buyer only.
Taken(o) ==
  {i \in EP!OwnTrades(o) \cap DOMAIN outcome :
     outcome[i] = "done" \/ (outcome[i] = "torn" /\ asked[o].side = "BUY")}

\* What an order still holds of what was frozen for it; negative if another
\* order's funds were taken for it.
Held == [o \in OrderIds |-> frozenUnits[o] - Used(o, Taken(o))]

\* The frozen funds of each user are not less than what the user's orders hold.
FrozenBacks ==
  \A u \in Users :
    /\ bal[u][BaseAsset].frozen >= SumFunctionOnSet(Held, PlacedOf(u, "SELL"))
    /\ bal[u][QuoteAsset].frozen >= SumFunctionOnSet(Held, PlacedOf(u, "BUY"))

\* The goroutine of the order that is being matched waits for the engine.
TakerWaits == taker # NoOrder => pc[taker] = "submitted"

\* Nothing is released for an order that may be in the book, after its call as
\* well as during it.
OpenKeeps ==
  \A o \in OrderIds : pc[o] \in {"stored", "failed"} =>
    /\ cancelPc[o] = "canceled" => status[o] \notin EP!Open
    /\ status[o] \in EP!Open => frozenUnits[o] = FreezeAmount(asked[o])

\* The inductive invariant of the frozen funds.
FundsInv ==
  ServiceInv /\ IsFiniteSet(Placed) /\ FrozenBacks /\ TakerWaits /\ OpenKeeps

\* What an order gives is a natural number, and more trades take no less.
WorthTold ==
  \A o \in OrderIds :
    /\ EP!OwnTrades(o) \subseteq DOMAIN trades /\ Taken(o) \subseteq EP!OwnTrades(o)
    /\ \A i \in DOMAIN trades : Worth(o)[i] \in Nat
    /\ \A T \in SUBSET DOMAIN trades :
         /\ IsFiniteSet(T) /\ Used(o, T) \in Nat
         /\ \A S \in SUBSET T : Used(o, S) <= Used(o, T)
    /\ Used(o, {}) = 0
    /\ frozenUnits[o] \in Nat
    /\ Held[o] = frozenUnits[o] - Used(o, Taken(o)) /\ Held[o] \in Int

\* It is so in every state ...
LEMMA UsedFacts == ServiceInv => WorthTold
<1> SUFFICES ASSUME ServiceInv, NEW o \in OrderIds
             PROVE  /\ EP!OwnTrades(o) \subseteq DOMAIN trades /\ Taken(o) \subseteq EP!OwnTrades(o)
                    /\ \A i \in DOMAIN trades : Worth(o)[i] \in Nat
                    /\ \A T \in SUBSET DOMAIN trades :
                         /\ IsFiniteSet(T) /\ Used(o, T) \in Nat
                         /\ \A S \in SUBSET T : Used(o, S) <= Used(o, T)
                    /\ Used(o, {}) = 0
                    /\ frozenUnits[o] \in Nat
                    /\ Held[o] = frozenUnits[o] - Used(o, Taken(o)) /\ Held[o] \in Int
  BY DEF WorthTold
<1>0. EngineInv /\ TypeOK
  BY DEF ServiceInv
<1>1. EP!OwnTrades(o) \subseteq DOMAIN trades /\ Taken(o) \subseteq EP!OwnTrades(o)
  BY DEF EP!OwnTrades, Taken
<1>2. \A i \in DOMAIN trades : Worth(o)[i] \in Nat
  BY <1>0, TradeFacts DEF Worth
<1>3. ASSUME NEW T \in SUBSET DOMAIN trades
      PROVE  IsFiniteSet(T) /\ Used(o, T) \in Nat
  <2>1. IsFiniteSet(T)
    BY <1>0, TradeFacts, FS_Subset
  <2>2. \A i \in T : Worth(o)[i] \in Nat
    BY <1>2
  <2> QED
    BY <2>1, <2>2, SumNat DEF Used
<1>4. ASSUME NEW T \in SUBSET DOMAIN trades, NEW S \in SUBSET T
      PROVE  Used(o, S) <= Used(o, T)
  <2>1. IsFiniteSet(T) /\ S \subseteq T
    BY <1>3
  <2>2. /\ \A i \in S : Worth(o)[i] \in Int /\ Worth(o)[i] <= Worth(o)[i]
        /\ \A i \in T : Worth(o)[i] \in Nat
    BY <1>2
  <2> QED
    BY <2>1, <2>2, SumWithin DEF Used
<1>5. Used(o, {}) = 0
  BY SumEmpty DEF Used
<1>6. frozenUnits[o] \in Nat
  BY <1>0 DEF TypeOK
<1>7. Held[o] = frozenUnits[o] - Used(o, Taken(o))
  BY DEF Held
<1>8. Used(o, Taken(o)) \in Nat
  BY <1>1, <1>3
<1> QED
  BY <1>1, <1>2, <1>3, <1>4, <1>5, <1>6, <1>7, <1>8

\* ... and in the next one.
LEMMA UsedFactsNext == ServiceInv' => WorthTold'
  BY UsedFacts, PTL

\* Trades that were made keep their worth.
LEMMA UsedStays ==
  ASSUME ServiceInv, trades' = trades \/ \E t \in EP!Trade : trades' = Append(trades, t),
         NEW o \in OrderIds, asked'[o] = asked[o], NEW S \in SUBSET DOMAIN trades
  PROVE  Used(o, S)' = Used(o, S)
<1>1. \A i \in DOMAIN trades : i \in DOMAIN trades' /\ trades'[i] = trades[i]
  <2>1. trades \in Seq(EP!Trade)
    BY TradeFacts DEF ServiceInv
  <2> QED
    BY <2>1
<1>2. \A i \in S : Worth(o)'[i] = Worth(o)[i]
  BY <1>1 DEF Worth, EP!Quantities, EP!Costs
<1>3. IsFiniteSet(S) /\ \A i \in S : Worth(o)[i] \in Int
  BY UsedFacts DEF WorthTold
<1>4. SumFunctionOnSet(Worth(o)', S) = SumFunctionOnSet(Worth(o), S)
  BY <1>2, <1>3, SumSame
<1> QED
  BY <1>4 DEF Used

\* While nothing is settled, an order holds what it held, less what is released.
LEMMA HeldStays ==
  ASSUME ServiceInv, trades' = trades \/ \E t \in EP!Trade : trades' = Append(trades, t),
         outcome' = outcome, NEW o \in OrderIds, asked'[o] = asked[o]
  PROVE  Held'[o] = frozenUnits'[o] - Used(o, Taken(o))
<1>0. trades \in Seq(EP!Trade) /\ DOMAIN outcome \subseteq DOMAIN trades
  BY TradeFacts DEF ServiceInv, TypeOK
<1>1. \A i \in DOMAIN trades : i \in DOMAIN trades' /\ trades'[i] = trades[i]
  BY <1>0
<1>2. Taken(o)' = Taken(o)
  BY <1>0, <1>1 DEF Taken, EP!OwnTrades
<1>3. PICK S \in SUBSET DOMAIN trades : S = Taken(o)
  BY <1>0 DEF Taken
<1>4. Used(o, S)' = Used(o, S)
  BY UsedStays
<1>5. Used(o, Taken(o))' = Used(o, Taken(o))
  BY <1>2, <1>3, <1>4 DEF Used
<1>6. Held'[o] = frozenUnits'[o] - Used(o, Taken(o))'
  BY DEF Held
<1> QED
  BY <1>5, <1>6

\* What an order has traded is within what was asked to be frozen.
LEMMA OwnWithin ==
  ASSUME ServiceInv, NEW o \in OrderIds, status[o] # "NONE"
  PROVE  /\ asked[o] \in Requests /\ req[o] = asked[o]
         /\ pc[o] \in {"submitted", "stored", "failed"}
         /\ Used(o, EP!OwnTrades(o)) <= FreezeAmount(asked[o])
<1>1. EngineInv /\ TypeOK /\ StageOf(o)
  BY DEF ServiceInv, Stages
<1>2. /\ req[o] = asked[o] /\ asked[o] \in Requests /\ pc[o] \in {"submitted", "stored", "failed"}
  BY <1>1 DEF StageOf, TypeOK
<1>3. CASE asked[o].side = "BUY"
  BY <1>1, <1>2, <1>3, BuyWithin DEF Used, Worth
<1>4. CASE asked[o].side # "BUY"
  <2>1. asked[o].side = "SELL" /\ FreezeAmount(asked[o]) = asked[o].qty /\ asked[o].qty \in Nat
    BY <1>2, <1>4, FreezeFacts DEF FreezeAmount
  <2>2. filled[o] = SumFunctionOnSet(EP!Quantities, EP!OwnTrades(o))
    BY <1>1, SameTerms DEF EngineInv, EP!TradesTold
  <2>3. rem[o] = req[o].qty - filled[o] /\ rem[o] >= 0 /\ filled[o] \in Nat
    BY <1>1, <1>2, <2>1 DEF EngineInv, EP!IInv, EP!Accounting, EP!IsMarketBuy, EP!TypeOK
  <2> QED
    BY <1>2, <1>4, <2>1, <2>2, <2>3 DEF Used, Worth
<1> QED
  BY <1>2, <1>3, <1>4

\* A sum changes with the one element that changes, if it is there.
LEMMA SumMoves ==
  ASSUME NEW S, IsFiniteSet(S), NEW f, NEW g, \A y \in S : f[y] \in Int /\ g[y] \in Int,
         NEW x, \A y \in S \ {x} : g[y] = f[y]
  PROVE  /\ SumFunctionOnSet(f, S) \in Int
         /\ SumFunctionOnSet(g, S) = SumFunctionOnSet(f, S) + IF x \in S THEN g[x] - f[x] ELSE 0
<1>1. SumFunctionOnSet(f, S) \in Int
  BY SumType
<1>2. CASE x \in S
  <2>1. SumFunctionOnSet(g, S) = SumFunctionOnSet(f, S) - f[x] + g[x]
    BY <1>2, SumChange
  <2> QED
    BY <1>1, <1>2, <2>1
<1>3. CASE x \notin S
  <2>1. SumFunctionOnSet(g, S) = SumFunctionOnSet(f, S)
    BY <1>3, SumSame
  <2> QED
    BY <1>1, <1>3, <2>1
<1> QED
  BY <1>1, <1>2, <1>3

\* What each call does to frozen funds.
LEMMA FrozenMoves ==
  ASSUME NEW b \in BalanceTypes, NEW u \in Users, NEW a \in Assets, NEW q \in Int,
         NEW v \in Users, NEW x \in Assets
  PROVE  /\ b[v][x].frozen \in Nat
         /\ AfterFreeze(b, u, a, q)[v][x].frozen
              = b[v][x].frozen + IF v = u /\ x = a THEN q ELSE 0
         /\ AfterUnfreeze(b, u, a, q)[v][x].frozen
              = b[v][x].frozen - IF v = u /\ x = a THEN q ELSE 0
<1>1. b[v][x].frozen \in Nat
  BY DEF BalanceTypes
<1>2. CASE v = u /\ x = a
  BY <1>1, <1>2 DEF AfterFreeze, AfterUnfreeze, BalanceTypes
<1>3. CASE ~(v = u /\ x = a)
  <2>1. AfterFreeze(b, u, a, q)[v][x] = b[v][x] /\ AfterUnfreeze(b, u, a, q)[v][x] = b[v][x]
    BY <1>3 DEF AfterFreeze, AfterUnfreeze, BalanceTypes
  <2> QED
    BY <1>1, <1>3, <2>1
<1> QED
  BY <1>1, <1>2, <1>3

\* A settlement takes the cost from what the buyer has frozen unless it is
\* refused, and the quantity from what the seller has if it is done; it is
\* refused or torn because one of them has too little, or both are one user.
FrozenAfter(b, n, buyer, seller, q, c, how) ==
  /\ how \in {"done", "torn", "refused"}
  /\ how = "refused" /\ buyer # seller => b[buyer][QuoteAsset].frozen < c
  /\ how # "refused" => buyer # seller
  /\ how = "torn" => b[seller][BaseAsset].frozen < q
  /\ \A v \in Users :
       /\ b[v][BaseAsset].frozen \in Nat /\ b[v][QuoteAsset].frozen \in Nat
       /\ n[v][BaseAsset].frozen
            = b[v][BaseAsset].frozen - IF v = seller /\ how = "done" THEN q ELSE 0
       /\ n[v][QuoteAsset].frozen
            = b[v][QuoteAsset].frozen - IF v = buyer /\ how # "refused" THEN c ELSE 0

\* Every settlement does no more than that.
LEMMA SettleMoves ==
  ASSUME NEW b \in BalanceTypes, NEW buyer \in Users, NEW seller \in Users,
         NEW q \in Nat, NEW c \in Nat, NEW n, NEW how,
         n = AfterSettle(b, buyer, seller, BaseAsset, QuoteAsset, q, c),
         how = SettleOutcome(b, buyer, seller, BaseAsset, QuoteAsset, q, c)
  PROVE  FrozenAfter(b, n, buyer, seller, q, c, how)
<1> DEFINE B == BaseAsset
           Q == QuoteAsset
           h == BuyerPaid(b, buyer, B, Q, q, c)
<1>1. B \in Assets /\ Q \in Assets /\ B # Q
  BY ServiceAssumption
<1>2. \A v \in Users : b[v][B].frozen \in Nat /\ b[v][Q].frozen \in Nat
  BY <1>1 DEF BalanceTypes
<1>3. /\ how \in {"done", "torn", "refused"}
      /\ how = "refused" /\ buyer # seller => b[buyer][Q].frozen < c
      /\ how # "refused" => buyer # seller
      /\ how = "torn" => b[seller][B].frozen < q
  BY DEF SettleOutcome, BuyerRefused, SellerRefused
<1>4. CASE how = "refused"
  <2>1. n = b
    BY <1>4 DEF AfterSettle
  <2> QED
    BY <1>2, <1>3, <1>4, <2>1 DEF FrozenAfter
<1>5. /\ h[buyer][Q].frozen = b[buyer][Q].frozen - c
      /\ h[buyer][B].frozen = b[buyer][B].frozen
      /\ \A v \in Users \ {buyer} : h[v] = b[v]
  BY <1>1 DEF BuyerPaid, BalanceTypes
<1>6. CASE how = "torn"
  <2>1. n = h
    BY <1>6 DEF AfterSettle
  <2> HIDE DEF h
  <2>2. ASSUME NEW v \in Users
        PROVE  /\ n[v][B].frozen = b[v][B].frozen
               /\ n[v][Q].frozen = b[v][Q].frozen - IF v = buyer THEN c ELSE 0
    <3>1. CASE v = buyer
      BY <1>2, <1>5, <2>1, <3>1
    <3>2. CASE v # buyer
      BY <1>2, <1>5, <2>1, <3>2
    <3> QED
      BY <3>1, <3>2
  <2> QED
    BY <1>2, <1>3, <1>6, <2>2 DEF FrozenAfter
<1>7. CASE how = "done"
  <2>1. n = SellerPaid(h, seller, B, Q, q, c) /\ b[buyer][Q].frozen >= c
    BY <1>2, <1>7 DEF AfterSettle, SettleOutcome, BuyerRefused
  <2>2. h \in BalanceTypes
    BY <1>1, <2>1, SideTyped DEF BuyerPaid
  <2> HIDE DEF h
  <2>3. /\ n[seller][B].frozen = h[seller][B].frozen - q
        /\ n[seller][Q].frozen = h[seller][Q].frozen
        /\ \A v \in Users \ {seller} : n[v] = h[v]
    BY <1>1, <2>1, <2>2 DEF SellerPaid, BalanceTypes
  <2>4. buyer # seller
    BY <1>3, <1>7
  <2>5. ASSUME NEW v \in Users
        PROVE  /\ n[v][B].frozen = b[v][B].frozen - IF v = seller THEN q ELSE 0
               /\ n[v][Q].frozen = b[v][Q].frozen - IF v = buyer THEN c ELSE 0
    <3>1. CASE v = buyer
      BY <1>2, <1>5, <2>3, <2>4, <3>1
    <3>2. CASE v = seller
      BY <1>2, <1>5, <2>3, <2>4, <3>2
    <3>3. CASE v # buyer /\ v # seller
      BY <1>2, <1>5, <2>3, <3>3
    <3> QED
      BY <3>1, <3>2, <3>3
  <2> QED
    BY <1>2, <1>3, <1>7, <2>5 DEF FrozenAfter
<1> QED
  BY <1>3, <1>4, <1>6, <1>7

\* What the orders of one side of a user hold changes with the one order that
\* does; a balance that covered them and changes no less still does.
LEMMA SideCovered ==
  ASSUME ServiceInv, ServiceInv', IsFiniteSet(Placed), Placed' = Placed,
         \A y \in Placed : asked'[y] = asked[y],
         NEW u \in Users, NEW side, NEW x,
         \A y \in PlacedOf(u, side) \ {x} : Held'[y] = Held[y],
         NEW from \in Int, NEW to \in Int, from >= SumFunctionOnSet(Held, PlacedOf(u, side)),
         to >= from + IF x \in PlacedOf(u, side) THEN Held'[x] - Held[x] ELSE 0
  PROVE  to >= SumFunctionOnSet(Held, PlacedOf(u, side))'
<1>1. PlacedOf(u, side)' = PlacedOf(u, side)
  BY DEF PlacedOf
<1>2. IsFiniteSet(PlacedOf(u, side)) /\ PlacedOf(u, side) \subseteq OrderIds
  BY FS_Subset DEF PlacedOf, Placed
<1>3. \A y \in PlacedOf(u, side) : Held[y] \in Int
  BY <1>2, UsedFacts DEF WorthTold
<1>4. \A y \in PlacedOf(u, side) : Held'[y] \in Int
  BY <1>2, UsedFactsNext DEF WorthTold
<1>5. PICK S : S = PlacedOf(u, side)
  OBVIOUS
<1>6. PICK f : f = Held
  OBVIOUS
<1>7. PICK g : g = Held'
  OBVIOUS
<1>8. /\ SumFunctionOnSet(f, S) \in Int
      /\ SumFunctionOnSet(g, S) = SumFunctionOnSet(f, S) + IF x \in S THEN g[x] - f[x] ELSE 0
  BY <1>2, <1>3, <1>4, <1>5, <1>6, <1>7, SumMoves
<1>9. /\ from >= SumFunctionOnSet(f, S) /\ to >= from + IF x \in S THEN g[x] - f[x] ELSE 0
      /\ x \in S => g[x] \in Int /\ f[x] \in Int
  BY <1>3, <1>4, <1>5, <1>6, <1>7
<1>10. to >= SumFunctionOnSet(g, S)
  BY <1>8, <1>9
<1> QED
  BY <1>1, <1>5, <1>7, <1>10

\* A balance of one asset and side: what is frozen, and what the orders hold.
SideAsset(side) == IF side = "BUY" THEN QuoteAsset ELSE BaseAsset

\* FrozenBacks, with the sides as a parameter.
LEMMA BackedSides ==
  FrozenBacks <=> \A u \in Users, side \in {"BUY", "SELL"} :
    bal[u][SideAsset(side)].frozen >= SumFunctionOnSet(Held, PlacedOf(u, side))
  BY DEF FrozenBacks, SideAsset

\* The same of the next state.
LEMMA BackedSidesNext ==
  FrozenBacks' <=> \A u \in Users, side \in {"BUY", "SELL"} :
    bal'[u][SideAsset(side)].frozen >= SumFunctionOnSet(Held, PlacedOf(u, side))'
  BY DEF FrozenBacks, SideAsset

\* Frozen funds are typed.
LEMMA FrozenTyped ==
  ASSUME NEW b \in BalanceTypes, NEW u \in Users, NEW side
  PROVE  b[u][SideAsset(side)].frozen \in Int
  BY ServiceAssumption DEF BalanceTypes, SideAsset

\* Neither the balances nor what orders hold changes.
LEMMA BackingStays ==
  ASSUME ServiceInv, ServiceInv', IsFiniteSet(Placed), FrozenBacks, Placed' = Placed, bal' = bal,
         \A y \in Placed : asked'[y] = asked[y] /\ Held'[y] = Held[y]
  PROVE  FrozenBacks'
<1> SUFFICES ASSUME NEW u \in Users, NEW side \in {"BUY", "SELL"}
             PROVE  bal'[u][SideAsset(side)].frozen >= SumFunctionOnSet(Held, PlacedOf(u, side))'
  BY BackedSidesNext
<1>1. PICK x : x \notin Placed
  <2>1. NoOrder \notin Placed
    BY EngineAssumption DEF Placed
  <2> QED
    BY <2>1
<1>2. x \notin PlacedOf(u, side) /\ \A y \in PlacedOf(u, side) : Held'[y] = Held[y]
  BY <1>1 DEF PlacedOf
<1>3. PICK from \in Int : from = bal[u][SideAsset(side)].frozen
  BY FrozenTyped DEF ServiceInv, TypeOK
<1>4. from >= SumFunctionOnSet(Held, PlacedOf(u, side))
  BY <1>3, BackedSides
<1>5. from >= SumFunctionOnSet(Held, PlacedOf(u, side))'
  BY <1>2, <1>4, SideCovered
<1> QED
  BY <1>3, <1>5

\* Funds are frozen for a new order, or it is refused: the frozen balance and
\* what the orders hold grow alike.
LEMMA PlaceFunds ==
  ASSUME FundsInv, NEW o \in OrderIds, NEW r \in Requests, PlaceFrozen(o, r) \/ PlaceRefused(o, r)
  PROVE  FundsInv'
<1>0. /\ ServiceInv /\ EngineInv /\ TypeOK /\ Stages
      /\ IsFiniteSet(Placed) /\ FrozenBacks /\ TakerWaits /\ OpenKeeps
  BY DEF FundsInv, ServiceInv
<1>1. ServiceInv'
  BY <1>0, PlaceKeeps
<1>2. /\ pc[o] = "idle"
      /\ asked' = [asked EXCEPT ![o] = r]
      /\ frozenUnits' = [frozenUnits EXCEPT ![o] = FreezeAmount(r)]
      /\ \E x \in {"frozen", "refused"} : pc' = [pc EXCEPT ![o] = x]
      /\ UNCHANGED engineVars /\ UNCHANGED <<spent, outcome, cancelPc>>
  BY DEF PlaceFrozen, PlaceRefused
<1>3. trades' = trades /\ status' = status /\ taker' = taker
  BY <1>2 DEF engineVars
<1>4. /\ pc'[o] \in {"frozen", "refused"} /\ asked'[o] = r /\ frozenUnits'[o] = FreezeAmount(r)
      /\ \A x \in OrderIds \ {o} :
           pc'[x] = pc[x] /\ asked'[x] = asked[x] /\ frozenUnits'[x] = frozenUnits[x]
  BY <1>0, <1>2 DEF TypeOK
<1>5. FreezeAmount(r) \in Int /\ FreezeAsset(r) \in Assets /\ r.side \in {"BUY", "SELL"}
      /\ Owner[o] \in Users /\ FreezeAsset(r) = SideAsset(r.side)
  BY FreezeFacts, ServiceAssumption DEF FreezeAsset, SideAsset
<1>6. ASSUME NEW x \in Placed PROVE x \in OrderIds /\ asked'[x] = asked[x] /\ Held'[x] = Held[x]
  <2>1. x \in OrderIds \ {o}
    BY <1>2 DEF Placed
  <2>2. asked'[x] = asked[x] /\ frozenUnits'[x] = frozenUnits[x]
    BY <1>4, <2>1
  <2>3. Held'[x] = frozenUnits'[x] - Used(x, Taken(x))
    BY <1>0, <1>2, <1>3, <2>1, <2>2, HeldStays
  <2> QED
    BY <2>1, <2>2, <2>3 DEF Held
<1>7. TakerWaits'
  BY <1>0, <1>2, <1>3, <1>4 DEF TakerWaits, EngineInv, EP!IInv, EP!TypeOK
<1>8. OpenKeeps'
  <2> SUFFICES ASSUME NEW x \in OrderIds, pc'[x] \in {"stored", "failed"}
               PROVE  /\ cancelPc'[x] = "canceled" => status'[x] \notin EP!Open
                      /\ status'[x] \in EP!Open => frozenUnits'[x] = FreezeAmount(asked'[x])
    BY DEF OpenKeeps, FreezeAmount
  <2>1. x # o
    BY <1>4
  <2>2. pc'[x] = pc[x] /\ asked'[x] = asked[x] /\ frozenUnits'[x] = frozenUnits[x]
    BY <1>4, <2>1
  <2> QED
    BY <1>0, <1>2, <1>3, <2>2 DEF OpenKeeps
<1>9. CASE PlaceRefused(o, r)
  <2>1. bal' = bal /\ pc' = [pc EXCEPT ![o] = "refused"]
    BY <1>9 DEF PlaceRefused
  <2>2. Placed' = Placed
    BY <1>0, <1>2, <2>1 DEF Placed, TypeOK
  <2>3. FrozenBacks'
    BY <1>0, <1>1, <1>6, <2>1, <2>2, BackingStays
  <2> QED
    BY <1>0, <1>1, <1>7, <1>8, <2>2, <2>3 DEF FundsInv
<1>10. CASE PlaceFrozen(o, r)
  <2>1. /\ bal' = AfterFreeze(bal, Owner[o], FreezeAsset(r), FreezeAmount(r))
        /\ pc' = [pc EXCEPT ![o] = "frozen"]
    BY <1>10 DEF PlaceFrozen
  <2>2. Placed' = Placed \cup {o} /\ o \notin Placed
    BY <1>0, <1>2, <2>1 DEF Placed, TypeOK
  <2>3. IsFiniteSet(Placed')
    BY <1>0, <2>2, FS_AddElement
  <2>4. Held'[o] = FreezeAmount(r)
    <3>1. status[o] = "NONE"
      BY <1>0, <1>2 DEF Stages, StageOf
    <3>2. \A i \in DOMAIN trades : trades[i].maker # o /\ trades[i].taker # o
      BY <1>0, <3>1 DEF EngineInv, EP!IInv, EP!TradesSound
    <3>3. Taken(o)' = {}
      BY <1>3, <3>2 DEF Taken, EP!OwnTrades
    <3>4. Used(o, Taken(o))' = 0
      BY <3>3, SumEmpty DEF Used
    <3>5. Held'[o] = frozenUnits'[o] - Used(o, Taken(o))'
      BY DEF Held
    <3> QED
      BY <1>4, <1>5, <3>4, <3>5
  <2>5. ASSUME NEW u \in Users, NEW side \in {"BUY", "SELL"}
        PROVE  bal'[u][SideAsset(side)].frozen >= SumFunctionOnSet(Held, PlacedOf(u, side))'
    <3>1. PlacedOf(u, side)' = PlacedOf(u, side) \cup IF u = Owner[o] /\ r.side = side THEN {o} ELSE {}
      BY <1>4, <1>6, <2>2 DEF PlacedOf
    <3>2. /\ IsFiniteSet(PlacedOf(u, side)) /\ PlacedOf(u, side) \subseteq Placed
          /\ o \notin PlacedOf(u, side)
      BY <1>0, <2>2, FS_Subset DEF PlacedOf
    <3>3. \A y \in PlacedOf(u, side) : Held[y] \in Int /\ Held'[y] = Held[y]
      BY <1>0, <1>6, <3>2, UsedFacts DEF WorthTold
    <3>4. PICK S : S = PlacedOf(u, side)
      OBVIOUS
    <3>5. PICK f : f = Held
      OBVIOUS
    <3>6. PICK g : g = Held'
      OBVIOUS
    <3>7. SumFunctionOnSet(f, S) \in Int /\ SumFunctionOnSet(g, S) = SumFunctionOnSet(f, S)
      BY <3>2, <3>3, <3>4, <3>5, <3>6, SumType, SumSame
    <3>8. SumFunctionOnSet(g, S \cup {o}) = SumFunctionOnSet(g, S) + g[o]
      <4>1. \A y \in S \cup {o} : g[y] \in Int
        BY <1>5, <2>4, <3>3, <3>4, <3>5, <3>6
      <4> QED
        BY <3>2, <3>4, <4>1, SumInsert
    <3>9. PICK from \in Int : from = bal[u][SideAsset(side)].frozen
      BY <1>0, FrozenTyped DEF TypeOK
    <3>10. from >= SumFunctionOnSet(f, S)
      BY <1>0, <3>4, <3>5, <3>9, BackedSides
    <3>11. bal'[u][SideAsset(side)].frozen
             = from + IF u = Owner[o] /\ SideAsset(side) = FreezeAsset(r) THEN FreezeAmount(r) ELSE 0
      <4>1. bal \in BalanceTypes /\ SideAsset(side) \in Assets
        BY <1>0, ServiceAssumption DEF TypeOK, SideAsset
      <4> QED
        BY <1>5, <2>1, <3>9, <4>1, FrozenMoves
    <3>12. SideAsset(side) = FreezeAsset(r) <=> r.side = side
      BY <1>5, ServiceAssumption DEF SideAsset
    <3>13. CASE u = Owner[o] /\ r.side = side
      <4>1. PlacedOf(u, side)' = S \cup {o} /\ g[o] = FreezeAmount(r)
        BY <2>4, <3>1, <3>4, <3>6, <3>13
      <4>2. bal'[u][SideAsset(side)].frozen = from + FreezeAmount(r)
        BY <3>11, <3>12, <3>13
      <4>3. from + FreezeAmount(r) >= SumFunctionOnSet(g, S \cup {o})
        BY <1>5, <3>7, <3>8, <3>10, <4>1
      <4> QED
        BY <3>6, <4>1, <4>2, <4>3
    <3>14. CASE ~(u = Owner[o] /\ r.side = side)
      <4>1. PlacedOf(u, side)' = S
        BY <3>1, <3>4, <3>14
      <4>2. bal'[u][SideAsset(side)].frozen = from
        BY <3>11, <3>12, <3>14
      <4> QED
        BY <3>6, <3>7, <3>10, <4>1, <4>2
    <3> QED
      BY <3>13, <3>14
  <2>6. FrozenBacks'
    BY <2>5, BackedSidesNext
  <2> QED
    BY <1>1, <1>7, <1>8, <2>3, <2>6 DEF FundsInv
<1> QED
  BY <1>9, <1>10

\* Steps that settle, freeze and release nothing.
LEMMA EngineFunds ==
  ASSUME FundsInv, ServiceInv', UNCHANGED <<asked, frozenUnits, outcome, bal>>,
         trades' = trades \/ \E t \in EP!Trade : trades' = Append(trades, t),
         Placed' = Placed, TakerWaits', OpenKeeps'
  PROVE  FundsInv'
<1>1. ServiceInv /\ IsFiniteSet(Placed) /\ FrozenBacks
  BY DEF FundsInv
<1>2. ASSUME NEW y \in Placed PROVE Held'[y] = Held[y]
  <2>1. y \in OrderIds
    BY DEF Placed
  <2>2. Held'[y] = frozenUnits'[y] - Used(y, Taken(y))
    BY <1>1, <2>1, HeldStays
  <2> QED
    BY <2>1, <2>2 DEF Held
<1>3. FrozenBacks'
  BY <1>1, <1>2, BackingStays
<1> QED
  BY <1>1, <1>3 DEF FundsInv

\* The engine takes the order of a goroutine.
LEMMA SubmitFunds ==
  ASSUME FundsInv, NEW o \in OrderIds, SubmitOrder(o)
  PROVE  FundsInv'
<1>0. ServiceInv /\ EngineInv /\ TypeOK /\ TakerWaits /\ OpenKeeps
  BY DEF FundsInv, ServiceInv
<1>1. ServiceInv'
  BY <1>0, SubmitKeeps
<1>2. /\ pc[o] = "frozen" /\ pc' = [pc EXCEPT ![o] = "submitted"]
      /\ UNCHANGED <<asked, frozenUnits, spent, outcome, cancelPc, bal>>
  BY DEF SubmitOrder
<1>3. EP!SubmitAccepted(o, asked[o]) \/ EP!SubmitRejected(o, asked[o])
  BY SameSubmit DEF SubmitOrder
<1>4. /\ trades' = trades
      /\ \E x \in {"NEW", "REJECTED"} : status' = [status EXCEPT ![o] = x]
      /\ taker' = o \/ taker' = taker
  BY <1>3 DEF EP!SubmitAccepted, EP!SubmitRejected, EP!Arrive
<1>5. /\ pc'[o] = "submitted"
      /\ \A x \in OrderIds \ {o} : pc'[x] = pc[x] /\ status'[x] = status[x]
  BY <1>0, <1>2, <1>4 DEF TypeOK, EngineInv, EP!IInv, EP!TypeOK
<1>6. Placed' = Placed
  BY <1>2, <1>5 DEF Placed
<1>7. TakerWaits'
  BY <1>0, <1>4, <1>5 DEF TakerWaits, EngineInv, EP!IInv, EP!TypeOK
<1>8. OpenKeeps'
  <2> SUFFICES ASSUME NEW x \in OrderIds, pc'[x] \in {"stored", "failed"}
               PROVE  /\ cancelPc'[x] = "canceled" => status'[x] \notin EP!Open
                      /\ status'[x] \in EP!Open => frozenUnits'[x] = FreezeAmount(asked'[x])
    BY DEF OpenKeeps, FreezeAmount
  <2>1. x # o
    BY <1>5
  <2>2. pc'[x] = pc[x] /\ status'[x] = status[x]
    BY <1>5, <2>1
  <2> QED
    BY <1>0, <1>2, <2>2 DEF OpenKeeps
<1> QED
  BY <1>1, <1>2, <1>4, <1>6, <1>7, <1>8, EngineFunds

\* The event loop reopens nothing, and ends with the order it was matching.
LEMMA WorkClosed ==
  ASSUME EngineInv, EP!Work
  PROVE  /\ taker \in OrderIds /\ taker' \in {taker, NoOrder}
         /\ \A x \in OrderIds \ {taker} : status'[x] \in EP!Open => status[x] \in EP!Open
<1>1. taker # NoOrder
  BY DEF EP!Work, EP!Fill, EP!FinishMarket, EP!FinishFilled, EP!FinishExpired,
         EP!FinishResting, EP!Finish
<1>2. /\ taker \in OrderIds
      /\ status \in [OrderIds -> {"NONE", "NEW", "PARTIALLY_FILLED", "FILLED",
                                  "CANCELED", "REJECTED", "EXPIRED"}]
  BY <1>1 DEF EngineInv, EP!IInv, EP!TypeOK
<1>3. CASE EP!Fill
  <2>1. PICK m \in OrderIds, p \in Prices, qty \in Nat \ {0} : EP!FillOf(m, p, qty)
    BY <1>3, EP!FillHas, EngineHyp, BaseAssumption DEF EngineInv
  <2>2. /\ m \in active /\ taker' = taker
        /\ status' = [status EXCEPT ![m] = IF rem[m] = qty THEN "FILLED" ELSE "PARTIALLY_FILLED"]
    BY <2>1 DEF EP!FillOf
  <2>3. status[m] \in EP!Open
    BY <2>2 DEF EngineInv, EP!IInv, EP!BookConsistent
  <2>4. \A x \in OrderIds \ {m} : status'[x] = status[x]
    BY <1>2, <2>2
  <2> QED
    BY <1>2, <2>2, <2>3, <2>4
<1>4. CASE EP!FinishMarket \/ EP!FinishFilled \/ EP!FinishExpired \/ EP!FinishResting
  <2>1. PICK final : EP!Finish(final)
    BY <1>4 DEF EP!FinishMarket, EP!FinishFilled, EP!FinishExpired, EP!FinishResting
  <2>2. taker' = NoOrder /\ status' = [status EXCEPT ![taker] = final]
    BY <2>1 DEF EP!Finish
  <2>3. \A x \in OrderIds \ {taker} : status'[x] = status[x]
    BY <1>2, <2>2
  <2> QED
    BY <1>2, <2>2, <2>3
<1> QED
  BY <1>3, <1>4 DEF EP!Work

\* The engine fills orders and ends submissions.
LEMMA WorkFunds == ASSUME FundsInv, EngineWorks PROVE FundsInv'
<1>0. ServiceInv /\ EngineInv /\ TypeOK /\ TakerWaits /\ OpenKeeps
  BY DEF FundsInv, ServiceInv
<1>1. ServiceInv'
  BY <1>0, WorkKeeps
<1>2. EP!Work /\ UNCHANGED <<asked, pc, frozenUnits, spent, outcome, cancelPc, bal>>
  BY SameWork DEF EngineWorks, serviceVars
<1>3. trades' = trades \/ \E t \in EP!Trade : trades' = Append(trades, t)
  <2>1. EP!Next
    BY <1>2 DEF EP!Next
  <2> QED
    BY <1>0, <2>1, EngineStep
<1>4. /\ taker \in OrderIds /\ taker' \in {taker, NoOrder}
      /\ \A x \in OrderIds \ {taker} : status'[x] \in EP!Open => status[x] \in EP!Open
  BY <1>0, <1>2, WorkClosed
<1>5. pc[taker] = "submitted"
  BY <1>0, <1>4, EngineAssumption DEF TakerWaits
<1>6. TakerWaits'
  BY <1>2, <1>4, <1>5 DEF TakerWaits
<1>7. OpenKeeps'
  <2> SUFFICES ASSUME NEW x \in OrderIds, pc'[x] \in {"stored", "failed"}
               PROVE  /\ cancelPc'[x] = "canceled" => status'[x] \notin EP!Open
                      /\ status'[x] \in EP!Open => frozenUnits'[x] = FreezeAmount(asked'[x])
    BY DEF OpenKeeps, FreezeAmount
  <2>1. x # taker /\ pc[x] \in {"stored", "failed"}
    BY <1>2, <1>5
  <2>2. status'[x] \in EP!Open => status[x] \in EP!Open
    BY <1>4, <2>1
  <2> QED
    BY <1>0, <1>2, <2>1, <2>2 DEF OpenKeeps
<1>8. Placed' = Placed
  BY <1>2 DEF Placed
<1> QED
  BY <1>1, <1>2, <1>3, <1>6, <1>7, <1>8, EngineFunds

\* The engine cancels a stored order.
LEMMA CancelFunds ==
  ASSUME FundsInv, NEW o \in OrderIds, CancelInEngine(o)
  PROVE  FundsInv'
<1>0. ServiceInv /\ EngineInv /\ TypeOK /\ TakerWaits /\ OpenKeeps
  BY DEF FundsInv, ServiceInv
<1>1. ServiceInv'
  BY <1>0, CancelKeeps
<1>2. /\ cancelPc' = [cancelPc EXCEPT ![o] = "canceled"]
      /\ UNCHANGED <<asked, pc, frozenUnits, spent, outcome, bal>>
  BY DEF CancelInEngine
<1>3. EP!Cancel(o)
  BY SameCancel DEF CancelInEngine
<1>4. trades' = trades /\ taker' = taker /\ status' = [status EXCEPT ![o] = "CANCELED"]
  BY <1>3 DEF EP!Cancel
<1>5. /\ status'[o] = "CANCELED" /\ cancelPc'[o] = "canceled"
      /\ \A x \in OrderIds \ {o} : status'[x] = status[x] /\ cancelPc'[x] = cancelPc[x]
  BY <1>0, <1>2, <1>4 DEF TypeOK, EngineInv, EP!IInv, EP!TypeOK
<1>6. TakerWaits'
  BY <1>0, <1>2, <1>4 DEF TakerWaits
<1>7. OpenKeeps'
  <2> SUFFICES ASSUME NEW x \in OrderIds, pc'[x] \in {"stored", "failed"}
               PROVE  /\ cancelPc'[x] = "canceled" => status'[x] \notin EP!Open
                      /\ status'[x] \in EP!Open => frozenUnits'[x] = FreezeAmount(asked'[x])
    BY DEF OpenKeeps, FreezeAmount
  <2>1. CASE x = o
    BY <1>5, <2>1 DEF EP!Open
  <2>2. CASE x # o
    BY <1>0, <1>2, <1>5, <2>2 DEF OpenKeeps
  <2> QED
    BY <2>1, <2>2
<1>8. Placed' = Placed
  BY <1>2 DEF Placed
<1> QED
  BY <1>1, <1>2, <1>4, <1>6, <1>7, <1>8, EngineFunds


\* A round of the settlement loop of o, in terms of frozen funds: it tries the
\* trade i between the buyer's order b and the seller's order s, with the end h.
Settling(o, i, b, s, h) ==
  /\ trades[i].taker = o /\ i \notin DOMAIN outcome /\ b # s /\ {b, s} \subseteq Placed
  /\ b = Buyer(trades[i]) /\ s = Seller(trades[i])
  /\ asked[b].side = "BUY" /\ asked[s].side = "SELL"
  /\ \A x \in OrderIds : i \in EP!OwnTrades(x) <=> x \in {b, s}
  /\ outcome' = [k \in DOMAIN outcome \cup {i} |-> IF k = i THEN h ELSE outcome[k]]
  /\ \/ h = "done" /\ pc' = pc /\ \E c : spent' = [spent EXCEPT ![o] = Charge(o, c)]
     \/ h # "done" /\ pc' = [pc EXCEPT ![o] = "failed"] /\ spent' = spent
  /\ h = "refused" /\ Owner[b] # Owner[s] => bal[Owner[b]][QuoteAsset].frozen < Worth(b)[i]
  /\ h = "torn" => bal[Owner[s]][BaseAsset].frozen < Worth(s)[i]
  /\ \A v \in Users :
       /\ bal[v][BaseAsset].frozen \in Nat /\ bal[v][QuoteAsset].frozen \in Nat
       /\ bal'[v][BaseAsset].frozen
            = bal[v][BaseAsset].frozen - IF v = Owner[s] /\ h = "done" THEN Worth(s)[i] ELSE 0
       /\ bal'[v][QuoteAsset].frozen
            = bal[v][QuoteAsset].frozen - IF v = Owner[b] /\ h # "refused" THEN Worth(b)[i] ELSE 0

\* Every round is one of these.
LEMMA SettleFacts ==
  ASSUME ServiceInv, NEW o \in OrderIds, SettleNext(o)
  PROVE  /\ pc[o] = "submitted" /\ taker # o
         /\ UNCHANGED <<asked, frozenUnits, cancelPc>> /\ UNCHANGED engineVars
         /\ \E i \in DOMAIN trades, b \in OrderIds, s \in OrderIds, h \in {"done", "torn", "refused"} :
              Settling(o, i, b, s, h)
<1>0. EngineInv /\ TypeOK
  BY DEF ServiceInv
<1> DEFINE j == Min(Unsettled(o))
<1>1. /\ j \in DOMAIN trades /\ trades[j].taker = o /\ j \notin DOMAIN outcome
  <2>1. Unsettled(o) # {} /\ Unsettled(o) \subseteq DOMAIN trades
    BY DEF SettleNext, Unsettled
  <2>2. IsFiniteSet(DOMAIN trades) /\ DOMAIN trades \subseteq Int
    BY <1>0, TradeFacts
  <2>3. IsFiniteSet(Unsettled(o)) /\ Unsettled(o) \subseteq Int
    BY <2>1, <2>2, FS_Subset
  <2>4. j \in Unsettled(o)
    BY <2>1, <2>3, MinIn
  <2> HIDE DEF j
  <2> QED
    BY <2>4 DEF Unsettled
<1>2. PICK i \in DOMAIN trades : i = j
  BY <1>1
<1> DEFINE tr     == trades[i]
           cost   == PriceQtyToQuote(tr.price, tr.qty)
           buyer  == Owner[Buyer(tr)]
           seller == Owner[Seller(tr)]
           how    == SettleOutcome(bal, buyer, seller, BaseAsset, QuoteAsset, tr.qty, cost)
<1>3. /\ pc[o] = "submitted" /\ taker # o
      /\ bal' = AfterSettle(bal, buyer, seller, BaseAsset, QuoteAsset, tr.qty, cost)
      /\ outcome' = [k \in DOMAIN outcome \cup {i} |-> IF k = i THEN how ELSE outcome[k]]
      /\ \/ how = "done" /\ pc' = pc /\ spent' = [spent EXCEPT ![o] = Charge(o, cost)]
         \/ how # "done" /\ pc' = [pc EXCEPT ![o] = "failed"] /\ spent' = spent
      /\ UNCHANGED <<asked, frozenUnits, cancelPc>> /\ UNCHANGED engineVars
  BY <1>2 DEF SettleNext, Returned
<1>4. /\ tr.taker = o /\ i \notin DOMAIN outcome
      /\ tr.maker \in OrderIds /\ tr.taker \in OrderIds /\ tr.qty \in Nat /\ cost \in Nat
      /\ EP!Quantities[i] = tr.qty /\ EP!Costs[i] = cost
  BY <1>0, <1>1, <1>2, TradeFacts
<1>5. PICK b \in OrderIds : b = Buyer(tr)
  BY <1>4 DEF Buyer
<1>6. PICK s \in OrderIds : s = Seller(tr)
  BY <1>4 DEF Seller
<1>7. /\ {b, s} = {tr.maker, tr.taker} /\ b # s
      /\ b \in Placed /\ s \in Placed
      /\ asked[b].side = "BUY" /\ asked[s].side = "SELL"
  <2>1. /\ status[tr.maker] # "NONE" /\ status[tr.taker] # "NONE"
        /\ req[tr.maker].side # req[tr.taker].side
    BY <1>0 DEF EngineInv, EP!IInv, EP!TradesSound
  <2>2. /\ asked[tr.maker] \in Requests /\ req[tr.maker] = asked[tr.maker] /\ tr.maker \in Placed
        /\ asked[tr.taker] \in Requests /\ req[tr.taker] = asked[tr.taker] /\ tr.taker \in Placed
    BY <1>4, <2>1, OwnWithin DEF Placed
  <2>3. asked[tr.maker].side \in {"BUY", "SELL"} /\ asked[tr.taker].side \in {"BUY", "SELL"}
    BY <2>2, FreezeFacts
  <2>4. CASE req[tr.taker].side = "BUY"
    <3>1. b = tr.taker /\ s = tr.maker
      BY <1>5, <1>6, <2>4 DEF Buyer, Seller
    <3> QED
      BY <2>1, <2>2, <2>3, <2>4, <3>1
  <2>5. CASE req[tr.taker].side # "BUY"
    <3>1. b = tr.maker /\ s = tr.taker
      BY <1>5, <1>6, <2>5 DEF Buyer, Seller
    <3> QED
      BY <2>1, <2>2, <2>3, <2>5, <3>1
  <2> QED
    BY <2>4, <2>5
<1>8. \A x \in OrderIds : i \in EP!OwnTrades(x) <=> x \in {b, s}
  BY <1>7 DEF EP!OwnTrades
<1>9. Worth(b)[i] = cost /\ Worth(s)[i] = tr.qty
  BY <1>4, <1>7 DEF Worth
<1>10. PICK q \in Nat : q = tr.qty
  BY <1>4
<1>11. PICK c \in Nat : c = cost
  BY <1>4
<1>12. PICK h : h = how
  OBVIOUS
<1>13. PICK u \in Users : u = Owner[b]
  BY ServiceAssumption
<1>14. PICK v \in Users : v = Owner[s]
  BY ServiceAssumption
<1>15. /\ bal' = AfterSettle(bal, u, v, BaseAsset, QuoteAsset, q, c)
       /\ h = SettleOutcome(bal, u, v, BaseAsset, QuoteAsset, q, c)
  BY <1>3, <1>5, <1>6, <1>10, <1>11, <1>12, <1>13, <1>14
<1>16. /\ outcome' = [k \in DOMAIN outcome \cup {i} |-> IF k = i THEN h ELSE outcome[k]]
       /\ \/ h = "done" /\ pc' = pc /\ \E x : spent' = [spent EXCEPT ![o] = Charge(o, x)]
          \/ h # "done" /\ pc' = [pc EXCEPT ![o] = "failed"] /\ spent' = spent
  BY <1>3, <1>12
<1>17. bal \in BalanceTypes
  BY <1>0 DEF TypeOK
<1>18. /\ trades[i].taker = o /\ i \notin DOMAIN outcome /\ b = Buyer(trades[i]) /\ s = Seller(trades[i])
       /\ Worth(b)[i] = c /\ Worth(s)[i] = q
  BY <1>4, <1>5, <1>6, <1>9, <1>10, <1>11
<1> HIDE DEF j, tr, cost, buyer, seller, how
<1>19. /\ h \in {"done", "torn", "refused"}
       /\ h = "refused" /\ u # v => bal[u][QuoteAsset].frozen < c
       /\ h = "torn" => bal[v][BaseAsset].frozen < q
       /\ \A w \in Users :
            /\ bal[w][BaseAsset].frozen \in Nat /\ bal[w][QuoteAsset].frozen \in Nat
            /\ bal'[w][BaseAsset].frozen
                 = bal[w][BaseAsset].frozen - IF w = v /\ h = "done" THEN q ELSE 0
            /\ bal'[w][QuoteAsset].frozen
                 = bal[w][QuoteAsset].frozen - IF w = u /\ h # "refused" THEN c ELSE 0
  <2>1. PICK n : n = bal'
    OBVIOUS
  <2>2. PICK m \in BalanceTypes : m = bal
    BY <1>17
  <2>3. /\ n = AfterSettle(m, u, v, BaseAsset, QuoteAsset, q, c)
        /\ h = SettleOutcome(m, u, v, BaseAsset, QuoteAsset, q, c)
    BY <1>15, <2>1, <2>2
  <2>4. FrozenAfter(m, n, u, v, q, c, h)
    BY <2>3, SettleMoves
  <2> QED
    BY <2>1, <2>2, <2>4 DEF FrozenAfter
<1>20. Settling(o, i, b, s, h)
  BY <1>7, <1>8, <1>13, <1>14, <1>16, <1>18, <1>19 DEF Settling
<1> QED
  BY <1>3, <1>19, <1>20

\* What the two orders of a trade hold drops by what is taken for it.
LEMMA HeldMoves ==
  ASSUME ServiceInv, NEW o \in OrderIds, UNCHANGED <<asked, frozenUnits>>, UNCHANGED engineVars,
         NEW i \in DOMAIN trades, NEW b \in OrderIds, NEW s \in OrderIds,
         NEW h \in {"done", "torn", "refused"}, Settling(o, i, b, s, h),
         NEW y \in OrderIds
  PROVE  Held'[y] = Held[y] -
           IF (y = b /\ h # "refused") \/ (y = s /\ h = "done") THEN Worth(y)[i] ELSE 0
<1>0. WorthTold /\ trades' = trades
  BY UsedFacts DEF engineVars
<1>1. /\ i \notin DOMAIN outcome /\ b # s /\ asked[b].side = "BUY" /\ asked[s].side = "SELL"
      /\ i \in EP!OwnTrades(y) <=> y \in {b, s}
      /\ DOMAIN outcome' = DOMAIN outcome \cup {i} /\ outcome'[i] = h
      /\ \A k \in DOMAIN outcome : outcome'[k] = outcome[k]
  BY DEF Settling
<1>2. Taken(y)' = Taken(y) \cup
        IF (y = b /\ h # "refused") \/ (y = s /\ h = "done") THEN {i} ELSE {}
  <2>1. EP!OwnTrades(y)' = EP!OwnTrades(y)
    BY <1>0 DEF EP!OwnTrades
  <2>2. Taken(y)' = {k \in EP!OwnTrades(y) \cap (DOMAIN outcome \cup {i}) :
                       outcome'[k] = "done" \/ (outcome'[k] = "torn" /\ asked[y].side = "BUY")}
    BY <1>1, <2>1 DEF Taken
  <2> QED
    BY <1>1, <2>2 DEF Taken
<1>3. PICK T \in SUBSET DOMAIN trades : T = Taken(y)
  BY <1>0 DEF WorthTold
<1>4. /\ i \notin T /\ IsFiniteSet(T) /\ \A k \in DOMAIN trades : Worth(y)[k] \in Nat
      /\ Used(y, T) \in Nat /\ frozenUnits[y] \in Nat /\ Held[y] = frozenUnits[y] - Used(y, T)
  BY <1>0, <1>1, <1>3 DEF WorthTold, Taken
<1>5. Used(y, T \cup {i}) = Used(y, T) + Worth(y)[i]
  <2>1. \A k \in T \cup {i} : Worth(y)[k] \in Int
    BY <1>4
  <2> QED
    BY <1>4, <2>1, SumInsert DEF Used
<1>6. Held'[y] = frozenUnits'[y] - Used(y, Taken(y))'
  BY DEF Held
<1>7. ASSUME NEW S \in SUBSET DOMAIN trades PROVE Used(y, S)' = Used(y, S)
  BY <1>0, UsedStays
<1>8. CASE (y = b /\ h # "refused") \/ (y = s /\ h = "done")
  <2>1. PICK S \in SUBSET DOMAIN trades : S = T \cup {i}
    OBVIOUS
  <2>2. Taken(y)' = S
    BY <1>2, <1>3, <1>8, <2>1
  <2>3. Used(y, Taken(y))' = Used(y, S)'
    BY <2>2 DEF Used
  <2>4. Held'[y] = frozenUnits[y] - Used(y, S)
    BY <1>6, <1>7, <2>3
  <2>5. Used(y, S) = Used(y, T) + Worth(y)[i]
    BY <1>5, <2>1
  <2> QED
    BY <1>4, <1>8, <2>4, <2>5
<1>9. CASE ~((y = b /\ h # "refused") \/ (y = s /\ h = "done"))
  <2>1. Taken(y)' = T
    BY <1>2, <1>3, <1>9
  <2>2. Used(y, Taken(y))' = Used(y, T)'
    BY <2>1 DEF Used
  <2>3. Held'[y] = frozenUnits[y] - Used(y, T)
    BY <1>6, <1>7, <2>2
  <2> QED
    BY <1>4, <1>9, <2>3
<1> QED
  BY <1>8, <1>9

\* A trade is settled, or its settlement fails: what is taken from a frozen
\* balance is taken from what an order of that user and side holds.
LEMMA SettleFunds ==
  ASSUME FundsInv, NEW o \in OrderIds, SettleNext(o)
  PROVE  FundsInv'
<1>0. /\ ServiceInv /\ EngineInv /\ TypeOK /\ Stages
      /\ IsFiniteSet(Placed) /\ FrozenBacks /\ TakerWaits /\ OpenKeeps
  BY DEF FundsInv, ServiceInv
<1>1. ServiceInv'
  BY <1>0, SettleKeeps
<1>2. /\ pc[o] = "submitted" /\ taker # o
      /\ UNCHANGED <<asked, frozenUnits, cancelPc>> /\ UNCHANGED engineVars
  BY <1>0, SettleFacts
<1>3. PICK i \in DOMAIN trades, b \in OrderIds, s \in OrderIds, h \in {"done", "torn", "refused"} :
        Settling(o, i, b, s, h)
  BY <1>0, SettleFacts
<1>4. status' = status /\ taker' = taker
  BY <1>2 DEF engineVars
<1>5. /\ pc'[o] \in {"submitted", "failed"}
      /\ \A x \in OrderIds \ {o} : pc'[x] = pc[x]
  BY <1>0, <1>2, <1>3 DEF Settling, TypeOK
<1>6. Placed' = Placed
  BY <1>2, <1>5 DEF Placed
<1>7. TakerWaits'
  BY <1>0, <1>2, <1>4, <1>5 DEF TakerWaits, EngineInv, EP!IInv, EP!TypeOK
<1>8. OpenKeeps'
  <2> SUFFICES ASSUME NEW x \in OrderIds, pc'[x] \in {"stored", "failed"}
               PROVE  /\ cancelPc'[x] = "canceled" => status'[x] \notin EP!Open
                      /\ status'[x] \in EP!Open => frozenUnits'[x] = FreezeAmount(asked'[x])
    BY DEF OpenKeeps, FreezeAmount
  <2>1. CASE x = o
    BY <1>0, <1>2, <2>1 DEF Stages, StageOf
  <2>2. CASE x # o
    <3>1. pc[x] \in {"stored", "failed"}
      BY <1>5, <2>2
    <3> QED
      BY <1>0, <1>2, <1>4, <3>1 DEF OpenKeeps
  <2> QED
    BY <2>1, <2>2
<1>9. \A y \in OrderIds : Held'[y] = Held[y] -
        IF (y = b /\ h # "refused") \/ (y = s /\ h = "done") THEN Worth(y)[i] ELSE 0
  BY <1>0, <1>2, <1>3, HeldMoves
<1>10. /\ \A y \in OrderIds : Held[y] \in Int
       /\ Worth(b)[i] \in Nat /\ Worth(s)[i] \in Nat
  BY <1>0, UsedFacts DEF WorthTold
<1>11. /\ b # s /\ {b, s} \subseteq Placed /\ asked[b].side = "BUY" /\ asked[s].side = "SELL"
       /\ \A v \in Users :
            /\ bal[v][BaseAsset].frozen \in Nat /\ bal[v][QuoteAsset].frozen \in Nat
            /\ bal'[v][BaseAsset].frozen
                 = bal[v][BaseAsset].frozen - IF v = Owner[s] /\ h = "done" THEN Worth(s)[i] ELSE 0
            /\ bal'[v][QuoteAsset].frozen
                 = bal[v][QuoteAsset].frozen - IF v = Owner[b] /\ h # "refused" THEN Worth(b)[i] ELSE 0
  BY <1>3 DEF Settling
<1>12. \A y \in Placed : y \in OrderIds /\ asked'[y] = asked[y]
  BY <1>2 DEF Placed
<1>13. ASSUME NEW u \in Users
       PROVE  bal'[u][QuoteAsset].frozen >= SumFunctionOnSet(Held, PlacedOf(u, "BUY"))'
  <2>1. \A y \in PlacedOf(u, "BUY") \ {b} : Held'[y] = Held[y]
    <3> TAKE y \in PlacedOf(u, "BUY") \ {b}
    <3>1. y \in OrderIds /\ y # b /\ y # s
      BY <1>11 DEF PlacedOf, Placed
    <3> QED
      BY <1>9, <1>10, <3>1
  <2>2. PICK from \in Int : from = bal[u][QuoteAsset].frozen
    BY <1>11
  <2>3. from >= SumFunctionOnSet(Held, PlacedOf(u, "BUY"))
    BY <1>0, <2>2 DEF FrozenBacks
  <2>4. PICK to \in Int : to = bal'[u][QuoteAsset].frozen
    BY <1>10, <1>11
  <2>5. to = from - IF u = Owner[b] /\ h # "refused" THEN Worth(b)[i] ELSE 0
    BY <1>11, <2>2, <2>4
  <2>6. b \in PlacedOf(u, "BUY") <=> u = Owner[b]
    BY <1>11 DEF PlacedOf
  <2>7. Held'[b] = Held[b] - IF h # "refused" THEN Worth(b)[i] ELSE 0
    BY <1>9, <1>11
  <2>8. to >= from + IF b \in PlacedOf(u, "BUY") THEN Held'[b] - Held[b] ELSE 0
    <3>1. Held[b] \in Int /\ Worth(b)[i] \in Int
      BY <1>10
    <3> QED
      BY <2>5, <2>6, <2>7, <3>1
  <2>9. to >= SumFunctionOnSet(Held, PlacedOf(u, "BUY"))'
    BY <1>0, <1>1, <1>6, <1>12, <2>1, <2>3, <2>8, SideCovered
  <2> QED
    BY <2>4, <2>9
<1>14. ASSUME NEW u \in Users
       PROVE  bal'[u][BaseAsset].frozen >= SumFunctionOnSet(Held, PlacedOf(u, "SELL"))'
  <2>1. \A y \in PlacedOf(u, "SELL") \ {s} : Held'[y] = Held[y]
    <3> TAKE y \in PlacedOf(u, "SELL") \ {s}
    <3>1. y \in OrderIds /\ y # b /\ y # s
      BY <1>11 DEF PlacedOf, Placed
    <3> QED
      BY <1>9, <1>10, <3>1
  <2>2. PICK from \in Int : from = bal[u][BaseAsset].frozen
    BY <1>11
  <2>3. from >= SumFunctionOnSet(Held, PlacedOf(u, "SELL"))
    BY <1>0, <2>2 DEF FrozenBacks
  <2>4. PICK to \in Int : to = bal'[u][BaseAsset].frozen
    BY <1>10, <1>11
  <2>5. to = from - IF u = Owner[s] /\ h = "done" THEN Worth(s)[i] ELSE 0
    BY <1>11, <2>2, <2>4
  <2>6. s \in PlacedOf(u, "SELL") <=> u = Owner[s]
    BY <1>11 DEF PlacedOf
  <2>7. Held'[s] = Held[s] - IF h = "done" THEN Worth(s)[i] ELSE 0
    BY <1>9, <1>11
  <2>8. to >= from + IF s \in PlacedOf(u, "SELL") THEN Held'[s] - Held[s] ELSE 0
    <3>1. Held[s] \in Int /\ Worth(s)[i] \in Int
      BY <1>10
    <3> QED
      BY <2>5, <2>6, <2>7, <3>1
  <2>9. to >= SumFunctionOnSet(Held, PlacedOf(u, "SELL"))'
    BY <1>0, <1>1, <1>6, <1>12, <2>1, <2>3, <2>8, SideCovered
  <2> QED
    BY <2>4, <2>9
<1>15. FrozenBacks'
  BY <1>13, <1>14 DEF FrozenBacks
<1> QED
  BY <1>0, <1>1, <1>6, <1>7, <1>8, <1>15 DEF FundsInv

\* What is left of an order is given back, or forgotten: the order holds less
\* by at least what leaves the frozen balance.
LEMMA ReleaseBacks ==
  ASSUME FundsInv, ServiceInv', NEW o \in Placed, UnfreezeRemaining(o), Placed' = Placed,
         UNCHANGED <<asked, outcome>>, trades' = trades
  PROVE  FrozenBacks'
<1>0. ServiceInv /\ TypeOK /\ Stages /\ IsFiniteSet(Placed) /\ FrozenBacks
  BY DEF FundsInv, ServiceInv
<1> DEFINE rest == frozenUnits[o] - spent[o]
           a    == FreezeAsset(asked[o])
<1>1. /\ frozenUnits' = [frozenUnits EXCEPT ![o] = IF rest > 0 THEN @ - rest ELSE @]
      /\ bal' = IF CanRelease(bal, Owner[o], a, rest)
                THEN AfterUnfreeze(bal, Owner[o], a, rest) ELSE bal
  BY DEF UnfreezeRemaining
<1>2. /\ o \in OrderIds /\ asked[o] \in Requests /\ Owner[o] \in Users
      /\ bal \in BalanceTypes /\ frozenUnits \in [OrderIds -> Nat] /\ spent[o] \in Nat
  BY <1>0, ServiceAssumption DEF Placed, Stages, StageOf, TypeOK
<1>3. rest \in Int
  BY <1>2
<1>4. a = SideAsset(asked[o].side) /\ asked[o].side \in {"BUY", "SELL"}
  BY <1>2, FreezeFacts DEF FreezeAsset, SideAsset
<1>5. PICK r \in Int : r = rest
  BY <1>3
<1>6. /\ \A x \in OrderIds \ {o} : frozenUnits'[x] = frozenUnits[x]
      /\ frozenUnits'[o] = frozenUnits[o] - IF r > 0 THEN r ELSE 0
  BY <1>1, <1>2, <1>5
<1>7. bal' = IF CanRelease(bal, Owner[o], SideAsset(asked[o].side), r)
             THEN AfterUnfreeze(bal, Owner[o], SideAsset(asked[o].side), r) ELSE bal
  BY <1>1, <1>4, <1>5
<1> HIDE DEF rest, a
<1>8. \A y \in OrderIds : Held[y] \in Int /\ Held[y] = frozenUnits[y] - Used(y, Taken(y))
                           /\ frozenUnits[y] \in Int
  BY <1>0, UsedFacts DEF WorthTold
<1>9. \A y \in OrderIds : Used(y, Taken(y)) \in Int
  BY <1>0, UsedFacts DEF WorthTold
<1>10. \A y \in OrderIds : Held'[y] = frozenUnits'[y] - Used(y, Taken(y))
  BY <1>0, HeldStays
<1>11. \A y \in OrderIds : Held'[y] = Held[y] - IF y = o /\ r > 0 THEN r ELSE 0
  <2> TAKE y \in OrderIds
  <2>1. CASE y = o
    <3>1. PICK n \in Int : n = Used(o, Taken(o))
      BY <1>2, <1>9
    <3>2. PICK f \in Int : f = frozenUnits[o]
      BY <1>2, <1>8
    <3>3. Held'[o] = (f - IF r > 0 THEN r ELSE 0) - n /\ Held[o] = f - n
      BY <1>2, <1>6, <1>8, <1>10, <3>1, <3>2
    <3> QED
      BY <2>1, <3>3
  <2>2. CASE y # o
    BY <1>6, <1>8, <1>10, <2>2
  <2> QED
    BY <2>1, <2>2
<1>12. ASSUME NEW u \in Users, NEW side \in {"BUY", "SELL"}
       PROVE  bal'[u][SideAsset(side)].frozen >= SumFunctionOnSet(Held, PlacedOf(u, side))'
  <2>1. \A y \in PlacedOf(u, side) \ {o} : Held'[y] = Held[y]
    BY <1>8, <1>11 DEF PlacedOf, Placed
  <2>2. PICK from \in Int : from = bal[u][SideAsset(side)].frozen
    BY <1>2, FrozenTyped
  <2>3. from >= SumFunctionOnSet(Held, PlacedOf(u, side))
    BY <1>0, <2>2, BackedSides
  <2>4. bal' \in BalanceTypes
    BY DEF ServiceInv, TypeOK
  <2>5. PICK to \in Int : to = bal'[u][SideAsset(side)].frozen
    BY <2>4, FrozenTyped
  <2>6. o \in PlacedOf(u, side) <=> u = Owner[o] /\ side = asked[o].side
    BY DEF PlacedOf
  <2>7. Held'[o] = Held[o] - IF r > 0 THEN r ELSE 0
    BY <1>2, <1>11
  <2>8. to >= from - IF u = Owner[o] /\ side = asked[o].side /\ r > 0 THEN r ELSE 0
    <3>1. CASE CanRelease(bal, Owner[o], SideAsset(asked[o].side), r)
      <4>1. SideAsset(side) \in Assets /\ SideAsset(asked[o].side) \in Assets
        BY ServiceAssumption DEF SideAsset
      <4>2. bal' = AfterUnfreeze(bal, Owner[o], SideAsset(asked[o].side), r)
        BY <1>7, <3>1
      <4>3. bal'[u][SideAsset(side)].frozen = bal[u][SideAsset(side)].frozen
              - IF u = Owner[o] /\ SideAsset(side) = SideAsset(asked[o].side) THEN r ELSE 0
        BY <1>2, <4>1, <4>2, FrozenMoves
      <4>4. SideAsset(side) = SideAsset(asked[o].side) <=> side = asked[o].side
        BY <1>4, ServiceAssumption DEF SideAsset
      <4>5. r > 0
        BY <3>1 DEF CanRelease
      <4>6. to = from - IF u = Owner[o] /\ side = asked[o].side THEN r ELSE 0
        BY <2>2, <2>5, <4>3, <4>4
      <4> QED
        BY <4>5, <4>6
    <3>2. CASE ~CanRelease(bal, Owner[o], SideAsset(asked[o].side), r)
      <4>1. bal' = bal
        BY <1>7, <3>2
      <4>2. to = from
        BY <2>2, <2>5, <4>1
      <4> QED
        BY <4>2
    <3> QED
      BY <3>1, <3>2
  <2>9. to >= from + IF o \in PlacedOf(u, side) THEN Held'[o] - Held[o] ELSE 0
    <3>1. Held[o] \in Int
      BY <1>2, <1>8
    <3> QED
      BY <2>6, <2>7, <2>8, <3>1
  <2>10. to >= SumFunctionOnSet(Held, PlacedOf(u, side))'
    BY <1>0, <2>1, <2>3, <2>9, SideCovered
  <2> QED
    BY <2>5, <2>10
<1> QED
  BY <1>12, BackedSidesNext

\* A goroutine ends, or a cancellation does.
LEMMA ReleaseFunds ==
  ASSUME FundsInv, NEW o \in OrderIds, FinishPlace(o) \/ UnfreezeCanceled(o)
  PROVE  FundsInv'
<1>0. /\ ServiceInv /\ EngineInv /\ TypeOK /\ Stages
      /\ IsFiniteSet(Placed) /\ FrozenBacks /\ TakerWaits /\ OpenKeeps
  BY DEF FundsInv, ServiceInv
<1>1. ServiceInv'
  BY <1>0, ReleaseKeeps
<1>2. /\ UNCHANGED engineVars /\ UNCHANGED <<asked, spent, outcome>>
      /\ UnfreezeRemaining(o) \/ UNCHANGED <<frozenUnits, bal>>
  BY DEF FinishPlace, UnfreezeCanceled
<1>3. trades' = trades /\ status' = status /\ taker' = taker
  BY <1>2 DEF engineVars
<1>4. /\ pc[o] \in {"submitted", "stored", "failed"} /\ pc'[o] \in {"stored", "failed"}
      /\ \A x \in OrderIds \ {o} : pc'[x] = pc[x] /\ cancelPc'[x] = cancelPc[x]
      /\ cancelPc'[o] = "idle"
      /\ taker # o \/ pc'[o] = pc[o]
  <2>1. /\ pc \in [OrderIds -> {"idle", "frozen", "submitted", "stored", "failed", "refused"}]
        /\ cancelPc \in [OrderIds -> {"idle", "canceled"}]
    BY <1>0 DEF TypeOK
  <2>2. CASE FinishPlace(o)
    <3>1. /\ pc[o] = "submitted" /\ taker # o
          /\ pc' = [pc EXCEPT ![o] = "stored"] /\ cancelPc' = cancelPc
      BY <2>2 DEF FinishPlace, Returned
    <3>2. cancelPc[o] = "idle"
      BY <1>0, <3>1 DEF Stages, StageOf
    <3> QED
      BY <2>1, <3>1, <3>2
  <2>3. CASE UnfreezeCanceled(o)
    <3>1. cancelPc[o] = "canceled" /\ cancelPc' = [cancelPc EXCEPT ![o] = "idle"] /\ pc' = pc
      BY <2>3 DEF UnfreezeCanceled
    <3>2. pc[o] \in {"stored", "failed"}
      BY <1>0, <3>1 DEF Stages, StageOf
    <3> QED
      BY <2>1, <3>1, <3>2
  <2> QED
    BY <2>2, <2>3
<1>5. Placed' = Placed /\ o \in Placed
  BY <1>4 DEF Placed
<1>6. TakerWaits'
  BY <1>0, <1>3, <1>4 DEF TakerWaits, EngineInv, EP!IInv, EP!TypeOK
<1>7. /\ \A x \in OrderIds \ {o} : frozenUnits'[x] = frozenUnits[x]
      /\ status[o] \in EP!Open => frozenUnits'[o] = FreezeAmount(asked[o])
  <2>1. CASE UnfreezeRemaining(o)
    <3>1. \A x \in OrderIds \ {o} : frozenUnits'[x] = frozenUnits[x]
      BY <1>0, <2>1 DEF UnfreezeRemaining, TypeOK
    <3>2. CASE status[o] \notin EP!Open
      BY <3>1, <3>2
    <3>3. CASE status[o] \in EP!Open
      <4>1. ~UnfreezeCanceled(o)
        <5>1. cancelPc[o] = "canceled" => pc[o] \in {"stored", "failed"}
          BY <1>0 DEF Stages, StageOf
        <5> QED
          BY <1>0, <3>3, <5>1 DEF UnfreezeCanceled, OpenKeeps
      <4>2. UNCHANGED <<frozenUnits, bal>> /\ pc[o] = "submitted"
        BY <3>3, <4>1 DEF FinishPlace, Returned, EP!Open
      <4> QED
        BY <1>0, <4>2 DEF Stages, StageOf
    <3> QED
      BY <3>2, <3>3
  <2>2. CASE UNCHANGED <<frozenUnits, bal>>
    <3>1. status[o] \in EP!Open => frozenUnits[o] = FreezeAmount(asked[o])
      BY <1>0, <1>4 DEF OpenKeeps, Stages, StageOf
    <3> QED
      BY <2>2, <3>1
  <2> QED
    BY <1>2, <2>1, <2>2
<1>8. OpenKeeps'
  <2> SUFFICES ASSUME NEW x \in OrderIds, pc'[x] \in {"stored", "failed"}
               PROVE  /\ cancelPc'[x] = "canceled" => status'[x] \notin EP!Open
                      /\ status'[x] \in EP!Open => frozenUnits'[x] = FreezeAmount(asked'[x])
    BY DEF OpenKeeps, FreezeAmount
  <2>1. CASE x = o
    BY <1>2, <1>3, <1>4, <1>7, <2>1
  <2>2. CASE x # o
    <3>1. pc[x] \in {"stored", "failed"}
      BY <1>4, <2>2
    <3> QED
      BY <1>0, <1>2, <1>3, <1>4, <1>7, <2>2, <3>1 DEF OpenKeeps
  <2> QED
    BY <2>1, <2>2
<1>9. FrozenBacks'
  <2>1. CASE UnfreezeRemaining(o)
    BY <1>1, <1>2, <1>3, <1>5, <2>1, ReleaseBacks
  <2>2. CASE UNCHANGED <<frozenUnits, bal>>
    <3>1. ASSUME NEW y \in Placed PROVE Held'[y] = Held[y]
      <4>1. y \in OrderIds
        BY DEF Placed
      <4>2. Held'[y] = frozenUnits'[y] - Used(y, Taken(y))
        BY <1>0, <1>2, <1>3, <4>1, HeldStays
      <4> QED
        BY <2>2, <4>1, <4>2 DEF Held
    <3> QED
      BY <1>0, <1>1, <1>2, <1>5, <2>2, <3>1, BackingStays
  <2> QED
    BY <1>2, <2>1, <2>2
<1> QED
  BY <1>0, <1>1, <1>5, <1>6, <1>8, <1>9 DEF FundsInv

\* Every step keeps the invariant of the frozen funds ...
LEMMA NextFunds == FundsInv /\ [Next]_vars => FundsInv'
<1> SUFFICES ASSUME FundsInv, [Next]_vars PROVE FundsInv'
  OBVIOUS
<1>1. CASE EngineWorks
  BY <1>1, WorkFunds
<1>2. ASSUME NEW o \in OrderIds, Place(o) PROVE FundsInv'
  BY <1>2, PlaceFunds DEF Place
<1>3. ASSUME NEW o \in OrderIds, SubmitOrder(o) PROVE FundsInv'
  BY <1>3, SubmitFunds
<1>4. ASSUME NEW o \in OrderIds, Proceed(o) PROVE FundsInv'
  BY <1>4, SettleFunds, ReleaseFunds DEF Proceed
<1>5. ASSUME NEW o \in OrderIds, CancelInEngine(o) PROVE FundsInv'
  BY <1>5, CancelFunds
<1>6. CASE UNCHANGED vars
  <2>1. UNCHANGED engineVars /\ UNCHANGED <<asked, pc, frozenUnits, spent, outcome, cancelPc, bal>>
    BY <1>6 DEF vars, serviceVars
  <2>2. trades' = trades /\ status' = status /\ taker' = taker
    BY <2>1 DEF engineVars
  <2>3. ServiceInv' /\ TakerWaits /\ OpenKeeps
    BY NextInv DEF FundsInv
  <2>4. Placed' = Placed /\ TakerWaits' /\ OpenKeeps'
    BY <2>1, <2>2, <2>3 DEF Placed, TakerWaits, OpenKeeps, FreezeAmount
  <2> QED
    BY <2>1, <2>2, <2>3, <2>4, EngineFunds
<1> QED
  BY <1>1, <1>2, <1>3, <1>4, <1>5, <1>6 DEF Next

\* ... it holds at the start ...
LEMMA InitFunds == Init => FundsInv
<1> SUFFICES ASSUME Init PROVE FundsInv
  OBVIOUS
<1>1. ServiceInv
  BY InitInv
<1>2. pc = [o \in OrderIds |-> "idle"] /\ bal = Deposits
  BY DEF Init
<1>3. Placed = {} /\ \A u, side : PlacedOf(u, side) = {}
  BY <1>2 DEF Placed, PlacedOf
<1>4. \A u, side : SumFunctionOnSet(Held, PlacedOf(u, side)) = 0
  BY <1>3, SumEmpty
<1>5. FrozenBacks
  <2>1. \A u \in Users : bal[u][BaseAsset].frozen >= 0 /\ bal[u][QuoteAsset].frozen >= 0
    BY <1>2, ServiceAssumption DEF BalanceTypes
  <2> QED
    BY <1>4, <2>1 DEF FrozenBacks
<1>6. TakerWaits
  BY SameInit DEF Init, EP!Init, TakerWaits
<1>7. OpenKeeps
  BY <1>2 DEF OpenKeeps
<1>8. IsFiniteSet(Placed)
  BY <1>3, FS_EmptySet
<1> QED
  BY <1>1, <1>5, <1>6, <1>7, <1>8 DEF FundsInv

\* ... and so in every reachable state: what users have frozen covers what their
\* orders hold, however calls and cancellations overlap.
THEOREM FundsInvariance == Spec => []FundsInv
  BY InitFunds, NextFunds, PTL DEF Spec

------------------------------------------------------------------------------
(***************************************************************************)
(* What frozen funds are enough for.                                       *)
(***************************************************************************)

\* What the trades of an order cost it, in the terms of the engine's proofs.
LEMMA OwesUsed == \A o \in OrderIds : Owes(o) = Used(o, EP!OwnTrades(o))
<1> TAKE o \in OrderIds
<1>1. Engine!OwnTrades(o) = EP!OwnTrades(o)
  BY DEF Engine!OwnTrades, EP!OwnTrades
<1> QED
  BY <1>1, SameTerms DEF Owes, Used, Worth

\* The same of the next state.
LEMMA OwesUsedNext == \A o \in OrderIds : Owes(o)' = Used(o, EP!OwnTrades(o))'
<1>1. (\A o \in OrderIds : Owes(o) = Used(o, EP!OwnTrades(o)))'
  BY OwesUsed, PTL
<1> QED
  BY <1>1

\* An order that does not run short holds enough for each trade that is not
\* settled.
LEMMA HeldEnough ==
  ASSUME FundsInv, NEW o \in Placed, ~Short(o)
  PROVE  /\ o \in OrderIds /\ Held[o] \in Nat
         /\ \A i \in EP!OwnTrades(o) \ DOMAIN outcome : Held[o] >= Worth(o)[i]
<1>0. ServiceInv /\ EngineInv /\ WorthTold /\ o \in OrderIds
  BY UsedFacts DEF FundsInv, ServiceInv, Placed
<1> DEFINE own == EP!OwnTrades(o)
<1>1. /\ own \in SUBSET DOMAIN trades /\ Taken(o) \in SUBSET own
      /\ \A i \in DOMAIN trades : Worth(o)[i] \in Nat
      /\ \A T \in SUBSET DOMAIN trades :
           /\ IsFiniteSet(T) /\ Used(o, T) \in Nat
           /\ \A S \in SUBSET T : Used(o, S) <= Used(o, T)
      /\ frozenUnits[o] \in Nat /\ Used(o, {}) = 0
      /\ Held[o] = frozenUnits[o] - Used(o, Taken(o)) /\ Held[o] \in Int
  BY <1>0 DEF WorthTold
<1>2. Used(o, own) <= frozenUnits[o]
  <2>1. CASE status[o] = "NONE"
    <3>1. \A i \in DOMAIN trades : trades[i].maker # o /\ trades[i].taker # o
      BY <1>0, <2>1 DEF EngineInv, EP!IInv, EP!TradesSound
    <3>2. own = {}
      BY <3>1 DEF EP!OwnTrades
    <3> HIDE DEF own
    <3> QED
      BY <1>1, <3>2
  <2>2. CASE status[o] # "NONE"
    <3>1. Owes(o) <= frozenUnits[o]
      <4>1. ~(Owes(o) > frozenUnits[o])
        BY <2>2 DEF Short
      <4>2. Owes(o) \in Nat
        BY <1>0, <1>1, OwesUsed
      <4> QED
        BY <1>1, <4>1, <4>2
    <3> QED
      BY <1>0, <3>1, OwesUsed
  <2> QED
    BY <2>1, <2>2
<1> HIDE DEF own
<1>3. Taken(o) \in SUBSET DOMAIN trades
  BY <1>1
<1>4. /\ Used(o, Taken(o)) <= Used(o, own) /\ Used(o, Taken(o)) \in Nat
      /\ Used(o, own) \in Nat
  BY <1>1, <1>3
<1>5. Held[o] \in Nat
  BY <1>1, <1>2, <1>4
<1>6. ASSUME NEW i \in own \ DOMAIN outcome PROVE Held[o] >= Worth(o)[i]
  <2>1. i \notin Taken(o) /\ Taken(o) \cup {i} \in SUBSET own /\ i \in DOMAIN trades
    BY <1>1 DEF Taken
  <2>2. Used(o, Taken(o) \cup {i}) <= Used(o, own)
    BY <1>1, <2>1
  <2>3. Used(o, Taken(o) \cup {i}) = Used(o, Taken(o)) + Worth(o)[i]
    <3>1. IsFiniteSet(Taken(o)) /\ \A k \in Taken(o) \cup {i} : Worth(o)[k] \in Int
      BY <1>1, <1>3, <2>1
    <3> QED
      BY <2>1, <3>1, SumInsert DEF Used
  <2>4. Worth(o)[i] \in Nat
    BY <1>1, <2>1
  <2> QED
    BY <1>1, <1>2, <1>4, <2>2, <2>3, <2>4
<1> QED
  BY <1>0, <1>5, <1>6 DEF own

\* While no order of a user and side runs short, their holdings add up, and none
\* is more than the user has frozen.
LEMMA SideHolds ==
  ASSUME FundsInv, NEW u \in Users, NEW side \in {"BUY", "SELL"}, ~SomeShort(u, side)
  PROVE  /\ IsFiniteSet(PlacedOf(u, side)) /\ bal[u][SideAsset(side)].frozen \in Nat
         /\ \A o \in PlacedOf(u, side) : Held[o] \in Nat
         /\ SumFunctionOnSet(Held, PlacedOf(u, side)) \in Nat
         /\ SumFunctionOnSet(Held, PlacedOf(u, side)) <= bal[u][SideAsset(side)].frozen
         /\ \A o \in PlacedOf(u, side) : \A i \in EP!OwnTrades(o) \ DOMAIN outcome :
              Worth(o)[i] <= bal[u][SideAsset(side)].frozen
<1>0. ServiceInv /\ TypeOK /\ IsFiniteSet(Placed) /\ FrozenBacks
  BY DEF FundsInv, ServiceInv
<1>1. IsFiniteSet(PlacedOf(u, side)) /\ PlacedOf(u, side) \subseteq Placed
  BY <1>0, FS_Subset DEF PlacedOf
<1>2. \A o \in PlacedOf(u, side) : ~Short(o)
  BY DEF PlacedOf, Placed, SomeShort
<1>3. ASSUME NEW o \in PlacedOf(u, side)
      PROVE  /\ o \in OrderIds /\ Held[o] \in Nat
             /\ \A i \in EP!OwnTrades(o) \ DOMAIN outcome : Held[o] >= Worth(o)[i]
  BY <1>1, <1>2, HeldEnough
<1>4. PICK from \in Nat : from = bal[u][SideAsset(side)].frozen
  BY <1>0, ServiceAssumption DEF TypeOK, BalanceTypes, SideAsset
<1>5. from >= SumFunctionOnSet(Held, PlacedOf(u, side))
  BY <1>0, <1>4, BackedSides
<1>6. /\ SumFunctionOnSet(Held, PlacedOf(u, side)) \in Nat
      /\ \A o \in PlacedOf(u, side) : Held[o] <= SumFunctionOnSet(Held, PlacedOf(u, side))
  BY <1>1, <1>3, SumNat
<1>7. ASSUME NEW o \in PlacedOf(u, side), NEW i \in EP!OwnTrades(o) \ DOMAIN outcome
      PROVE  Worth(o)[i] <= from
  <2>1. Worth(o)[i] \in Nat
    BY <1>0, <1>3, UsedFacts DEF WorthTold
  <2>2. Held[o] \in Nat /\ Held[o] >= Worth(o)[i]
    BY <1>3
  <2> QED
    BY <1>5, <1>6, <2>1, <2>2
<1> QED
  BY <1>1, <1>3, <1>4, <1>5, <1>6, <1>7

\* What an order in the book holds is enough for what it may still trade.
LEMMA RestingHolds ==
  ASSUME FundsInv, NEW o \in active
  PROVE  /\ o \in Placed /\ req[o] = asked[o] /\ rem[o] \in Int
         /\ asked[o].side = "SELL" => rem[o] <= Held[o]
         /\ asked[o].side = "BUY" =>
              /\ PriceQtyToQuote(req[o].price, rem[o]) \in Nat
              /\ PriceQtyToQuote(req[o].price, rem[o]) <= Held[o]
<1>0. ServiceInv /\ EngineInv /\ TypeOK /\ Stages /\ OpenKeeps /\ WorthTold
  BY UsedFacts DEF FundsInv, ServiceInv
<1>1. o \in OrderIds /\ status[o] \in EP!Open /\ status[o] # "NONE"
  BY <1>0 DEF EngineInv, EP!IInv, EP!TypeOK, EP!BookConsistent, EP!Open
<1>2. req[o] = asked[o] /\ asked[o] \in Requests /\ pc[o] \in {"submitted", "stored", "failed"}
  BY <1>0, <1>1, OwnWithin
<1>3. frozenUnits[o] = FreezeAmount(asked[o])
  BY <1>0, <1>1, <1>2 DEF Stages, StageOf, OpenKeeps
<1>4. PICK n \in Nat : n = Used(o, EP!OwnTrades(o))
  BY <1>0, <1>1 DEF WorthTold
<1>5. PICK m \in Nat : m = Used(o, Taken(o)) /\ m <= n
  BY <1>0, <1>1, <1>4 DEF WorthTold
<1>6. Held[o] = FreezeAmount(asked[o]) - m /\ FreezeAmount(asked[o]) \in Nat
  BY <1>0, <1>1, <1>2, <1>3, <1>5, FreezeFacts DEF WorthTold
<1>7. filled[o] \in Nat /\ filled[o] = SumFunctionOnSet(EP!Quantities, EP!OwnTrades(o))
      /\ rem[o] = req[o].qty - filled[o] /\ rem[o] \in Int
  BY <1>0, <1>1, SameTerms DEF EngineInv, EP!TradesTold, EP!IInv, EP!TypeOK, EP!Accounting
<1>8. asked[o].side = "SELL" => rem[o] <= Held[o]
  <2> SUFFICES ASSUME asked[o].side = "SELL" PROVE rem[o] <= Held[o]
    OBVIOUS
  <2>1. FreezeAmount(asked[o]) = asked[o].qty
    BY DEF FreezeAmount
  <2>2. n = filled[o]
    BY <1>4, <1>7 DEF Used, Worth
  <2> QED
    BY <1>2, <1>5, <1>6, <1>7, <2>1, <2>2
<1>9. ASSUME asked[o].side = "BUY"
      PROVE  /\ PriceQtyToQuote(req[o].price, rem[o]) \in Nat
             /\ PriceQtyToQuote(req[o].price, rem[o]) <= Held[o]
  <2>1. req[o].type = "LIMIT" /\ req[o].price \in Prices
    BY <1>0, EP!ActiveFacts, EngineHyp, BaseAssumption DEF EngineInv, EP!IInv
  <2>2. PriceQtyToQuote(req[o].price, rem[o]) \in Nat
    BY <1>7, <2>1, PriceFacts, CostNat
  <2>3. SumFunctionOnSet(EP!Costs, EP!OwnTrades(o)) + PriceQtyToQuote(req[o].price, rem[o])
          <= PriceQtyToQuote(req[o].price, req[o].qty)
    BY <1>0, <1>1, <1>2, <1>9, <2>1, SameTerms DEF EngineInv, EP!BuysCovered, EP!IsLimitBuy
  <2>4. n = SumFunctionOnSet(EP!Costs, EP!OwnTrades(o))
    BY <1>4, <1>9 DEF Used, Worth
  <2>5. FreezeAmount(asked[o]) = PriceQtyToQuote(req[o].price, req[o].qty)
    BY <1>2, <1>9, <2>1 DEF FreezeAmount
  <2> QED
    BY <1>5, <1>6, <2>2, <2>3, <2>4, <2>5
<1> QED
  BY <1>1, <1>2, <1>7, <1>8, <1>9 DEF Placed

\* The orders in the book are among those for which funds were frozen.
LEMMA RestingPlaced ==
  ASSUME FundsInv, NEW u \in Users, NEW side
  PROVE  Resting(u, side) \subseteq active /\ Resting(u, side) \subseteq PlacedOf(u, side)
         /\ \A o \in Resting(u, side) : asked[o].side = side
  BY RestingHolds DEF Resting, PlacedOf

\* At every moment a user's frozen funds are enough for what the user's orders in
\* the book may still trade, unless an order of that user and side runs short;
\* whatever calls and cancellations are under way.
THEOREM ReservesBackOrdersSafe == Spec => []ReservesBackOrders
<1>1. FundsInv => ReservesBackOrders
  <2> SUFFICES ASSUME FundsInv, NEW u \in Users
               PROVE  /\ ~SomeShort(u, "SELL") =>
                           bal[u][BaseAsset].frozen >= SumFunctionOnSet(rem, Resting(u, "SELL"))
                      /\ ~SomeShort(u, "BUY") =>
                           bal[u][QuoteAsset].frozen >=
                             SumFunctionOnSet([o \in active |-> PriceQtyToQuote(req[o].price, rem[o])],
                                              Resting(u, "BUY"))
    BY DEF ReservesBackOrders
  <2>1. ASSUME NEW side \in {"BUY", "SELL"}, ~SomeShort(u, side), NEW f,
               \A o \in Resting(u, side) : f[o] \in Int /\ f[o] <= Held[o]
        PROVE  bal[u][SideAsset(side)].frozen >= SumFunctionOnSet(f, Resting(u, side))
    <3>1. /\ IsFiniteSet(PlacedOf(u, side)) /\ bal[u][SideAsset(side)].frozen \in Nat
          /\ \A o \in PlacedOf(u, side) : Held[o] \in Nat
          /\ SumFunctionOnSet(Held, PlacedOf(u, side)) \in Nat
          /\ SumFunctionOnSet(Held, PlacedOf(u, side)) <= bal[u][SideAsset(side)].frozen
      BY <2>1, SideHolds
    <3>2. Resting(u, side) \subseteq PlacedOf(u, side) /\ IsFiniteSet(Resting(u, side))
      BY <3>1, RestingPlaced, FS_Subset
    <3>3. SumFunctionOnSet(f, Resting(u, side)) <= SumFunctionOnSet(Held, PlacedOf(u, side))
      BY <2>1, <3>1, <3>2, SumWithin
    <3>4. SumFunctionOnSet(f, Resting(u, side)) \in Int
      BY <2>1, <3>2, SumType
    <3> QED
      BY <3>1, <3>3, <3>4
  <2>2. ASSUME ~SomeShort(u, "SELL")
        PROVE  bal[u][BaseAsset].frozen >= SumFunctionOnSet(rem, Resting(u, "SELL"))
    <3>1. \A o \in Resting(u, "SELL") : rem[o] \in Int /\ rem[o] <= Held[o]
      BY RestingPlaced, RestingHolds
    <3>2. PICK f : f = rem
      OBVIOUS
    <3>3. bal[u][SideAsset("SELL")].frozen >= SumFunctionOnSet(f, Resting(u, "SELL"))
      BY <2>1, <2>2, <3>1, <3>2
    <3> QED
      BY <3>2, <3>3 DEF SideAsset
  <2>3. ASSUME ~SomeShort(u, "BUY")
        PROVE  bal[u][QuoteAsset].frozen >=
                 SumFunctionOnSet([o \in active |-> PriceQtyToQuote(req[o].price, rem[o])],
                                  Resting(u, "BUY"))
    <3>1. PICK f : f = [o \in active |-> PriceQtyToQuote(req[o].price, rem[o])]
      OBVIOUS
    <3>2. \A o \in Resting(u, "BUY") : f[o] \in Int /\ f[o] <= Held[o]
      <4> TAKE o \in Resting(u, "BUY")
      <4>1. o \in active /\ asked[o].side = "BUY"
        BY RestingPlaced
      <4>2. f[o] = PriceQtyToQuote(req[o].price, rem[o])
        BY <3>1, <4>1
      <4> QED
        BY <4>1, <4>2, RestingHolds
    <3>3. bal[u][SideAsset("BUY")].frozen >= SumFunctionOnSet(f, Resting(u, "BUY"))
      BY <2>1, <2>3, <3>2
    <3> QED
      BY <3>1, <3>3 DEF SideAsset
  <2> QED
    BY <2>2, <2>3
<1> QED
  BY <1>1, FundsInvariance, PTL

\* Steps do not undo anything: trades, requests and outcomes stay, and what was
\* frozen for a submitted order never grows.
LEMMA NothingUndone ==
  ASSUME ServiceInv, [Next]_vars
  PROVE  /\ trades' = trades \/ \E t \in EP!Trade : trades' = Append(trades, t)
         /\ \A o \in OrderIds : status[o] # "NONE" =>
              /\ status'[o] # "NONE" /\ req'[o] = req[o] /\ asked'[o] = asked[o]
              /\ frozenUnits'[o] <= frozenUnits[o]
         /\ \A k \in DOMAIN outcome : k \in DOMAIN outcome' /\ outcome'[k] = outcome[k]
         /\ outcome' = outcome \/ \E o \in OrderIds : SettleNext(o)
<1>0. EngineInv /\ TypeOK /\ Stages
  BY DEF ServiceInv
<1>1. \A o \in OrderIds : frozenUnits[o] \in Int
  BY <1>0 DEF TypeOK
<1>2. ASSUME EP!Next, UNCHANGED <<asked, frozenUnits, outcome>>
      PROVE  /\ trades' = trades \/ \E t \in EP!Trade : trades' = Append(trades, t)
             /\ \A o \in OrderIds : status[o] # "NONE" =>
                  /\ status'[o] # "NONE" /\ req'[o] = req[o] /\ asked'[o] = asked[o]
                  /\ frozenUnits'[o] <= frozenUnits[o]
             /\ \A k \in DOMAIN outcome : k \in DOMAIN outcome' /\ outcome'[k] = outcome[k]
             /\ outcome' = outcome
  BY <1>0, <1>1, <1>2, EngineStep
<1>3. CASE EngineWorks
  <2>1. EP!Next /\ UNCHANGED <<asked, frozenUnits, outcome>>
    BY <1>3, SameWork DEF EngineWorks, serviceVars, EP!Next
  <2> QED
    BY <1>2, <2>1
<1>4. ASSUME NEW x \in OrderIds, SubmitOrder(x) PROVE EP!Next /\ UNCHANGED <<asked, frozenUnits, outcome>>
  <2>1. pc[x] = "frozen" /\ UNCHANGED <<asked, frozenUnits, outcome>>
    BY <1>4 DEF SubmitOrder
  <2>2. asked[x] \in Requests
    BY <1>0, <2>1 DEF Stages, StageOf
  <2>3. EP!SubmitAccepted(x, asked[x]) \/ EP!SubmitRejected(x, asked[x])
    BY <1>4, SameSubmit DEF SubmitOrder
  <2> QED
    BY <2>1, <2>2, <2>3 DEF EP!Next, EP!Submit
<1>5. ASSUME NEW x \in OrderIds, CancelInEngine(x) PROVE EP!Next /\ UNCHANGED <<asked, frozenUnits, outcome>>
  BY <1>5, SameCancel DEF CancelInEngine, EP!Next
<1>6. ASSUME NEW x \in OrderIds, NEW r \in Requests, PlaceFrozen(x, r) \/ PlaceRefused(x, r)
      PROVE  /\ UNCHANGED engineVars /\ outcome' = outcome
             /\ \A o \in OrderIds : status[o] # "NONE" =>
                  asked'[o] = asked[o] /\ frozenUnits'[o] <= frozenUnits[o]
  <2>1. /\ pc[x] = "idle" /\ asked' = [asked EXCEPT ![x] = r]
        /\ frozenUnits' = [frozenUnits EXCEPT ![x] = FreezeAmount(r)]
        /\ UNCHANGED engineVars /\ outcome' = outcome
    BY <1>6 DEF PlaceFrozen, PlaceRefused
  <2>2. status[x] = "NONE"
    BY <1>0, <2>1 DEF Stages, StageOf
  <2>3. \A o \in OrderIds \ {x} : asked'[o] = asked[o] /\ frozenUnits'[o] = frozenUnits[o]
    BY <1>0, <2>1 DEF TypeOK
  <2> QED
    BY <1>1, <2>1, <2>2, <2>3
<1>7. ASSUME NEW x \in OrderIds, SettleNext(x)
      PROVE  /\ UNCHANGED engineVars
             /\ \A k \in DOMAIN outcome : k \in DOMAIN outcome' /\ outcome'[k] = outcome[k]
             /\ \A o \in OrderIds : asked'[o] = asked[o] /\ frozenUnits'[o] <= frozenUnits[o]
  <2>1. UNCHANGED engineVars /\ UNCHANGED <<asked, frozenUnits>>
    BY <1>7, SettleFacts
  <2>2. PICK i \in DOMAIN trades, b \in OrderIds, s \in OrderIds, h \in {"done", "torn", "refused"} :
          Settling(x, i, b, s, h)
    BY <1>7, SettleFacts
  <2>3. /\ i \notin DOMAIN outcome
        /\ outcome' = [k \in DOMAIN outcome \cup {i} |-> IF k = i THEN h ELSE outcome[k]]
    BY <2>2 DEF Settling
  <2> QED
    BY <1>1, <2>1, <2>3
<1>8. ASSUME NEW x \in OrderIds, FinishPlace(x) \/ UnfreezeCanceled(x)
      PROVE  /\ UNCHANGED engineVars /\ outcome' = outcome
             /\ \A o \in OrderIds : asked'[o] = asked[o] /\ frozenUnits'[o] <= frozenUnits[o]
  <2>1. /\ UNCHANGED engineVars /\ UNCHANGED <<asked, outcome>>
        /\ UnfreezeRemaining(x) \/ frozenUnits' = frozenUnits
    BY <1>8 DEF FinishPlace, UnfreezeCanceled
  <2>2. CASE UnfreezeRemaining(x)
    <3> DEFINE rest == frozenUnits[x] - spent[x]
    <3>1. frozenUnits' = [frozenUnits EXCEPT ![x] = IF rest > 0 THEN @ - rest ELSE @]
      BY <2>2 DEF UnfreezeRemaining
    <3>2. rest \in Int /\ frozenUnits[x] \in Int
      BY <1>0 DEF TypeOK
    <3> HIDE DEF rest
    <3>3. (IF rest > 0 THEN frozenUnits[x] - rest ELSE frozenUnits[x]) <= frozenUnits[x]
      BY <3>2
    <3>4. frozenUnits'[x] <= frozenUnits[x] /\ \A o \in OrderIds \ {x} : frozenUnits'[o] = frozenUnits[o]
      BY <1>0, <3>1, <3>3 DEF TypeOK
    <3> QED
      BY <1>1, <2>1, <3>4
  <2>3. CASE frozenUnits' = frozenUnits
    BY <1>1, <2>1, <2>3
  <2> QED
    BY <2>1, <2>2, <2>3
<1>9. ASSUME UNCHANGED engineVars
      PROVE  /\ trades' = trades
             /\ \A o \in OrderIds : status[o] # "NONE" => status'[o] # "NONE" /\ req'[o] = req[o]
  BY <1>9 DEF engineVars
<1>10. CASE UNCHANGED vars
  <2>1. UNCHANGED engineVars /\ UNCHANGED <<asked, frozenUnits, outcome>>
    BY <1>10 DEF vars, serviceVars
  <2> QED
    BY <1>1, <1>9, <2>1
<1>11. ASSUME NEW x \in OrderIds, Place(x) \/ SubmitOrder(x) \/ Proceed(x) \/ CancelInEngine(x)
       PROVE  /\ trades' = trades \/ \E t \in EP!Trade : trades' = Append(trades, t)
              /\ \A o \in OrderIds : status[o] # "NONE" =>
                   /\ status'[o] # "NONE" /\ req'[o] = req[o] /\ asked'[o] = asked[o]
                   /\ frozenUnits'[o] <= frozenUnits[o]
              /\ \A k \in DOMAIN outcome : k \in DOMAIN outcome' /\ outcome'[k] = outcome[k]
              /\ outcome' = outcome \/ \E o \in OrderIds : SettleNext(o)
  <2>1. CASE Place(x)
    BY <1>6, <1>9, <2>1 DEF Place
  <2>2. CASE SubmitOrder(x) \/ CancelInEngine(x)
    BY <1>2, <1>4, <1>5, <2>2
  <2>3. CASE SettleNext(x)
    BY <1>7, <1>9, <2>3
  <2>4. CASE FinishPlace(x) \/ UnfreezeCanceled(x)
    BY <1>8, <1>9, <2>4
  <2> QED
    BY <1>11, <2>1, <2>2, <2>3, <2>4 DEF Proceed
<1> QED
  BY <1>2, <1>3, <1>10, <1>11 DEF Next

\* An order that runs short goes on doing so: it trades more or is given back
\* more, but nothing is frozen for it again.
LEMMA ShortStays ==
  ASSUME ServiceInv, [Next]_vars, NEW o \in OrderIds, Short(o)
  PROVE  Short(o)' /\ asked'[o] = asked[o]
<1>1. status[o] # "NONE" /\ Owes(o) > frozenUnits[o]
  BY DEF Short
<1>2. /\ trades' = trades \/ \E t \in EP!Trade : trades' = Append(trades, t)
      /\ status'[o] # "NONE" /\ asked'[o] = asked[o] /\ frozenUnits'[o] <= frozenUnits[o]
  BY <1>1, NothingUndone
<1>3. WorthTold /\ WorthTold'
  BY UsedFacts, UsedFactsNext, NextInv
<1>4. \A i \in DOMAIN trades : i \in DOMAIN trades' /\ trades'[i] = trades[i]
  <2>1. trades \in Seq(EP!Trade)
    BY TradeFacts DEF ServiceInv
  <2> QED
    BY <1>2, <2>1
<1>5. PICK S \in SUBSET DOMAIN trades : S = EP!OwnTrades(o)
  BY <1>3 DEF WorthTold
<1>6. PICK T \in SUBSET DOMAIN trades' : T = EP!OwnTrades(o)'
  BY <1>3 DEF WorthTold
<1>7. S \in SUBSET T
  BY <1>4, <1>5, <1>6 DEF EP!OwnTrades
<1>8. Used(o, S)' = Used(o, S)
  BY <1>2, UsedStays
<1>9. Used(o, S) \in Nat /\ frozenUnits[o] \in Nat
  BY <1>3 DEF WorthTold
<1>10. \A U \in SUBSET DOMAIN trades' :
         /\ Used(o, U)' \in Nat
         /\ \A V \in SUBSET U : Used(o, V)' <= Used(o, U)'
  BY <1>3 DEF WorthTold
<1>11. Used(o, S)' <= Used(o, T)' /\ Used(o, T)' \in Nat
  BY <1>7, <1>10
<1>12. frozenUnits'[o] \in Nat
  BY <1>3 DEF WorthTold
<1>13. Owes(o) = Used(o, S)
  BY <1>5, OwesUsed
<1>14. Owes(o)' = Used(o, T)'
  BY <1>6, OwesUsedNext DEF Used
<1>15. Owes(o)' > frozenUnits'[o]
  BY <1>1, <1>2, <1>8, <1>9, <1>11, <1>12, <1>13, <1>14
<1> QED
  BY <1>2, <1>15 DEF Short

\* So does a side of a user.
LEMMA SomeShortStays ==
  ASSUME ServiceInv, [Next]_vars, NEW u, NEW side, SomeShort(u, side)
  PROVE  SomeShort(u, side)'
<1>1. PICK o \in OrderIds : Owner[o] = u /\ Short(o) /\ asked[o].side = side
  BY DEF SomeShort
<1>2. Short(o)' /\ asked'[o] = asked[o]
  BY <1>1, ShortStays
<1> QED
  BY <1>1, <1>2 DEF SomeShort

\* A settlement fails only if both orders are of one user, or an order of the
\* side that cannot pay runs short: calls that settle at one time do not take
\* from each other what only one of them has frozen.
THEOREM SettlementFailsOnlyIfShortSafe == Spec => []SettlementFailsOnlyIfShort
<1>1. Init => SettlementFailsOnlyIfShort
  BY DEF Init, SettlementFailsOnlyIfShort
<1>2. ASSUME FundsInv, SettlementFailsOnlyIfShort, [Next]_vars
      PROVE  SettlementFailsOnlyIfShort'
  <2>0. ServiceInv /\ EngineInv /\ TypeOK
    BY <1>2 DEF FundsInv, ServiceInv
  <2>1. /\ trades' = trades \/ \E t \in EP!Trade : trades' = Append(trades, t)
        /\ \A o \in OrderIds : status[o] # "NONE" => req'[o] = req[o]
        /\ \A k \in DOMAIN outcome : k \in DOMAIN outcome' /\ outcome'[k] = outcome[k]
        /\ outcome' = outcome \/ \E o \in OrderIds : SettleNext(o)
    BY <1>2, <2>0, NothingUndone
  <2>2. ASSUME NEW k \in DOMAIN trades
        PROVE  Buyer(trades[k])' = Buyer(trades[k]) /\ Seller(trades[k])' = Seller(trades[k])
    <3>1. trades'[k] = trades[k]
      <4>1. trades \in Seq(EP!Trade)
        BY <2>0, TradeFacts
      <4> QED
        BY <2>1, <4>1
    <3>2. req'[trades[k].taker] = req[trades[k].taker]
      <4>1. trades[k].taker \in OrderIds /\ status[trades[k].taker] # "NONE"
        BY <2>0, TradeFacts DEF EngineInv, EP!IInv, EP!TradesSound
      <4> QED
        BY <2>1, <4>1
    <3> QED
      BY <3>1, <3>2 DEF Buyer, Seller
  <2>3. ASSUME NEW k \in DOMAIN outcome PROVE SettledOrShort(k)'
    <3>1. SettledOrShort(k) /\ k \in DOMAIN trades /\ outcome'[k] = outcome[k]
      BY <1>2, <2>0, <2>1 DEF SettlementFailsOnlyIfShort, TypeOK
    <3>2. Buyer(trades[k])' = Buyer(trades[k]) /\ Seller(trades[k])' = Seller(trades[k])
      BY <2>2, <3>1
    <3>3. /\ SomeShort(Owner[Buyer(trades[k])], "BUY") =>
               SomeShort(Owner[Buyer(trades[k])], "BUY")'
          /\ SomeShort(Owner[Seller(trades[k])], "SELL") =>
               SomeShort(Owner[Seller(trades[k])], "SELL")'
      <4>1. \A u, side : SomeShort(u, side) => SomeShort(u, side)'
        BY <1>2, <2>0, SomeShortStays
      <4>2. PICK u : u = Owner[Buyer(trades[k])]
        OBVIOUS
      <4>3. PICK v : v = Owner[Seller(trades[k])]
        OBVIOUS
      <4> QED
        BY <3>2, <4>1, <4>2, <4>3 DEF SomeShort
    <3> QED
      BY <3>1, <3>2, <3>3 DEF SettledOrShort, SomeShort
  <2>4. CASE outcome' = outcome
    BY <2>3, <2>4 DEF SettlementFailsOnlyIfShort
  <2>5. ASSUME NEW o \in OrderIds, SettleNext(o) PROVE SettlementFailsOnlyIfShort'
    <3>1. PICK i \in DOMAIN trades, b \in OrderIds, s \in OrderIds, h \in {"done", "torn", "refused"} :
            Settling(o, i, b, s, h)
      BY <2>0, <2>5, SettleFacts
    <3>2. /\ i \notin DOMAIN outcome /\ {b, s} \subseteq Placed
          /\ b = Buyer(trades[i]) /\ s = Seller(trades[i])
          /\ asked[b].side = "BUY" /\ asked[s].side = "SELL"
          /\ i \in EP!OwnTrades(b) /\ i \in EP!OwnTrades(s)
          /\ DOMAIN outcome' = DOMAIN outcome \cup {i} /\ outcome'[i] = h
          /\ h = "refused" /\ Owner[b] # Owner[s] => bal[Owner[b]][QuoteAsset].frozen < Worth(b)[i]
          /\ h = "torn" => bal[Owner[s]][BaseAsset].frozen < Worth(s)[i]
      BY <3>1 DEF Settling
    <3>3. PICK u \in Users : u = Owner[b]
      BY ServiceAssumption
    <3>4. PICK v \in Users : v = Owner[s]
      BY ServiceAssumption
    <3>5. \A w \in Users : bal[w][BaseAsset].frozen \in Int /\ bal[w][QuoteAsset].frozen \in Int
      BY <2>0, ServiceAssumption DEF TypeOK, BalanceTypes
    <3>6. Worth(b)[i] \in Nat /\ Worth(s)[i] \in Nat
      BY <2>0, UsedFacts DEF WorthTold
    <3>7. ASSUME h = "refused", u # v PROVE SomeShort(u, "BUY")
      <4> SUFFICES ASSUME ~SomeShort(u, "BUY") PROVE FALSE
        OBVIOUS
      <4>1. b \in PlacedOf(u, "BUY")
        BY <3>2, <3>3 DEF PlacedOf
      <4>2. Worth(b)[i] <= bal[u][SideAsset("BUY")].frozen
        BY <1>2, <3>2, <4>1, SideHolds
      <4>3. bal[u][QuoteAsset].frozen < Worth(b)[i]
        BY <3>2, <3>3, <3>4, <3>7
      <4> QED
        BY <3>5, <3>6, <4>2, <4>3 DEF SideAsset
    <3>8. ASSUME h = "torn" PROVE SomeShort(v, "SELL")
      <4> SUFFICES ASSUME ~SomeShort(v, "SELL") PROVE FALSE
        OBVIOUS
      <4>1. s \in PlacedOf(v, "SELL")
        BY <3>2, <3>4 DEF PlacedOf
      <4>2. Worth(s)[i] <= bal[v][SideAsset("SELL")].frozen
        BY <1>2, <3>2, <4>1, SideHolds
      <4>3. bal[v][BaseAsset].frozen < Worth(s)[i]
        BY <3>2, <3>4, <3>8
      <4> QED
        BY <3>5, <3>6, <4>2, <4>3 DEF SideAsset
    <3>9. SettledOrShort(i)'
      <4>1. Buyer(trades[i])' = b /\ Seller(trades[i])' = s
        BY <2>2, <3>2
      <4>2. \A w, side : SomeShort(w, side) => SomeShort(w, side)'
        BY <1>2, <2>0, SomeShortStays
      <4>3. /\ h = "refused" /\ u # v => SomeShort(u, "BUY")'
            /\ h = "torn" => SomeShort(v, "SELL")'
        BY <3>7, <3>8, <4>2
      <4>4. /\ h = "refused" /\ u # v => SomeShort(Owner[Buyer(trades[i])], "BUY")'
            /\ h = "torn" => SomeShort(Owner[Seller(trades[i])], "SELL")'
        BY <3>3, <3>4, <4>1, <4>3 DEF SomeShort
      <4> QED
        BY <3>1, <3>2, <3>3, <3>4, <4>1, <4>4 DEF SettledOrShort
    <3> QED
      BY <2>3, <3>2, <3>9 DEF SettlementFailsOnlyIfShort
  <2> QED
    BY <2>1, <2>4, <2>5
<1> QED
  BY <1>1, <1>2, FundsInvariance, PTL DEF Spec

------------------------------------------------------------------------------
(***************************************************************************)
(* Why an order runs short.                                                *)
(*                                                                         *)
(* An order that has only taken, and whose settlements have not failed, is *)
(* charged for all its trades by the time the rest is released.            *)
(***************************************************************************)

\* The order has not been filled as a maker.
NotMaker(o) == \A i \in DOMAIN trades : trades[i].maker # o

\* While the goroutine of an order settles, all its settlements are done, and
\* matching is over with the first of them; then its charge is complete if it
\* is nobody's maker, and it still is when the goroutine has ended.
ToldOf(o) ==
  /\ pc[o] = "submitted" =>
       /\ \A i \in DOMAIN outcome : trades[i].taker = o => outcome[i] = "done" /\ taker # o
       /\ NotMaker(o) /\ SettledBy(o) # {} /\ asked[o].side # "BUY" => spent[o] = filled[o]
  /\ pc[o] = "stored" /\ NotMaker(o) => Used(o, EP!OwnTrades(o)) <= spent[o]

Told == \A o \in OrderIds : ToldOf(o)

\* The inductive invariant of the charges.
ChargesInv == FundsInv /\ Told

\* Steps that neither trade nor settle for an order leave this alone.
LEMMA ToldStays ==
  ASSUME ServiceInv, trades' = trades, NEW o \in OrderIds, ToldOf(o),
         pc'[o] = pc[o], asked'[o] = asked[o], spent'[o] = spent[o], filled'[o] = filled[o],
         taker' = o => taker = o,
         \A i \in DOMAIN outcome' : trades[i].taker = o =>
           i \in DOMAIN outcome /\ outcome'[i] = outcome[i],
         \A i \in DOMAIN outcome : i \in DOMAIN outcome' /\ outcome'[i] = outcome[i]
  PROVE  ToldOf(o)'
<1>1. SettledBy(o)' = SettledBy(o) /\ NotMaker(o)' = NotMaker(o)
  BY DEF SettledBy, NotMaker
<1>2. Used(o, EP!OwnTrades(o))' = Used(o, EP!OwnTrades(o))
  <2>1. EP!OwnTrades(o)' = EP!OwnTrades(o)
    BY DEF EP!OwnTrades
  <2>2. PICK S \in SUBSET DOMAIN trades : S = EP!OwnTrades(o)
    BY DEF EP!OwnTrades
  <2>3. Used(o, S)' = Used(o, S)
    BY UsedStays
  <2> QED
    BY <2>1, <2>2, <2>3 DEF Used
<1> QED
  BY <1>1, <1>2 DEF ToldOf

\* What the event loop does to trades and fills.
LEMMA WorkFills ==
  ASSUME EngineInv, EP!Work
  PROVE  \/ trades' = trades /\ filled' = filled
         \/ \E t \in EP!Trade :
              /\ trades' = Append(trades, t) /\ t.taker = taker /\ taker' = taker
              /\ \A x \in OrderIds \ {t.maker, taker} : filled'[x] = filled[x]
<1>1. CASE EP!Fill
  <2>1. PICK m \in OrderIds, p \in Prices, qty \in Nat \ {0} : EP!FillOf(m, p, qty)
    BY <1>1, EP!FillHas, EngineHyp, BaseAssumption DEF EngineInv
  <2> DEFINE t == [maker |-> m, taker |-> taker, price |-> p, qty |-> qty]
  <2>2. /\ taker \in OrderIds /\ trades' = Append(trades, t) /\ taker' = taker
        /\ filled' = [filled EXCEPT ![taker] = @ + qty, ![m] = @ + qty]
    BY <2>1 DEF EP!FillOf
  <2>3. t \in EP!Trade /\ t.taker = taker /\ t.maker = m
    BY <2>2 DEF EP!Trade
  <2>4. \A x \in OrderIds \ {m, taker} : filled'[x] = filled[x]
    BY <2>2 DEF EngineInv, EP!IInv, EP!TypeOK
  <2> HIDE DEF t
  <2> QED
    BY <2>2, <2>3, <2>4
<1>2. CASE EP!FinishMarket \/ EP!FinishFilled \/ EP!FinishExpired \/ EP!FinishResting
  <2>1. PICK final : EP!Finish(final)
    BY <1>2 DEF EP!FinishMarket, EP!FinishFilled, EP!FinishExpired, EP!FinishResting
  <2> QED
    BY <2>1 DEF EP!Finish
<1> QED
  BY <1>1, <1>2 DEF EP!Work

\* The engine fills orders: the taker has settled nothing yet, and the other one
\* is a maker.
LEMMA WorkTold ==
  ASSUME ChargesInv, EngineWorks, NEW o \in OrderIds
  PROVE  ToldOf(o)'
<1>0. ServiceInv /\ EngineInv /\ TypeOK /\ TakerWaits /\ ToldOf(o)
  BY DEF ChargesInv, FundsInv, ServiceInv, Told
<1>1. EP!Work /\ UNCHANGED <<asked, pc, frozenUnits, spent, outcome, cancelPc, bal>>
  BY SameWork DEF EngineWorks, serviceVars
<1>2. taker \in OrderIds /\ taker' \in {taker, NoOrder}
  BY <1>0, <1>1, WorkClosed
<1>3. CASE trades' = trades /\ filled' = filled
  BY <1>0, <1>1, <1>2, <1>3, EngineAssumption, ToldStays
<1>4. ASSUME NEW t \in EP!Trade, trades' = Append(trades, t), t.taker = taker, taker' = taker,
             \A x \in OrderIds \ {t.maker, taker} : filled'[x] = filled[x]
      PROVE  ToldOf(o)'
  <2>1. /\ \A i \in DOMAIN trades : i \in DOMAIN trades' /\ trades'[i] = trades[i]
        /\ \E n \in DOMAIN trades' : trades'[n] = t /\ DOMAIN trades' = DOMAIN trades \cup {n}
    <3>1. trades \in Seq(EP!Trade)
      BY <1>0, TradeFacts
    <3>2. /\ Len(trades) \in Nat /\ DOMAIN trades = 1 .. Len(trades)
          /\ DOMAIN trades' = 1 .. (Len(trades) + 1) /\ trades'[Len(trades) + 1] = t
          /\ \A i \in DOMAIN trades : trades'[i] = trades[i]
      BY <1>4, <3>1
    <3>3. Len(trades) + 1 \in DOMAIN trades' /\ DOMAIN trades' = DOMAIN trades \cup {Len(trades) + 1}
      BY <3>2
    <3> QED
      BY <3>2, <3>3
  <2>2. DOMAIN outcome \subseteq DOMAIN trades
    BY <1>0 DEF TypeOK
  <2>3. SettledBy(o)' = SettledBy(o)
    BY <1>1, <2>1, <2>2 DEF SettledBy
  <2>4. CASE o = taker
    <3>1. pc[o] = "submitted"
      BY <1>0, <1>2, <2>4, EngineAssumption DEF TakerWaits
    <3>2. \A i \in DOMAIN outcome : trades[i].taker # o
      BY <1>0, <2>4, <3>1 DEF ToldOf
    <3>3. SettledBy(o) = {}
      BY <3>2 DEF SettledBy
    <3>4. \A i \in DOMAIN outcome' : trades'[i].taker # o
      BY <1>1, <2>1, <2>2, <3>2
    <3> QED
      BY <1>1, <2>3, <3>1, <3>3, <3>4 DEF ToldOf
  <2>5. CASE o = t.maker
    <3>1. ~NotMaker(o)'
      BY <2>1, <2>5 DEF NotMaker
    <3>2. \A i \in DOMAIN outcome' :
            /\ outcome'[i] = outcome[i] /\ i \in DOMAIN outcome /\ trades'[i].taker = trades[i].taker
      BY <1>1, <2>1, <2>2
    <3> QED
      BY <1>0, <1>1, <1>4, <3>1, <3>2 DEF ToldOf
  <2>6. CASE o # taker /\ o # t.maker
    <3>1. filled'[o] = filled[o]
      BY <1>4, <2>6
    <3>2. \A i \in DOMAIN outcome' :
            /\ outcome'[i] = outcome[i] /\ i \in DOMAIN outcome /\ trades'[i].taker = trades[i].taker
      BY <1>1, <2>1, <2>2
    <3>3. NotMaker(o)' = NotMaker(o)
      BY <2>1, <2>6 DEF NotMaker
    <3>4. EP!OwnTrades(o)' = EP!OwnTrades(o)
      BY <1>4, <2>1, <2>6 DEF EP!OwnTrades
    <3>5. PICK S \in SUBSET DOMAIN trades : S = EP!OwnTrades(o)
      BY DEF EP!OwnTrades
    <3>6. Used(o, S)' = Used(o, S)
      BY <1>0, <1>1, <1>4, UsedStays
    <3>7. Used(o, EP!OwnTrades(o))' = Used(o, EP!OwnTrades(o))
      BY <3>4, <3>5, <3>6 DEF Used
    <3> QED
      BY <1>0, <1>1, <1>4, <2>3, <3>1, <3>2, <3>3, <3>7 DEF ToldOf
  <2> QED
    BY <2>4, <2>5, <2>6
<1> QED
  BY <1>0, <1>1, <1>3, <1>4, WorkFills

\* Nothing is settled for an order before it is submitted.
LEMMA NewTold ==
  ASSUME ServiceInv, ServiceInv', UNCHANGED <<trades, outcome>>, NEW o \in OrderIds, status[o] = "NONE",
         pc'[o] \notin {"stored", "failed"}
  PROVE  ToldOf(o)'
<1>0. EngineInv /\ TypeOK
  BY DEF ServiceInv
<1>1. \A i \in DOMAIN trades : trades[i].taker # o
  BY <1>0 DEF EngineInv, EP!IInv, EP!TradesSound
<1>2. DOMAIN outcome' \subseteq DOMAIN trades /\ trades' = trades
  BY <1>0 DEF TypeOK
<1>3. SettledBy(o)' = {}
  BY <1>1, <1>2 DEF SettledBy
<1> QED
  BY <1>1, <1>2, <1>3 DEF ToldOf

\* An order is placed or submitted.
LEMMA StartTold ==
  ASSUME ChargesInv, NEW x \in OrderIds, Place(x) \/ SubmitOrder(x), NEW o \in OrderIds
  PROVE  ToldOf(o)'
<1>0. ServiceInv /\ EngineInv /\ TypeOK /\ Stages /\ ToldOf(o)
  BY DEF ChargesInv, FundsInv, ServiceInv, Told
<1>1. ServiceInv'
  BY <1>0, PlaceKeeps, SubmitKeeps DEF Place
<1>2. /\ pc[x] \in {"idle", "frozen"} /\ UNCHANGED <<spent, outcome>>
      /\ \E y \in {"frozen", "refused", "submitted"} : pc' = [pc EXCEPT ![x] = y]
      /\ asked' = asked \/ \E r : asked' = [asked EXCEPT ![x] = r]
  BY DEF Place, PlaceFrozen, PlaceRefused, SubmitOrder
<1>3. trades' = trades /\ (taker' = x \/ taker' = taker) /\ \A y \in OrderIds \ {x} : filled'[y] = filled[y]
  <2>1. CASE Place(x)
    BY <2>1 DEF Place, PlaceFrozen, PlaceRefused, engineVars
  <2>2. CASE SubmitOrder(x)
    <3>1. EP!SubmitAccepted(x, asked[x]) \/ EP!SubmitRejected(x, asked[x])
      BY <2>2, SameSubmit DEF SubmitOrder
    <3> QED
      BY <1>0, <3>1 DEF EP!SubmitAccepted, EP!SubmitRejected, EP!Arrive, EngineInv, EP!IInv, EP!TypeOK
  <2> QED
    BY <2>1, <2>2
<1>4. /\ pc'[x] \in {"frozen", "refused", "submitted"}
      /\ \A y \in OrderIds \ {x} : pc'[y] = pc[y] /\ asked'[y] = asked[y]
  BY <1>0, <1>2 DEF TypeOK
<1>5. CASE o = x
  <2>1. status[x] = "NONE"
    BY <1>0, <1>2 DEF Stages, StageOf
  <2> QED
    BY <1>0, <1>1, <1>2, <1>3, <1>4, <1>5, <2>1, NewTold
<1>6. CASE o # x
  BY <1>0, <1>2, <1>3, <1>4, <1>6, ToldStays
<1> QED
  BY <1>5, <1>6

\* A trade is settled: a sell order is charged what it was filled.
LEMMA SettleTold ==
  ASSUME ChargesInv, NEW x \in OrderIds, SettleNext(x), NEW o \in OrderIds
  PROVE  ToldOf(o)'
<1>0. ServiceInv /\ EngineInv /\ TypeOK /\ ToldOf(o)
  BY DEF ChargesInv, FundsInv, ServiceInv, Told
<1>1. pc[x] = "submitted" /\ taker # x /\ asked' = asked /\ UNCHANGED engineVars
  BY <1>0, SettleFacts
<1>2. PICK i \in DOMAIN trades, b \in OrderIds, s \in OrderIds, h \in {"done", "torn", "refused"} :
        Settling(x, i, b, s, h)
  BY <1>0, SettleFacts
<1>3. trades' = trades /\ taker' = taker /\ filled' = filled
  BY <1>1 DEF engineVars
<1>4. /\ trades[i].taker = x /\ i \notin DOMAIN outcome
      /\ outcome' = [k \in DOMAIN outcome \cup {i} |-> IF k = i THEN h ELSE outcome[k]]
      /\ \/ h = "done" /\ pc' = pc /\ \E c : spent' = [spent EXCEPT ![x] = Charge(x, c)]
         \/ h # "done" /\ pc' = [pc EXCEPT ![x] = "failed"] /\ spent' = spent
  BY <1>2 DEF Settling
<1>5. \A k \in DOMAIN outcome : k \in DOMAIN outcome' /\ outcome'[k] = outcome[k]
  BY <1>4
<1>6. CASE o # x
  <2>1. pc'[o] = pc[o] /\ spent'[o] = spent[o]
    BY <1>0, <1>4, <1>6 DEF TypeOK
  <2>2. \A k \in DOMAIN outcome' : trades[k].taker = o =>
          k \in DOMAIN outcome /\ outcome'[k] = outcome[k]
    BY <1>4, <1>6
  <2> QED
    BY <1>0, <1>1, <1>3, <1>5, <2>1, <2>2, ToldStays
<1>7. CASE o = x /\ h # "done"
  <2>1. pc'[o] = "failed"
    BY <1>0, <1>4, <1>7 DEF TypeOK
  <2> QED
    BY <2>1 DEF ToldOf
<1>8. CASE o = x /\ h = "done"
  <2>1. pc'[o] = "submitted"
    BY <1>1, <1>4, <1>8
  <2>2. asked[o].side # "BUY" => spent'[o] = filled'[o]
    BY <1>0, <1>3, <1>4, <1>8 DEF TypeOK, Charge
  <2>3. \A k \in DOMAIN outcome' : trades'[k].taker = o => outcome'[k] = "done" /\ taker' # o
    BY <1>0, <1>1, <1>3, <1>4, <1>8 DEF ToldOf
  <2> QED
    BY <1>1, <2>1, <2>2, <2>3 DEF ToldOf
<1> QED
  BY <1>6, <1>7, <1>8

\* The goroutine ends with all settlements done, and its charge is complete if
\* the order is nobody's maker.
LEMMA FinishTold ==
  ASSUME ChargesInv, NEW x \in OrderIds, FinishPlace(x) \/ UnfreezeCanceled(x), NEW o \in OrderIds
  PROVE  ToldOf(o)'
<1>0. ServiceInv /\ EngineInv /\ TypeOK /\ Stages /\ Charged /\ ToldOf(o) /\ WorthTold
  BY UsedFacts DEF ChargesInv, FundsInv, ServiceInv, Told
<1>1. /\ UNCHANGED engineVars /\ UNCHANGED <<asked, spent, outcome>>
      /\ pc' = pc \/ (FinishPlace(x) /\ pc' = [pc EXCEPT ![x] = "stored"])
  BY DEF FinishPlace, UnfreezeCanceled
<1>2. trades' = trades /\ taker' = taker /\ filled' = filled
  BY <1>1 DEF engineVars
<1>3. CASE pc'[o] = pc[o]
  BY <1>0, <1>1, <1>2, <1>3, ToldStays
<1>4. CASE pc'[o] # pc[o]
  <2>1. o = x /\ pc[o] = "submitted" /\ pc'[o] = "stored" /\ Unsettled(o) = {}
    BY <1>0, <1>1, <1>4 DEF TypeOK, FinishPlace, Returned
  <2>2. SUFFICES ASSUME NotMaker(o)' PROVE Used(o, EP!OwnTrades(o))' <= spent'[o]
    BY <2>1 DEF ToldOf
  <2>3. NotMaker(o)
    BY <1>2, <2>2 DEF NotMaker
  <2>4. EP!OwnTrades(o) = SettledBy(o)
    <3>1. \A i \in DOMAIN trades : trades[i].taker = o => i \in DOMAIN outcome /\ outcome[i] = "done"
      BY <1>0, <2>1 DEF Unsettled, ToldOf
    <3>2. DOMAIN outcome \subseteq DOMAIN trades
      BY <1>0 DEF TypeOK
    <3> QED
      BY <2>3, <3>1, <3>2 DEF EP!OwnTrades, SettledBy, NotMaker
  <2>5. Used(o, EP!OwnTrades(o)) \in Nat /\ Used(o, {}) = 0 /\ spent[o] \in Nat
    BY <1>0 DEF WorthTold, TypeOK
  <2>6. Used(o, EP!OwnTrades(o)) <= spent[o]
    <3>1. CASE asked[o].side = "BUY"
      BY <1>0, <2>1, <2>4, <2>5, <3>1 DEF Charged, ChargeOf, Used, Worth
    <3>2. CASE asked[o].side # "BUY" /\ SettledBy(o) = {}
      BY <2>4, <2>5, <3>2
    <3>3. CASE asked[o].side # "BUY" /\ SettledBy(o) # {}
      <4>1. spent[o] = filled[o]
        BY <1>0, <2>1, <2>3, <3>3 DEF ToldOf
      <4>2. filled[o] = SumFunctionOnSet(EP!Quantities, EP!OwnTrades(o))
        BY <1>0, SameTerms DEF EngineInv, EP!TradesTold
      <4> QED
        BY <2>5, <3>3, <4>1, <4>2 DEF Used, Worth
    <3> QED
      BY <3>1, <3>2, <3>3
  <2>7. Used(o, EP!OwnTrades(o))' = Used(o, EP!OwnTrades(o))
    <3>1. EP!OwnTrades(o)' = EP!OwnTrades(o)
      BY <1>2 DEF EP!OwnTrades
    <3>2. PICK S \in SUBSET DOMAIN trades : S = EP!OwnTrades(o)
      BY DEF EP!OwnTrades
    <3>3. Used(o, S)' = Used(o, S)
      BY <1>0, <1>1, <1>2, UsedStays
    <3> QED
      BY <3>1, <3>2, <3>3 DEF Used
  <2> QED
    BY <1>1, <2>6, <2>7
<1> QED
  BY <1>3, <1>4

\* Every step keeps the invariant of the charges.
LEMMA NextCharges == ChargesInv /\ [Next]_vars => ChargesInv'
<1> SUFFICES ASSUME ChargesInv, [Next]_vars PROVE ChargesInv'
  OBVIOUS
<1>0. FundsInv /\ FundsInv' /\ ServiceInv /\ Told
  BY NextFunds DEF ChargesInv, FundsInv
<1> SUFFICES ASSUME NEW o \in OrderIds PROVE ToldOf(o)'
  BY <1>0 DEF ChargesInv, Told
<1>1. CASE EngineWorks
  BY <1>1, WorkTold
<1>2. ASSUME NEW x \in OrderIds, Place(x) \/ SubmitOrder(x) PROVE ToldOf(o)'
  BY <1>2, StartTold
<1>3. ASSUME NEW x \in OrderIds, Proceed(x) PROVE ToldOf(o)'
  BY <1>3, SettleTold, FinishTold DEF Proceed
<1>4. ASSUME NEW x \in OrderIds, CancelInEngine(x) PROVE ToldOf(o)'
  <2>1. UNCHANGED <<asked, pc, spent, outcome>>
    BY <1>4 DEF CancelInEngine
  <2>2. EP!Cancel(x)
    BY <1>4, SameCancel DEF CancelInEngine
  <2>3. UNCHANGED <<trades, taker, filled>>
    BY <2>2 DEF EP!Cancel
  <2> QED
    BY <1>0, <2>1, <2>3, ToldStays DEF Told
<1>5. CASE UNCHANGED vars
  <2>1. UNCHANGED <<trades, taker, filled, asked, pc, spent, outcome>>
    BY <1>5 DEF vars, engineVars, serviceVars
  <2> QED
    BY <1>0, <2>1, ToldStays DEF Told
<1> QED
  BY <1>1, <1>2, <1>3, <1>4, <1>5 DEF Next

\* It holds at the start.
LEMMA InitCharges == Init => ChargesInv
<1> SUFFICES ASSUME Init PROVE ChargesInv
  OBVIOUS
<1>1. pc = [o \in OrderIds |-> "idle"]
  BY DEF Init
<1> QED
  BY <1>1, InitFunds DEF ChargesInv, Told, ToldOf

\* An order runs short only after it has left the book, and only if it traded as
\* a maker or its own settlements broke off; whatever calls and cancellations
\* overlap, no other order can make it so.
THEOREM ShortForCauseSafe == Spec => []ShortForCause
<1>1. ChargesInv => ShortForCause
  <2> SUFFICES ASSUME ChargesInv, NEW o \in OrderIds, Short(o)
               PROVE  o \notin active /\ (pc[o] = "failed" \/ \E t \in Range(trades) : t.maker = o)
    BY DEF ShortForCause
  <2>0. /\ FundsInv /\ ServiceInv /\ EngineInv /\ TypeOK /\ Stages /\ ChargedWithinFrozen
        /\ OpenKeeps /\ ToldOf(o) /\ WorthTold
    BY UsedFacts DEF ChargesInv, FundsInv, ServiceInv, Told
  <2>1. status[o] # "NONE" /\ Used(o, EP!OwnTrades(o)) > frozenUnits[o]
    BY OwesUsed DEF Short
  <2>2. /\ asked[o] \in Requests /\ pc[o] \in {"submitted", "stored", "failed"}
        /\ Used(o, EP!OwnTrades(o)) <= FreezeAmount(asked[o])
    BY <2>0, <2>1, OwnWithin
  <2>3. /\ Used(o, EP!OwnTrades(o)) \in Nat /\ frozenUnits[o] \in Nat
        /\ FreezeAmount(asked[o]) \in Nat /\ spent[o] \in Nat /\ spent[o] <= frozenUnits[o]
    BY <2>0, <2>2, FreezeFacts DEF WorthTold, TypeOK, ChargedWithinFrozen
  <2>4. frozenUnits[o] # FreezeAmount(asked[o])
    BY <2>1, <2>2, <2>3
  <2>5. pc[o] # "submitted"
    BY <2>0, <2>4 DEF Stages, StageOf
  <2>6. o \notin active
    <3>1. o \in active => status[o] \in EP!Open
      BY <2>0 DEF EngineInv, EP!IInv, EP!BookConsistent
    <3> QED
      BY <2>0, <2>2, <2>4, <2>5, <3>1 DEF OpenKeeps
  <2>7. pc[o] = "stored" => ~NotMaker(o)
    BY <2>0, <2>1, <2>3 DEF ToldOf
  <2>8. ~NotMaker(o) => \E t \in Range(trades) : t.maker = o
    BY DEF NotMaker, Range
  <2> QED
    BY <2>2, <2>5, <2>6, <2>7, <2>8
<1> QED
  BY <1>1, InitCharges, NextCharges, PTL DEF Spec
=============================================================================

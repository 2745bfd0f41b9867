---------------------------- MODULE OrderService ----------------------------
(***************************************************************************)
(* Placing and cancelling orders (internal/order) on top of the matching   *)
(* engine and the balances.                                                *)
(*                                                                         *)
(* Every order is placed by a goroutine of its own that freezes, submits,  *)
(* settles its trades one by one and then releases what is left; a         *)
(* cancellation takes the order out of the book and then releases.  Each   *)
(* call of the asset service and each call of the engine is atomic, but    *)
(* between them everything may happen: the engine fills the order for      *)
(* other takers, their goroutines settle, users cancel.  The order object  *)
(* is shared, and the goroutines read its fields as they are then.         *)
(***************************************************************************)
EXTENDS Balances, Decimal, SequencesExt

CONSTANTS
  OrderIds, Prices, Requests, NoOrder, NoRequest,   \* as in MatchingEngine
  BaseAsset, QuoteAsset,   \* the assets of the pair
  Owner,                   \* order -> the user who places it
  Deposits,                \* balances: what everybody starts with
  Concurrent,              \* may calls overlap?
  MayCancel                \* may orders be cancelled?

ASSUME ServiceAssumption ==
  /\ IsFiniteSet(Users)
  /\ {BaseAsset, QuoteAsset} \subseteq Assets /\ BaseAsset # QuoteAsset
  /\ Owner \in [OrderIds -> Users]
  /\ Deposits \in BalanceTypes
  /\ Concurrent \in BOOLEAN /\ MayCancel \in BOOLEAN

VARIABLES
  \* MatchingEngine
  req, status, rem, remQuote, filled, avg, queue, total, mapped, heap, active,
  taker, trades, clock, arrival,
  \* The goroutine placing each order, and what it keeps.
  asked,         \* the request it was called with
  pc,            \* where it stands
  frozenUnits,   \* FrozenUnits
  spent,         \* SpentUnits
  outcome,       \* trade number -> how its settlement ended, once tried
  \* The cancellation of each order: "idle", or "canceled" in the engine only.
  cancelPc,
  bal            \* the asset service

Engine == INSTANCE MatchingEngine

\* What MatchingEngine assumes of its constants.
ASSUME EngineAssumption ==
  /\ Prices \subseteq Nat \ {0}
  /\ Requests \subseteq Engine!RequestTypes
  /\ NoOrder \notin OrderIds
  /\ NoRequest \notin Requests

engineVars  == <<req, status, rem, remQuote, filled, avg, queue, total, mapped,
                 heap, active, taker, trades, clock, arrival>>
serviceVars == <<asked, pc, frozenUnits, spent, outcome, cancelPc, bal>>
vars == <<engineVars, serviceVars>>

Init ==
  /\ Engine!Init
  /\ asked = [o \in OrderIds |-> NoRequest]
  /\ pc = [o \in OrderIds |-> "idle"]
  /\ frozenUnits = [o \in OrderIds |-> 0]
  /\ spent = [o \in OrderIds |-> 0]
  /\ outcome = <<>>
  /\ cancelPc = [o \in OrderIds |-> "idle"]
  /\ bal = Deposits

Busy(o) == pc[o] \in {"frozen", "submitted"} \/ cancelPc[o] = "canceled"

\* A call may start: alone, or next to others.
MayStart == Concurrent \/ \A o \in OrderIds : ~Busy(o)

------------------------------------------------------------------------------
\* Freezing and releasing.

FreezeAsset(r) == IF r.side = "BUY" THEN QuoteAsset ELSE BaseAsset

\* Faulty variant: a limit buy freezes its quantity, not its cost.
FreezeQuantity(r) == IF r.type = "MARKET" /\ r.side = "BUY" THEN r.quote ELSE r.qty

FreezeAmount(r) ==
  CASE r.side = "SELL" -> r.qty
    [] r.side = "BUY" /\ r.type = "MARKET" -> r.quote
    [] OTHER -> PriceQtyToQuote(r.price, r.qty)

\* Faulty variant: what was spent is given back too.
UnfreezeRemainingWhole(o) ==
  LET rest == frozenUnits[o] - spent[o]
      a    == FreezeAsset(asked[o])
  IN
  /\ frozenUnits' = [frozenUnits EXCEPT ![o] = IF rest > 0 THEN @ - rest ELSE @]
  /\ bal' = IF CanRelease(bal, Owner[o], a, frozenUnits[o])
            THEN AfterUnfreeze(bal, Owner[o], a, frozenUnits[o]) ELSE bal

\* unfreezeRemaining: an error of Unfreeze is ignored, and the order forgets
\* the rest either way.
UnfreezeRemaining(o) ==
  LET rest == frozenUnits[o] - spent[o]
      a    == FreezeAsset(asked[o])
  IN
  /\ frozenUnits' = [frozenUnits EXCEPT ![o] = IF rest > 0 THEN @ - rest ELSE @]
  /\ bal' = IF CanRelease(bal, Owner[o], a, rest)
            THEN AfterUnfreeze(bal, Owner[o], a, rest) ELSE bal

------------------------------------------------------------------------------
\* PlaceOrder

\* The request is turned into an order and its funds are frozen ...
PlaceFrozen(o, r) ==
  /\ pc[o] = "idle" /\ MayStart
  /\ CanFreeze(bal, Owner[o], FreezeAsset(r), FreezeAmount(r))
  /\ asked' = [asked EXCEPT ![o] = r]
  /\ frozenUnits' = [frozenUnits EXCEPT ![o] = FreezeAmount(r)]
  /\ bal' = AfterFreeze(bal, Owner[o], FreezeAsset(r), FreezeAmount(r))
  /\ pc' = [pc EXCEPT ![o] = "frozen"]
  /\ UNCHANGED <<spent, outcome, cancelPc, engineVars>>

\* ... or it is stored as rejected, and the engine never sees it.
PlaceRefused(o, r) ==
  /\ pc[o] = "idle" /\ MayStart
  /\ ~CanFreeze(bal, Owner[o], FreezeAsset(r), FreezeAmount(r))
  /\ asked' = [asked EXCEPT ![o] = r]
  /\ frozenUnits' = [frozenUnits EXCEPT ![o] = FreezeAmount(r)]
  /\ pc' = [pc EXCEPT ![o] = "refused"]
  /\ UNCHANGED <<spent, outcome, cancelPc, bal, engineVars>>

\* The engine takes the closure of Submit out of its channel.
SubmitOrder(o) ==
  /\ pc[o] = "frozen"
  /\ Engine!SubmitAccepted(o, asked[o]) \/ Engine!SubmitRejected(o, asked[o])
  /\ pc' = [pc EXCEPT ![o] = "submitted"]
  /\ UNCHANGED <<asked, frozenUnits, spent, outcome, cancelPc, bal>>

EngineWorks == Engine!Work /\ UNCHANGED serviceVars

\* Submit has returned to the goroutine of o.
Returned(o) == pc[o] = "submitted" /\ taker # o

\* The trades of the result that are not settled yet, in order.
Unsettled(o) == {i \in DOMAIN trades : trades[i].taker = o /\ i \notin DOMAIN outcome}

Buyer(t)  == IF req[t.taker].side = "BUY" THEN t.taker ELSE t.maker
Seller(t) == IF req[t.taker].side = "BUY" THEN t.maker ELSE t.taker

\* Faulty variant: a buy order remembers the last trade only.
ChargeLast(o, cost) == IF asked[o].side = "BUY" THEN cost ELSE filled[o]

\* SpentUnits after a settlement: a buy order adds up what it pays, a sell order
\* reads what it was filled by now, for other takers too.
Charge(o, cost) == IF asked[o].side = "BUY" THEN spent[o] + cost ELSE filled[o]

\* One round of the settlement loop.  The taker's SpentUnits advance; those of
\* the maker are left alone.  An error ends the call, with the order stored.
SettleNext(o) ==
  /\ Returned(o) /\ Unsettled(o) # {}
  /\ LET i      == Min(Unsettled(o))
         t      == trades[i]
         cost   == PriceQtyToQuote(t.price, t.qty)
         buyer  == Owner[Buyer(t)]
         seller == Owner[Seller(t)]
         how    == SettleOutcome(bal, buyer, seller, BaseAsset, QuoteAsset, t.qty, cost)
     IN
     /\ bal' = AfterSettle(bal, buyer, seller, BaseAsset, QuoteAsset, t.qty, cost)
     /\ outcome' = [k \in DOMAIN outcome \cup {i} |-> IF k = i THEN how ELSE outcome[k]]
     /\ \/ /\ how = "done"
           /\ spent' = [spent EXCEPT ![o] = Charge(o, cost)]
           /\ UNCHANGED pc
        \/ how # "done" /\ pc' = [pc EXCEPT ![o] = "failed"] /\ UNCHANGED spent
  /\ UNCHANGED <<asked, frozenUnits, cancelPc, engineVars>>

\* Faulty variant: a partly filled order that rests gets its remaining funds
\* back.
FinishPlaceReleases(o) ==
  /\ Returned(o) /\ Unsettled(o) = {}
  /\ \/ status[o] = "NEW" /\ UNCHANGED <<frozenUnits, bal>>
     \/ status[o] # "NEW" /\ UnfreezeRemaining(o)
  /\ pc' = [pc EXCEPT ![o] = "stored"]
  /\ UNCHANGED <<asked, spent, outcome, cancelPc, engineVars>>

\* The end of the call: an order that may still rest keeps its funds, a
\* finished one gets back what is left.  The status is the one of this moment.
FinishPlace(o) ==
  /\ Returned(o) /\ Unsettled(o) = {}
  /\ \/ status[o] \in Engine!Open /\ UNCHANGED <<frozenUnits, bal>>
     \/ status[o] \in {"EXPIRED", "REJECTED", "FILLED"} /\ UnfreezeRemaining(o)
  /\ pc' = [pc EXCEPT ![o] = "stored"]
  /\ UNCHANGED <<asked, spent, outcome, cancelPc, engineVars>>

------------------------------------------------------------------------------
\* CancelOrder

\* Only stored orders can be found.  A second cancellation of the order fails
\* in the engine.
CancelInEngine(o) ==
  /\ MayCancel /\ MayStart
  /\ pc[o] \in {"stored", "failed"}
  /\ Engine!Cancel(o)
  /\ cancelPc' = [cancelPc EXCEPT ![o] = "canceled"]
  /\ UNCHANGED <<asked, pc, frozenUnits, spent, outcome, bal>>

UnfreezeCanceled(o) ==
  /\ cancelPc[o] = "canceled"
  /\ UnfreezeRemaining(o)
  /\ cancelPc' = [cancelPc EXCEPT ![o] = "idle"]
  /\ UNCHANGED <<asked, pc, spent, outcome, engineVars>>

------------------------------------------------------------------------------
Place(o) == \E r \in Requests : PlaceFrozen(o, r) \/ PlaceRefused(o, r)

Proceed(o) == SettleNext(o) \/ FinishPlace(o) \/ UnfreezeCanceled(o)

Next ==
  \/ EngineWorks
  \/ \E o \in OrderIds : Place(o) \/ SubmitOrder(o) \/ Proceed(o) \/ CancelInEngine(o)

Spec == Init /\ [][Next]_vars

\* The engine and every goroutine keep running.  Closures wait for the engine
\* in a channel, first come first served, so each is taken out some day.
FairSpec ==
  /\ Spec
  /\ WF_vars(EngineWorks)
  /\ \A o \in OrderIds : SF_vars(SubmitOrder(o)) /\ WF_vars(Proceed(o))

------------------------------------------------------------------------------
(***************************************************************************)
(* Properties                                                              *)
(***************************************************************************)

\* Types; no balance ever becomes negative.
TypeOK ==
  /\ asked \in [OrderIds -> Requests \cup {NoRequest}]
  /\ pc \in [OrderIds -> {"idle", "frozen", "submitted", "stored", "failed", "refused"}]
  /\ frozenUnits \in [OrderIds -> Nat]
  /\ spent \in [OrderIds -> Nat]
  /\ DOMAIN outcome \subseteq DOMAIN trades
  /\ cancelPc \in [OrderIds -> {"idle", "canceled"}]
  /\ bal \in BalanceTypes

With(how) == {i \in DOMAIN outcome : outcome[i] = how}

\* Whatever clients do, money is created or destroyed only by settlements that
\* broke off in the middle, and by exactly what they had moved.
SupplyExplained ==
  /\ Supply(bal, BaseAsset) = Supply(Deposits, BaseAsset)
       + SumFunctionOnSet(Engine!Quantities, With("torn"))
  /\ Supply(bal, QuoteAsset) = Supply(Deposits, QuoteAsset)
       - SumFunctionOnSet(Engine!Costs, With("torn"))

\* An order is never charged more than was frozen for it, although a sell
\* order reads its charge from a field that later takers advance, and a buy
\* order adds up amounts that were rounded one by one.
ChargedWithinFrozen == \A o \in OrderIds : spent[o] <= frozenUnits[o]

\* What the trades of an order cost it, settled or not.
Owes(o) ==
  SumFunctionOnSet(IF asked[o].side = "BUY" THEN Engine!Costs ELSE Engine!Quantities,
                   Engine!OwnTrades(o))

\* The order keeps less than its trades cost: it has been given back too much.
Short(o) == status[o] # "NONE" /\ Owes(o) > frozenUnits[o]

\* An order runs short only after it has left the book, and only if it traded
\* as a maker or its own settlements broke off: these are the two fills that
\* SpentUnits does not count when the rest is released.
ShortForCause ==
  \A o \in OrderIds : Short(o) =>
    o \notin active /\ (pc[o] = "failed" \/ \E t \in Range(trades) : t.maker = o)

\* All orders of a user on one side draw on one frozen balance.
SomeShort(u, side) == \E o \in OrderIds : Owner[o] = u /\ Short(o) /\ asked[o].side = side

\* A trade that was settled in full, or is between two orders of one user, or
\* whose side that could not pay has an order that runs short.
SettledOrShort(i) ==
  LET buyer  == Owner[Buyer(trades[i])]
      seller == Owner[Seller(trades[i])]
  IN
  \/ outcome[i] = "done"
  \/ buyer = seller
  \/ outcome[i] = "refused" /\ SomeShort(buyer, "BUY")
  \/ outcome[i] = "torn" /\ SomeShort(seller, "SELL")

\* The remark in PlaceOrder, that a settlement cannot fail because the frozen
\* funds cover it, as far as it is true: whatever calls settle at one time, they
\* do not take from each other what only one of them has frozen.
SettlementFailsOnlyIfShort == \A i \in DOMAIN outcome : SettledOrShort(i)

\* At every moment the frozen funds of a user are enough for the orders in the
\* book: for the base they have left to sell and the quote they have left to
\* pay, unless another order of that user and side runs short.
Resting(u, side) == {o \in active : Owner[o] = u /\ req[o].side = side}

ReservesBackOrders ==
  \A u \in Users :
    /\ SomeShort(u, "SELL") \/
         bal[u][BaseAsset].frozen >= SumFunctionOnSet(rem, Resting(u, "SELL"))
    /\ SomeShort(u, "BUY") \/
         bal[u][QuoteAsset].frozen >=
           SumFunctionOnSet([o \in active |-> PriceQtyToQuote(req[o].price, rem[o])],
                            Resting(u, "BUY"))

\* Every call of PlaceOrder returns.
PlaceReturns ==
  \A o \in OrderIds : pc[o] \in {"frozen", "submitted"} ~> pc[o] \in {"stored", "failed"}

------------------------------------------------------------------------------
(***************************************************************************)
(* Statements of the repository that the code does not keep (see README).  *)
(***************************************************************************)

\* The remark in PlaceOrder, as it stands.
SettlementNeverFails == \A i \in DOMAIN outcome : outcome[i] = "done"

\* Double entry: what one user pays another receives.
DoubleEntry == \A a \in Assets : Supply(bal, a) = Supply(Deposits, a)

\* When nothing is under way, a user's frozen funds belong to active orders.
NothingStuck ==
  (taker = NoOrder /\ \A o \in OrderIds : ~Busy(o)) =>
    \A u \in Users, a \in Assets :
      bal[u][a].frozen > 0 =>
        \E o \in active : Owner[o] = u /\ FreezeAsset(asked[o]) = a
=============================================================================

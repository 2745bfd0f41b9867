------------------------------ MODULE Balances ------------------------------
(***************************************************************************)
(* The balances of internal/asset and what each call of the service does   *)
(* to them.  Every call holds the service's mutex from its first test to   *)
(* its last write, so a call is a test on the balances and a function from *)
(* balances to balances.  The ledger entries are added in AssetLedger;     *)
(* OrderService and Withdrawal use the balances alone.                     *)
(***************************************************************************)
EXTENDS Integers, Functions

CONSTANTS Users, Assets

BalanceTypes == [Users -> [Assets -> [available: Nat, frozen: Nat]]]

\* What a user has of an asset, in all.
Total(b, u, a) == b[u][a].available + b[u][a].frozen

\* What all users together have of an asset.
Supply(b, a) == SumFunctionOnSet([u \in Users |-> Total(b, u, a)], Users)

NoFunds == [u \in Users |-> [a \in Assets |-> [available |-> 0, frozen |-> 0]]]

AfterDeposit(b, u, a, q) == [b EXCEPT ![u][a].available = @ + q]

\* Freeze
CanFreeze(b, u, a, q) == q > 0 /\ b[u][a].available >= q
\* Faulty variant: what is frozen stays available.
AfterFreezeTwice(b, u, a, q) == [b EXCEPT ![u][a].frozen = @ + q]

AfterFreeze(b, u, a, q) ==
  [b EXCEPT ![u][a].available = @ - q, ![u][a].frozen = @ + q]

\* Unfreeze and ConsumeFrozen make the same test.
CanRelease(b, u, a, q) == q > 0 /\ b[u][a].frozen >= q
AfterUnfreeze(b, u, a, q) ==
  [b EXCEPT ![u][a].frozen = @ - q, ![u][a].available = @ + q]
AfterConsume(b, u, a, q) == [b EXCEPT ![u][a].frozen = @ - q]

\* SettleTrade pays the buyer's side first.  If the seller's frozen base does
\* not suffice it returns an error, and what the buyer's side got stays.
BuyerRefused(b, buyer, seller, quote, cost) ==
  buyer = seller \/ b[buyer][quote].frozen < cost

BuyerPaid(b, buyer, base, quote, qty, cost) ==
  [b EXCEPT ![buyer][quote].frozen = @ - cost, ![buyer][base].available = @ + qty]

SellerRefused(b, seller, base, qty) == b[seller][base].frozen < qty

\* Faulty variant: the seller is paid in the wrong quantity.
SellerPaidBase(b, seller, base, quote, qty, cost) ==
  [b EXCEPT ![seller][base].frozen = @ - qty, ![seller][quote].available = @ + qty]

SellerPaid(b, seller, base, quote, qty, cost) ==
  [b EXCEPT ![seller][base].frozen = @ - qty, ![seller][quote].available = @ + cost]

\* How a settlement ends: "done", "refused" with nothing moved, or "torn".
SettleOutcome(b, buyer, seller, base, quote, qty, cost) ==
  IF BuyerRefused(b, buyer, seller, quote, cost) THEN "refused"
  ELSE IF SellerRefused(b, seller, base, qty) THEN "torn" ELSE "done"

AfterSettle(b, buyer, seller, base, quote, qty, cost) ==
  LET outcome == SettleOutcome(b, buyer, seller, base, quote, qty, cost)
      half    == BuyerPaid(b, buyer, base, quote, qty, cost)
  IN  CASE outcome = "refused" -> b
        [] outcome = "torn"    -> half
        [] outcome = "done"    -> SellerPaid(half, seller, base, quote, qty, cost)
=============================================================================

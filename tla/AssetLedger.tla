----------------------------- MODULE AssetLedger -----------------------------
(***************************************************************************)
(* The asset service with its append-only ledger (internal/asset).  Any    *)
(* caller may call anything at any time; one call is one step.  A call     *)
(* that returns an error before it has written anything is no step.        *)
(***************************************************************************)
EXTENDS Balances, Decimal, SequencesExt

CONSTANTS
  BaseAsset, QuoteAsset,  \* the assets of the trading pair
  Amounts,                \* quantities a caller may name
  TradePrices,            \* prices of trades
  TradeIds,               \* trades that may be settled
  NoTrade,                \* RefID of an entry that belongs to no trade
  MaxEntries              \* bound: calls are made while the ledger is shorter

ASSUME LedgerAssumption ==
  /\ {BaseAsset, QuoteAsset} \subseteq Assets /\ BaseAsset # QuoteAsset
  /\ Amounts \subseteq Nat \ {0}
  /\ TradePrices \subseteq Nat \ {0}
  /\ NoTrade \notin TradeIds
  /\ MaxEntries \in Nat

VARIABLES
  bal,      \* accounts
  ledger,   \* ledger
  settled   \* trade -> the outcome of its settlement, once called
vars == <<bal, ledger, settled>>

Types == {"DEPOSIT", "WITHDRAW", "ORDER_FREEZE", "ORDER_UNFREEZE",
          "TRADE_OUT", "TRADE_IN"}

EntryTypes ==
  [user: Users, asset: Assets, amount: Int, balance: Int, type: Types,
   ref: TradeIds \cup {NoTrade}]

\* Faulty variant: an entry notes the available balance only.
EntryAvailable(u, a, amount, type, ref) ==
  [user |-> u, asset |-> a, amount |-> amount, balance |-> bal'[u][a].available,
   type |-> type, ref |-> ref]

\* Entries carry the total of their account after the change.  All entries of
\* one call are about different accounts, so that is the total after the call.
Entry(u, a, amount, type, ref) ==
  [user |-> u, asset |-> a, amount |-> amount, balance |-> Total(bal', u, a),
   type |-> type, ref |-> ref]

Init == bal = NoFunds /\ ledger = <<>> /\ settled = [t \in {} |-> ""]

InBound == Len(ledger) < MaxEntries

Deposit(u, a, q) ==
  /\ InBound
  /\ bal' = AfterDeposit(bal, u, a, q)
  /\ ledger' = Append(ledger, Entry(u, a, q, "DEPOSIT", NoTrade))
  /\ UNCHANGED settled

Freeze(u, a, q) ==
  /\ InBound
  /\ CanFreeze(bal, u, a, q)
  /\ bal' = AfterFreeze(bal, u, a, q)
  /\ ledger' = Append(ledger, Entry(u, a, -q, "ORDER_FREEZE", NoTrade))
  /\ UNCHANGED settled

Unfreeze(u, a, q) ==
  /\ InBound
  /\ CanRelease(bal, u, a, q)
  /\ bal' = AfterUnfreeze(bal, u, a, q)
  /\ ledger' = Append(ledger, Entry(u, a, q, "ORDER_UNFREEZE", NoTrade))
  /\ UNCHANGED settled

ConsumeFrozen(u, a, q) ==
  /\ InBound
  /\ CanRelease(bal, u, a, q)
  /\ bal' = AfterConsume(bal, u, a, q)
  /\ ledger' = Append(ledger, Entry(u, a, -q, "WITHDRAW", NoTrade))
  /\ UNCHANGED settled

BuyerEntries(t, buyer, qty, cost) ==
  <<Entry(buyer, QuoteAsset, -cost, "TRADE_OUT", t),
    Entry(buyer, BaseAsset, qty, "TRADE_IN", t)>>

SellerEntries(t, seller, qty, cost) ==
  <<Entry(seller, BaseAsset, -qty, "TRADE_OUT", t),
    Entry(seller, QuoteAsset, cost, "TRADE_IN", t)>>

\* The caller settles a trade at most once, whatever became of it.
SettleTrade(t, buyer, seller, price, qty) ==
  LET cost    == PriceQtyToQuote(price, qty)
      outcome == SettleOutcome(bal, buyer, seller, BaseAsset, QuoteAsset, qty, cost)
  IN
  /\ InBound
  /\ t \notin DOMAIN settled
  /\ settled' = [x \in DOMAIN settled \cup {t} |-> IF x = t THEN outcome ELSE settled[x]]
  /\ bal' = AfterSettle(bal, buyer, seller, BaseAsset, QuoteAsset, qty, cost)
  /\ \/ outcome = "refused" /\ UNCHANGED ledger
     \/ outcome = "torn" /\ ledger' = ledger \o BuyerEntries(t, buyer, qty, cost)
     \/ outcome = "done" /\ ledger' = ledger \o BuyerEntries(t, buyer, qty, cost)
                                             \o SellerEntries(t, seller, qty, cost)

Next ==
  \/ \E u \in Users, a \in Assets, q \in Amounts :
       Deposit(u, a, q) \/ Freeze(u, a, q) \/ Unfreeze(u, a, q) \/ ConsumeFrozen(u, a, q)
  \/ \E t \in TradeIds, buyer, seller \in Users, p \in TradePrices, q \in Amounts :
       SettleTrade(t, buyer, seller, p, q)

Spec == Init /\ [][Next]_vars

------------------------------------------------------------------------------
(***************************************************************************)
(* Properties                                                              *)
(***************************************************************************)

\* Types; in particular no balance is ever negative, torn settlements or not.
TypeOK ==
  /\ bal \in BalanceTypes
  /\ ledger \in Seq(EntryTypes)
  /\ DOMAIN settled \subseteq TradeIds

\* The entries of an account among these, by their positions.
Of(entries, u, a) ==
  {i \in DOMAIN entries : entries[i].user = u /\ entries[i].asset = a}

\* The sum of the amounts of the entries of an account with these types.
Booked(entries, u, a, types) ==
  SumFunctionOnSet([i \in DOMAIN entries |-> entries[i].amount],
                   {i \in Of(entries, u, a) : entries[i].type \in types})

\* The balance noted last for an account, before position j.
Noted(entries, j, u, a) ==
  LET earlier == {i \in Of(entries, u, a) : i < j}
  IN  IF earlier = {} THEN 0 ELSE entries[Max(earlier)].balance

HoldTypes == {"ORDER_FREEZE", "ORDER_UNFREEZE"}

\* The books can be audited: both parts of every balance follow from the
\* entries of the account alone, by their types.
Reconciles ==
  \A u \in Users, a \in Assets :
    LET held == Booked(ledger, u, a, HoldTypes) IN
    /\ bal[u][a].available = Booked(ledger, u, a, {"DEPOSIT", "TRADE_IN"}) + held
    /\ bal[u][a].frozen = Booked(ledger, u, a, {"WITHDRAW", "TRADE_OUT"}) - held

\* The balance noted in an entry is the one noted before for that account,
\* changed by the amount unless money only moved between its two parts.
EntriesChain ==
  \A j \in DOMAIN ledger :
    LET e == ledger[j] IN
    e.balance = Noted(ledger, j, e.user, e.asset)
                  + IF e.type \in HoldTypes THEN 0 ELSE e.amount
==============================================================================

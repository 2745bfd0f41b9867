# A TLA+ model of the exchange

This directory specifies and verifies the core of the exchange in `src/`: the
matching engine, the money it moves, the wallet that lets money in and out, and
the feed that tells clients about it. The modules are translated from the Go
code; `PROJECT.json` maps every definition to the lines it stands for.

Contents: [the system](#the-system) ·
[modules](#modules) · [what the runs show](#what-the-runs-show) ·
[findings](#findings) · [fairness](#fairness) · [proofs](#proofs) ·
[limits](#limits) · [plan](#plan) · [usage](#usage)

## The system

One process, everything in memory. HTTP handlers call services from many
goroutines; each engine is a goroutine of its own.

| component | state | operations | concurrency | what makes it correct |
|---|---|---|---|---|
| matching engine (`internal/engine`) | per side: price → level map and a heap of levels; each level a FIFO queue and `totalQty`; `active` orders | `Submit`, `Cancel`, `Depth`, `Snapshot`/`Restore` (never called) | closures run one after another in the event loop; order objects are shared with callers | price–time priority, no trade outside limits or quantities, levels agree with their orders, every submission ends |
| order service (`internal/order`) | orders by id, orders by user | `PlaceOrder` (freeze → submit → settle each trade → release the rest), `CancelOrder` (engine → release), queries | one goroutine per request, no lock across the steps | reservations back open orders, settlements find their funds, nothing stays frozen without an order |
| asset service (`internal/asset`) | balances (available, frozen), append-only ledger | `Deposit`, `Freeze`, `Unfreeze`, `ConsumeFrozen`, `SettleTrade`, queries | one mutex around each call | no negative balance, ledger and balances agree, money is conserved |
| decimal (`pkg/decimal`) | – | `PriceQtyToQuote` and relatives, parsing, formatting | pure | rounding never asks for more than was reserved |
| deposit addresses (`internal/wallet/service.go`, `hd.go`) | address of each account and asset and back, counter, mnemonic | `GetDepositAddress`, `MatchUser`, `DeriveAddress` | two lookups and a counter under separate locks; a restart keeps the mnemonic only | one address per account and asset, addresses lead back |
| deposit scanner (`internal/wallet/scanner.go`) | position per chain, credited transactions | rounds: height → blocks → receipts → `CreditDeposit` | one goroutine; the chain moves on between requests | each transfer paid in once, eventually, only when confirmed, and for no more than it brought |
| withdrawals (`internal/wallet/service.go`) | requests by id | `SubmitWithdrawal`, `ApproveWithdrawal`, `RejectWithdrawal`, `ConfirmWithdrawal` | status read and written without a lock | a rejected withdrawal is never sent, frozen funds back pending requests, books match the chain |
| chain adapters (`evm.go`, `tron.go`, `btc.go`, `mock.go`) | connection | height, block, confirmations, sign, broadcast, balance | each operation is one or more requests; nonces are not held | amounts keep their worth, confirmations are real, signed transactions reach the chain |
| sweeper (`sweep.go`) | – | collects funds; never started | – | – |
| market data (`internal/market`) | ticker, candles, recent trades, time of last depth push | `OnTrade`, `OnDepthChanged`, queries | called from the event loop; one mutex | candles and ticker tell the trades |
| WebSocket hub (`internal/ws`) | clients with subscriptions and bounded queues | `Publish`, `HandleMessage`, connect, close | reader and writer per client, both close it | messages in order; nothing blocks on a client; who is gone is let go, who answers is kept |
| authentication (`internal/auth`) | accounts by number and by e-mail, counter | `Register`, `Login`, `UserFromToken` | RW lock | a token stands for the account it was issued for |
| HTTP interface (`internal/api`) | – | one handler per operation; `Withdraw` submits and approves | – | – |
| wiring (`cmd/exchange`) | – | builds everything, starts scanner and server | – | – |

How the components interact:

- `PlaceOrder` freezes funds in the asset service, sends a closure to the
  engine's channel and waits. The engine matches and returns the taker's trades.
  The **taker's** goroutine settles them, while the engine already matches the
  same orders for others.
- The engine calls its listener (market data) synchronously for every trade and
  for some changes of the book. The listener publishes trades directly and starts
  a goroutine that asks the engine for a depth snapshot.
- The scanner asks `MatchUser` whose address a transfer goes to, and pays in
  through a callback to the asset service.
- The middleware turns a token into an account number, by which every other service
  knows its user.
- The withdrawal handler submits and approves in one request; approval talks to
  the node between reading and writing the status.

Hard behaviours: settlement outside the engine's order of events; cancellation
between a fill and its settlement; the two structures that hold the levels;
rounding and cutting to 64 bits; requests to a node that fails or whose chain is reorganised; status
fields and nonces without locks; restarts that forget; connections closed from two
sides; asynchronous depth pushes and dropped messages.
`PROJECT.json` lists each hazard with its line and the properties aimed at it.

## Modules

```
Decimal ─┬─ OrderFunding ── OrderEntry (with Int64)
         │
         ├─ TradingContract
         │        ▲ implements
         ├─ MatchingEngine
         │        ▲ Engine == INSTANCE
         └─ OrderService ──── EXTENDS Balances
            AssetLedger ───── EXTENDS Balances
            Withdrawal ────── EXTENDS Balances, HotWallet

Int64 ── ChainUnits ─┬─ DepositScanner
                     └─ HotWallet

Accounts ── DepositAddresses      MarketData      DepthFeed      WsClient
```

The proofs, each module extending the one it is about:

```
Arithmetic ─┬─ OrderFundingProofs     about OrderFunding, OrderEntry
            ├─ MatchingEngineProofs   about MatchingEngine, TradingContract
            │          ▲ EP == INSTANCE
            ├─ OrderServiceProofs     about OrderService
            ├─ DepositScannerProofs   about DepositScanner
            ├─ WithdrawalProofs       about Withdrawal
            └─ RecordProofs           about AssetLedger, MarketData, DepthFeed, WsClient
               DepositAddressesProofs about DepositAddresses
```

Modules named `MC…` give values to constants for the runs. `MarketData`, `DepthFeed` and
`WsClient` prefix the names every specification has (`MarketSpec`, `FeedSpec`, `ClientSpec`),
so that one module can speak of all three and of the ledger.

**Decimal** – `PriceQtyToQuote`, `QuoteToQty`, `WeightedAvg` over integers, with the
scale `Base` (10^8 in the code) as a constant.

**OrderFunding** – one buy order: what is frozen for it, and fills at any price and
size the engine can give it. The book and the counterparties are abstracted away;
the question is whether rounding ever lets fills cost more than the reservation.

**OrderEntry** – what comes before: a request with numbers in decimal, the tests that
`buildOrder` makes on them (some before they are cut to an int64, some after), the
reservation, and then the fills of `OrderFunding`, or those of a sell order. `asked` keeps
the request as it was written.

**Int64, ChainUnits** – `big.Int.Int64`, and the conversions between the units of a chain
and of the books. A `scale` says by how many decimals they differ, and in which
direction.

**MatchingEngine** – the engine of one pair. A level is a slot `<<side, price>>`;
`queue` and `total` are its orders and `totalQty`, `mapped` says that the level map
has it and `heap` that the same object is in the heap. `Submit`, each round of
`consumeLevel` (`Fill`) and the end of a submission (`FinishMarket`,
`FinishFilled`, `FinishExpired`, `FinishResting`) are steps; `Cancel` is one step.
A submission is cut into steps because order objects are shared: other goroutines
see a fill before the submission ends. No other closure runs meanwhile
(`taker # NoOrder`).

**TradingContract** – what the engine promises to whoever submits an order, without
a book: `Take`, `Exchange`, `Close`. `MatchingEngine` implements it.

**Balances** – the calls of the asset service as tests on and functions from
balances to balances. `SettleTrade` has three outcomes: done, refused with nothing
moved, or *torn*: the buyer's side was booked before the seller's was found short.

**AssetLedger** – `Balances` with the ledger entries, under arbitrary callers.

**OrderService** – goroutines that place and cancel orders over
`MatchingEngine` and `Balances`. `pc` is where the goroutine of an order stands;
freezing, the engine's work, each settlement and the final release are separate
steps. `Concurrent` lets calls overlap, `MayCancel` allows cancellations; the run
has both. `Owes` is what the trades of an order cost it, settled or not, and an order is
`Short` when it keeps less: it was given back too much. What settlements and reservations
promise is stated relative to that, because the code does give back too much
([findings](#findings)).

**DepositScanner** – `scanOnce` cut at every request to the node: `StartRound`,
`ReadBlock`, `AskReceipt`, `TooFew`/`Enough`, `NextBlock`. The chain
(`Mine`, `Reorganise`) is external. A transfer stands for one payment to a user's
address; `TxOf` says which transaction makes it, because a contract can make
several in one. `Stated` is the amount the scanner reads, `Brought` what arrives of the
asset: nothing, if the transfer moves another coin or token or its transaction failed, which
the scanner does not look at. `adapter` is the kind of chain. An EVM block
leaves out transactions whose receipts fail; a TRON error, decoded without a look at
the status, is taken for a height of 0 or an empty block (`Misled`, bounded by
`MaxMisled`), and its confirmations are a difference of unsigned numbers; a Bitcoin
block has no amounts, so that every transfer is skipped.

**HotWallet** – what the node has of the hot wallet's transactions: places in a
sequence, which for EVM chains are nonces. `SignedTx` is `BuildSignedTx`: it takes the
next nonce and the price of the moment, and nothing holds either. `Accept` is the
node, which replaces a waiting transaction by one with the same nonce and a higher price.

**Withdrawal** – a request (submit, then approve) and a reviewer, cut at each call of the asset
service and the node: signing and broadcasting are two steps, between which other withdrawals
sign. `draft` is what a caller has signed, `txHash` what the withdrawal was sent out with;
status and hash are written by two steps (`MarkSent`, `KeepHash`). `ConfirmWithdrawal`, which
nothing calls, is cut in the same way: `AskConfirmations` tests status and hash, `WriteSuccess`
writes the status when the answer is there, whatever the status is by then; `asking` is the
transaction it asks about. `Failures` says whether the node may refuse a transaction, or take
it while its answer is lost (`lost` counts those).

**Accounts, DepositAddresses** – accounts and tokens, and `GetDepositAddress` cut at its
locks, called with a token. An address is its derivation path: mnemonic, coin type,
index. `Restart` forgets accounts, addresses and the counter, keeps tokens in the hands
of their holders, and the mnemonic if it is `Saved`. `answers` is a history variable.

**MarketData** – `OnTrade` with candles of several periods. `seen` is a history
variable holding all trades with their times, the reference for the properties. The
clock may be set back (`SetBack`).

**DepthFeed** – event loop, throttle, depth pushes, subscriptions, bounded queues.
Of the book it keeps only how often it has changed, which is all that the order of
snapshots depends on. `late` records that a push took longer than the throttle's window,
after which the order of snapshots is not promised.

**WsClient** – one connection: the reader, the writer and the hub's side of the queue.
`Close` is cut where it tests, closes and unregisters, for both goroutines. Time passes
in ticks: `deadline`, `pingTicker` and `patience` are the reader's deadline, the writer's
ticker and the write's deadline. The other end may be up, have left, or be silent.

Definitions that begin with the comment "Faulty variant" are plausible mistakes.
Each is used in place of the definition it stands before to show that a property can
fail; nothing else refers to them.

## What the runs show

Passing runs (states are distinct states):

| run | question | bounds | states |
|---|---|---|---|
| `order_funding` | does an order ever do worse than its request, do fills fit in the reservation, and in the budget? | `Base` 4, prices 1, 3, 5, 7, `MaxInt` 15, numbers up to 20 and two that wrap around to small ones | 20 338 |
| `engine` | the book's invariants, priorities, the contract | 4 orders, 2 prices, 13 kinds of request | 340 084 |
| `ledger` | do balances and entries agree? | 2 users, 2 assets, calls while fewer than 5 entries | 138 914 |
| `orders` | overlapping calls, cancellations, self-trades: is money explained, when may a settlement fail, do reservations back the orders in the book, does every placement return? | 3 orders, 2 users, 6 kinds of request | 89 375 |
| `scanner` | is a transaction ever paid in twice, too early or for more than it states, is a block left out of a round, does the position catch up? | 3 kinds of chain, 3 transfers in 2 transactions, 2 new blocks, reorganisation by 1, requests that fail, one error taken for an answer | 137 752 |
| `withdrawal` | frozen funds, books, what is sent out, and what a rejection gives back | 2 withdrawals of one user, reviewer between requests, EVM and TRC-20, 2 gas prices, 2 places for transactions, a node that refuses or loses its answer | 330 854 |
| `addresses` | one address per account and asset | 3 calls, 2 people, 2 assets of one coin type, counter to 2 for withdrawals, 1 restart | 421 195 |
| `clients` | is who answers kept, and who is gone let go? | queue of 2, a ping every 3 ticks, deadline of 6, an answer within 2 | 7 896 |
| `market` | do ticker and candles tell the trades? | 4 trades, 4 instants, the clock set back once, 2 periods, 2 candles kept | 787 772 |
| `feed` | do clients see things in order, and do pushes end? | 3 changes, queue of 2, window of 2 ticks | 337 744 |

Why these bounds are enough to meet the interesting cases:

- *order_funding*: base 4 and odd prices make most products round. With `MaxInt` 15, 20 is
  cut to a negative number, and `Width + 1` and `Width + 5` to 1 and 5, which pass
  every test.
- *engine*: with sizes 1 and 3 a taker fills one maker and part of the next, at one
  level and across two; four orders suffice to empty a level, cancel out of the
  middle of a queue and rest at an emptied level. `Base` 2 with odd prices makes
  half of all conversions round.
- *orders*: three orders are the least for a fill of one order by two takers, whose
  settlements then race, and for two orders of one user that draw on one balance. Funds
  cover some combinations of orders and not others. The safety properties were also
  checked once with four orders, `TwoSizes` and `Plenty` (4 004 649 states, too long for a
  regular run): four orders let a cancellation fall between the fills and the settlements
  of two takers. For any number the proofs speak.
- *ledger*: with four entries both sides of a trade can be funded and frozen, so a
  settlement can be done, refused or torn. Price 4 at `Base` 2 makes cost and
  quantity differ, price 3 rounds.
- *scanner*: required confirmations of 2 and a reorganisation by one block put a
  transaction into another block, and out of the chain, at any request of a round. The
  transfers are worth 6, 14 and 137 chain units: the first two leave dust on a chain
  with finer units, the last does not fit into `MaxInt` = 63 and becomes 9.
- *withdrawal*: one user can pay for one of two withdrawals, or for an amount but not
  its fee. Two places hold a transaction whose answer was lost and the one the reviewer
  sends after it, or two that were signed with one nonce; two prices let either win.
- *addresses*: three calls let two overlap before a restart and one follow it; two assets
  of one coin type draw addresses from the same paths.
- *clients*: the order of the code's 30 s, 60 s and 10 s matters, not their size: two
  pings fall within a deadline, and a write waits for less than the time between
  pings. An answer comes within `AnswerTime` of its ping.
- *market*: 2 candles and 2 trades kept make trimming happen; setting the clock back
  opens candles behind later ones.
- *feed*: a queue of 2 overflows with three messages; four instants allow two pushes
  that obey the throttle, the first of which may be late and overlap the second.

Deadlock is not checked: in every module the environment may stop asking (all orders
submitted, the chain at its greatest height), and then nothing is left to do. What
must go on is stated as liveness instead.

## Findings

Two runs refute statements of the repository, quoted in `PROJECT.json`:

| run | refuted | what happens |
|---|---|---|
| `price_priority` | price priority | a level emptied and filled again is missing from the heap; worse prices trade |
| `foreign_transfer` | one asset is one coin or contract (`chain.go:30`): `OnlyArrivedCredited` | the scanner credits what a transfer states as the asset of the address it names (`scanner.go:84`); what it moves is not looked at, nor whether the transaction failed (`evm.go:87`) |

Other disagreements between the code and what it says of itself, met while
modelling. The modules keep the statements, below the banner "Statements of the
repository that the code does not keep"; the models are otherwise the same, so each
is reproduced by the configuration of the run named here, with this statement in place of
its properties and these changes.

Orders and market data:

| statement, module | the code | run and changes that refute it |
|---|---|---|
| a FOK order fills or is cancelled: `FOKAllOrNothing`, `MatchingEngine` | the test (`engine.go:273`) counts levels that matching cannot reach; the order rests | `price_priority` with `MCKinds` |
| the freeze covers the settlement (`order/service.go:97`): `SettlementNeverFails`, `OrderService` | the owner's call sees its order filled, as a maker, and releases funds before the other taker's settlement (`order/service.go:119`) | `orders` under `Spec` with `OwnOwner`, users o1, o2, o3, `TwoSizes`, `Plenty`, `MayCancel = FALSE` |
| the same | the book trades two orders of one user, settlement refuses | the same with `SharedOwner`, users alice and bob, `Concurrent = FALSE` |
| double entry (`asset/service.go:2`): `DoubleEntry`, `OrderService` | a cancellation releases between fill and settlement; the trade is booked by half (`order/service.go:260`) | the same with four orders, `TwoSellers`, users alice and bob, `Concurrent = FALSE`, `MayCancel = TRUE` |
| what is left over is released (`order/service.go:115`): `NothingStuck`, `OrderService` | only the taker's own call releases; a maker's remainder stays frozen | the first with `MCRequests`, `Concurrent = FALSE` |
| a limit order trades at its limit or better (`README.md:9`): `LimitPriceKept`, `OrderEntry` | a price beyond 64 bits is cut (`order/service.go:173`) after it was tested; a sell order for an immense price sells for a small one | `order_funding` |
| overflow does not happen in reality (`market/service.go:116`): `QuoteVolumeComplete`, `MarketData` | a coin at 3000 overflows, for want of a division | `market` with `Prices = {10, 30000}`, `Quantities = {1, 10}`, `MaxInt = 92200`: one coin is 10 units, and the greatest integer is 922 times the square of that, as in the code |
| a candle is the candle of its period: `OneCandlePerPeriod`, `MarketData` | the clock is set back over the end of a period (`market/service.go:124`) and later goes on: both candles stay in the list | `market` with `Prices = {1}`, `KeepCandles = 3` |
| changes of the book are announced (`engine.go:16`): `ChangesAnnounced`, `DepthFeed` | an order that rests untouched is not (`engine.go:142`) | `feed` |
| a client is closed once (`hub.go:49`): `ClosedOnce`, `WsClient` | the reader and the writer both find the channel open and both close it: a panic, of the writer for the whole process | `clients` |

The wallet:

| statement, module | the code | run and changes that refute it |
|---|---|---|
| pending transfers are polled (`scanner.go:98`), transfers are credited (`README.md:71`): `CreditedEventually`, `DepositScanner` | nothing remembers a pending transfer (`scanner.go:104`); two transfers of one transaction share a key (`wallet/service.go:178`) | `scanner` with `Adapters = {"evm"}`, `FirstHeight = StartHeight = 3`, `MaxReorg = MaxMisled = 0`, `NodeFails = FALSE`, transfers a and b: the first with `OneEach`, the second with `Confirmations = 1` |
| the same | Bitcoin blocks are read without amounts (`btc.go:135`, which says that the scanner does not depend on them), and the scanner skips what has none (`scanner.go:94`) | the same with `Adapters = {"btc"}`, `OneEach`, `Confirmations = 1` |
| all new blocks are scanned (`scanner.go:47`): `NoBlockSkipped`, `DepositScanner` | after an error the position moves to the latest height all the same (`scanner.go:73`) | the same with `Adapters = {"evm"}`, `NodeFails = TRUE` |
| only confirmed transfers are credited (`scanner.go:98`): `OnlyConfirmed`, `DepositScanner` | receipt and height are asked for separately (`evm.go:132`) | the same with `Adapters = {"evm"}`, `MaxReorg = 1` |
| the same | an error is taken for the height 0, and 0 minus the block's height wraps around (`tron.go:204`) | the same with `Adapters = {"tron"}`, `OneEach`, `NodeFails = TRUE`, `MaxMisled = 1` |
| a withdrawal sent out stays so until it succeeds (`chain.go:118`): `StaysUnderway`, `Withdrawal` | two withdrawals are signed with one nonce (`evm.go:183`); the one with the higher price replaces the other, which stays `BROADCAST` and charged for | `withdrawal` |
| TRX leave as sun, a hundredth of the unit of the books (`tron.go:284`): `PaidWithinAmount`, `Withdrawal` | the conversion for deposits is used, which multiplies by 100 (`tron.go:285`) | `withdrawal` with `Kinds = {"trx"}` |
| a withdrawal is sent or rejected (`chain.go:118`): `RejectedIsUnsent`, `Withdrawal` | two calls that both found it pending both send, or send and reject (`wallet/service.go:245`) | `withdrawal` with `Overlapping = TRUE`, `Failures = {}` |
| submitting approves and sends (`handlers.go:281`): `Decided`, `Withdrawal` | after a failure nothing takes the request up | `withdrawal` with `Reviewed = FALSE` |
| the scanner confirms withdrawals (`wallet/service.go:305`): `SuccessFollows`, `Withdrawal` | nobody calls `ConfirmWithdrawal` | `withdrawal` under `FairSpec` |
| one user keeps one address for an asset (`wallet/service.go:102`): `SameAddressForGood`, `DepositAddresses` | a restart forgets it, and the counter starts anew | `addresses` |
| the mnemonic is saved for the restart (`main.go:111`): `AddressUnshared`, `DepositAddresses` | after it, an index given to one user is given to another, who receives what is still sent there | `addresses` |
| a token stands for the account it was issued for (`auth/service.go:101`): `TokenNamesHolder`, `DepositAddresses` | account numbers start anew while old tokens are still accepted | `addresses` |

`NothingForFree` excepts withdrawals that the reviewer rejects. With lost answers that is a
real exception: the node has taken the transaction, the withdrawal still looks pending, and a
rejection gives the frozen funds back. `PaidWithinAmount` allows one more payment for each lost
answer, which a second approval makes. `RejectedIsUnsent`, too, speaks of withdrawals without a
lost answer. `CreditedWhenConfirmed` excepts the two moments at which `OnlyConfirmed` fails.

Seen while reading and outside the models: in `main.go:116` the fee commented as
0.0001 ETH is 10^14 units of 10^-8, and in `types.go:187` the smallest notional
commented as 5 USDT is 50; a signed transaction is sent as hexadecimal without the `0x`
that EVM nodes expect (`evm.go:218`). Of the states of a withdrawal drawn at `chain.go:118`,
`APPROVED`, `SIGNED` and `FAILED` are never assigned: the code goes from `PENDING` to
`BROADCAST` at once, and so does the model. As the key of a deposit is the hash of its
transaction (`wallet/service.go:178`), a worthless transfer that is paid in first keeps a
genuine one of the same transaction out.

## Fairness

| specification | assumed | why the code justifies it | liveness |
|---|---|---|---|
| `OrderService!FairSpec` | weak on the engine and on each call's own steps, strong on submitting | the event loop and the calls are goroutines; sends to the engine's channel are served first come, first served, while the step is disabled whenever the engine is busy with another order | `PlaceReturns` |
| `DepositScanner!FairSpec` | weak, on the scanner | a goroutine with a ticker, and a node that does not refuse to tell its height for ever; the chain may stop, and `CatchesUp` speaks of behaviours in which it does | `CatchesUp` |
| `ClientFairSpec` | weak on the reader and the writer, strong on the cases of `select` other than messages, and on time | goroutines run; `select` takes a ready case at random, so none is passed over for ever; the clock goes on | `GoneLeaves` |
| `FeedFairSpec` | weak on the event loop and on publishing, strong on fetching | as for the order service | `PushesEnd` |
| `Withdrawal!FairSpec` | weak on requests under way and on the chain; none on `ConfirmWithdrawal` | a request runs to its end, the chain confirms what it has; the code never calls `ConfirmWithdrawal` | refutes `SuccessFollows` |

## Proofs

Checked by TLAPS for all values of the constants that the named assumptions allow:
`BaseAssumption`, `MaxIntAssumption`, `FundingAssumption`, `EntryAssumption`,
`EngineAssumption`, `ServiceAssumption`, `AddressAssumption`, `ScannerAssumption`,
`HotWalletAssumption`, `WithdrawalAssumption`, `LedgerAssumption`, `MarketAssumption`,
`FeedAssumption` and `ClientAssumption`. They state the types of the constants, that prices are
positive, that users and withdrawals are finitely many, that the two assets of a pair differ,
that no transfer brings more than it states, and that whoever withdraws starts with nothing
frozen. Every safety property that a passing run checks is a theorem; where it takes more than
these assumptions, the theorem says what, and the run satisfies it.

- **Arithmetic** – quotients, remainders, and sums. What somebody has, has paid or is
  charged is a sum of a function over a finite set (`SumFunctionOnSet`), a fold that takes
  out elements in the order of `CHOOSE`. That the order does not matter (`SumRemove`: any
  element may come first) is induction over data, which is out of reach as a rule;
  here it is an argument about a smallest counterexample, because strict inclusion of
  finite sets is well founded. From it follow sums of functions that differ in one place,
  bounds by terms, and bounds by subsets. On quotients rest the bounds of the conversions.
  `QuoteSplits`: the costs of two parts, the first at a price not above the limit, fit in
  the cost of the whole at the limit, because the sum of floors is at most the floor of the
  sum. `QuoteOfQtyFits`: converting quote to base and back never exceeds it.
- **OrderFundingProofs** – `FundingSafe`, `BudgetSafe`, `AvgSafe` for orders that start
  with any numbers. The statement `spent <= frozen` is not inductive: a fill may leave too
  little for the rest. The invariant says instead that what is left also pays for the
  remaining quantity at the limit (`FrozenCoversRest`), which `QuoteSplits` preserves.
  `EntryFundingSafe`, `EntryBudgetSafe`, `EntryAvgSafe` and `NoWorseThanAskedSafe` say it
  of orders read from a request, at every width of the integers: a number that is cut
  never grows (`Cut`), so that what passes the tests asks for no more than what was written.
- **MatchingEngineProofs** – the invariant `IInv` holds types, `BookConsistent`,
  `BookSums`, `Accounting` (quantities of each order add up), `TakerFresh` (the
  taker is nowhere in the book), `Aged` (queues are in order of arrival), `OpenLives`
  (who is open is active or the taker) and `TradesSound`. The delicate part is
  `totalQty`. As a sum over a queue it is a fold over a sequence, so
  the proof uses a first-order form: a function of prefix sums exists that ends in
  `totalQty` (`Summed`), with one lemma for each way a queue changes: `SummedAppend`
  (push), `SummedDrop` (pop and removal), `SummedCut` (partial fill).
  From `IInv` follow `TypeSafe`, `BookSafe`, `BackedSafe` (the event loop never indexes
  an empty queue), `LimitsSafe`, and the action properties `TimePrioritySafe`
  and `EndedSafe`. Four more arguments rest on it:
  - `TradesAccountSafe`: `TradesTold`, that orders have got and paid the sums over their
    trades, is kept by every step, and `SummedIsSum` turns prefix sums into the sum of a
    level.
  - `VisibleUncrossedSafe`: `Uncrossed` also holds *during* a submission, when the taker
    is not in the book. A submission ends only when the best visible price does not cross,
    and there is a best one because the map holds finitely many levels (`FewLevels`).
  - `FOKCoveredSafe`: what `canFullyFill` adds up over the levels of the map is what
    matching can find, if no level is hidden from `best()`; each fill takes as much
    from the levels as from the order. Hidden levels are the case excepted by the property.
  - `BuyersPayWithin`: what a limit buy has paid, and what its rest would cost at its
    limit, are within the cost of the whole (`BuysCovered`, by `QuoteSplits`); a market buy
    stays within its budget.

  `EngineImplementsContract`: under `phase` for `status` and `remQuote` for `budget`, every
  step of the engine is a step of `TradingContract` or a stutter.
- **OrderServiceProofs** – every safety property of the run, for any users, orders, funds
  and requests, however calls, cancellations and self-trades overlap: nothing is assumed
  beyond `ServiceAssumption` and `EngineAssumption`. The engine's invariants come from
  its own proofs, through a second instance whose definitions are shown to be the same
  formulas (`SameWork`, `SameSubmit`, `SameCancel`, `SameInit`). There are three invariants,
  each on top of the one before.
  - `ServiceInv` adds where each goroutine stands (`Stages`), and that a buy order is charged
    for exactly the trades its goroutine has settled (`Charged`). Those are among its own
    trades, which have cost no more than was frozen (`BuyersPayWithin`); a sell order is
    charged what the engine says it was filled, which others may raise meanwhile, but never
    beyond its quantity: `ChargedWithinFrozenSafe`. A supply changes only in a settlement
    that is torn (`Settles`), by what its trade moves: `SupplyExplainedSafe`.
  - `FundsInv`: what a user has frozen on one side is at least the sum, over the user's orders
    of that side, of what each holds (`FrozenBacks`). What an order holds (`Held`) is what it
    keeps frozen less what settlements took *for it*; the sum may contain negative terms,
    of orders for which more was taken than they kept. This is the point of the argument: the
    asset service knows only users, so one order can live on another's funds, and does
    exactly as far as it was given back too much. An order that is not short holds the cost
    of each of its unsettled trades (`HeldEnough`), and one in the book what it may still
    trade (`RestingHolds`, from `OpenKeeps`: nothing is released for an order that may be in
    the book). So if no order of a user and side is short, no term of the sum is negative, the
    frozen funds cover each order on its own (`SideHolds`), and a settlement finds them:
    `SettlementFailsOnlyIfShortSafe`. For all the orders in the book at once it gives
    `ReservesBackOrdersSafe`. An order that is short stays so
    (`ShortStays`), which keeps the explanation of an old failure true.
  - `ChargesInv` adds what the charge of an order tells (`Told`): an order that was nobody's
    maker and whose settlements were done is charged for all it owes when it is released.
    From it follows `ShortForCauseSafe`, that the two other cases are the only ones.

  `SettlementNeverFails`, the remark at `order/service.go:97`, is false, and
  `SettlementFailsOnlyIfShort` with `ShortForCause` is what is true of it.
- **DepositAddressesProofs** – `OneAddressSafe`, `AddressLeadsBackSafe`, for any number
  of overlapping calls and of restarts. An index that waits to be stored belongs to one
  call (`Fresh`); a call that holds the lock has a counter ahead of all others (`Ahead`).
  What has been answered is what the maps of this run say (`Told`).
- **DepositScannerProofs** – `CreditedOnceSafe`, `CreditedWithinStatedSafe` (amounts of
  any width and any number of decimals; `OnlyArrivedCredited` is refuted), and the action properties
  `CreditedWhenConfirmedSafe` and `RoundReadsAllSafe`. The invariant ties what
  the scanner holds to the chain it was read from: a receipt is true as long as no block
  was given up (`ReceiptTrue`), what was paid in is remembered by its transaction
  (`Remembered`), and the blocks behind the round have been read (`ReadBehind`).
- **WithdrawalProofs** – `TypeSafe` holds however calls overlap, as part of `Always`. The
  others assume `~Overlapping`, that the request and the reviewer of *one* withdrawal follow
  each other; those of different withdrawals interleave freely. Without it they are false: TLC
  finds a withdrawal sent twice or sent and rejected ([findings](#findings)), as the status is
  read and written without a lock. `OneByOne` says where the callers can stand (`Orderly`),
  that frozen funds and losses are the sums of what each withdrawal holds and has used at that
  place (`Booked`), and that a withdrawal is in as many transactions as were sent for it
  (`Counted`). From it follow `FrozenBacksPendingSafe`, `BooksMatchStatusSafe`,
  `NothingForFreeSafe`, `RejectedIsUnsentSafe`, and `PaidWithinAmountSafe`, which also assumes
  that no TRX are sent: their conversion is wrong, and TLC refutes the statement.
- **RecordProofs** – what is recorded and told.
  - The ledger: `ReconcilesSafe`, `EntriesChainSafe`. The properties are inductive with the
    types of entries and balances. A call appends one entry and changes one account
    (`OneEntry`), a settlement up to four (`SettleKeepsBooks`), and each changes the sums of
    its account by its amount and nobody else's (`Booking`, `NotedBefore`, `NotedAfter`).
  - Connections: `NoLeakSafe`, from where a goroutine that closes the client can stand
    (`WsClosing`). `AliveStaysSafe` assumes `PingPeriod + AnswerTime < PongWait`, 30 s and
    an answer within 60 s in the code: `WsInTime` bounds the reader's deadline from below
    by what is still to happen before it is moved, the tick, the ping, the answer.
  - The feed: `TradesInOrderSafe`, `DepthInOrderSafe`, for any number of clients, pushes and
    changes. No message in a queue is from the future (`NothingAhead`), and as long as no
    push is late there is one at a time, younger than `Window`, and no client has a later
    book than the one it is about to publish (`OnePush`).
  - Market data: `MarketTypeCorrect`, `TickerMatchesTradesSafe`, `CandlesMatchTradesSafe`, for
    any number of trades, periods and settings of the clock. High, low and volume of trades
    are characterised without the functions that compute them (`Summed`). The candles of
    an interval are told from the end of the list (`Told`): one trade either lengthens the
    last run and nothing else (`RunGrows`), or begins a run and leaves the others as they were
    (`RunBegins`); the list changes in the same way, whatever is trimmed (`Aggregates`). That the
    last candle's opening time is that of the last *trade's* period has to be part of the
    invariant, as `Aggregate` looks at nothing else.

Only model-checked: liveness (`PlaceReturns`, `CatchesUp`, `PushesEnd`, `GoneLeaves`), because the
prover handles neither fairness nor ENABLED. `PricePriority` is false.

## Limits

- Integers are unbounded except where their width is the subject: `MarketData`,
  `OrderEntry`, `DepositScanner`, `HotWallet`. The code computes products with `big.Int`
  and rejects results beyond 64 bits. Sums it does not check: the totals of the engine's
  levels and the volume of candles are int64 in the code and unbounded here.
- In `Withdrawal` the node takes a transaction and its answer arrives in one step; so does
  the answer to `ConfirmWithdrawal` with the write of the status, as what the chain has
  confirmed it keeps.
- Every module states the types of its variables, as `TypeOK` or with a prefix. They are proved
  for the matching engine, the order service, the ledger, market data, connections (`WsTypes`),
  deposit addresses, the scanner and withdrawals; the runs spend their time on the other
  properties.
- The counter of derivation paths is a `uint32` in the code and does not wrap around in
  `DepositAddresses`. Users of `Withdrawal` have nothing frozen but what withdrawals froze.
- Prices of the engine are positive. Which requests reach it is the choice of `Requests`;
  validation is modelled in `OrderEntry`.
- `DepositScanner` has one asset; transfers of others are those that bring nothing.
- Data races that only readers see (queries of orders and of the ticker) have no
  counterpart.
- The process keeps everything in memory, so a restart is `Init` everywhere but in
  `DepositAddresses`, where something outlives it. A scanner that starts again reads from
  the last two blocks, with nothing credited: that is a new behaviour of `Spec`, and
  what was paid in before is gone with the balances.
- Tokens do not expire, passwords are right, and `Pong` stands for any answer of a client.
- Not modelled: `Snapshot`/`Restore` and the sweeper (nothing calls them), `Balance` of the
  adapters (only the sweeper asks), signatures, encodings and cryptography, the mock, and
  the wallet of the Bitcoin node, which funds and signs by itself.

## Plan

Models, done in this order: `Decimal` and `OrderFunding`; `MatchingEngine` with
its contract; `Balances`, `AssetLedger`, `OrderService`; `DepositScanner`, `Withdrawal`,
`DepositAddresses`; `MarketData`, `DepthFeed`; `WsClient`; the chains and their amounts
(`Int64`, `ChainUnits`, `HotWallet`); `Accounts` and restarts; `OrderEntry`.

Next, models: `EngineRestore` – snapshot and restore, and what the first match after it
meets – as soon as something calls them.

Proofs, done in this order: rounding and funding; the engine and its contract; order entry;
sums; deposit addresses; the scanner; withdrawals; the engine's trades, uncrossed book and
FOK orders; the order service, its charges and then its frozen funds; the ledger;
connections; the feed; market data.

Next, proofs: a `Restore` that keeps the engine's invariant, with its model; and what a
single lock around a settlement and a release would have to keep for `SettlementNeverFails`
to hold.

## Usage

```
tlc -config MCMatchingEngine.cfg MCMatchingEngine
tlapm MatchingEngineProofs.tla
```

`PROJECT.json` lists the module and configuration of every run.

------------------------------ MODULE MarketData ------------------------------
(***************************************************************************)
(* How the trades of one pair become a ticker, candles and the list of     *)
(* recent trades (internal/market).  The engine's goroutine calls OnTrade  *)
(* for every trade, in order; the service's mutex makes a call one step.   *)
(* Candles go by the clock of the machine, which may be set back.          *)
(***************************************************************************)
EXTENDS Integers, SequencesExt

CONSTANTS
  Prices, Quantities,  \* of the trades
  Intervals,           \* lengths of the candle periods
  KeepTrades,          \* recent trades kept: 200 in the code
  KeepCandles,         \* candles kept per interval: 1000 in the code
  MaxInt,              \* the greatest int64
  MaxClock, MaxTrades, \* bounds: the clock stops, trades cease
  MaxSetBacks          \* bound: how often the clock is set back

MarketParameters ==
  /\ Prices \subseteq Nat \ {0} /\ Quantities \subseteq Nat \ {0}
  /\ Intervals \subseteq Nat \ {0}
  /\ {KeepTrades, KeepCandles} \subseteq Nat \ {0}
  /\ {MaxInt, MaxClock, MaxTrades, MaxSetBacks} \subseteq Nat

ASSUME MarketAssumption == MarketParameters

VARIABLES
  clock,    \* the clock
  setBacks, \* how often it has been set back
  ticker,   \* <<>> before the first trade, then <<the ticker>>
  recent,   \* lastTrades: newest first
  candles,  \* klines: interval -> its candles, oldest first
  seen      \* history: every trade with its time
marketVars == <<clock, setBacks, ticker, recent, candles, seen>>

MarketInit ==
  /\ clock = 0 /\ setBacks = 0
  /\ ticker = <<>> /\ recent = <<>> /\ seen = <<>>
  /\ candles = [i \in Intervals |-> <<>>]

Higher(a, b) == IF a > b THEN a ELSE b
Lower(a, b) == IF a < b THEN a ELSE b

------------------------------------------------------------------------------
\* Ticker

\* The quote volume grows by price * quantity, unless that is too great.
SafeAddQuote(sum, price, qty) ==
  IF price * qty > MaxInt \/ sum + price * qty > MaxInt THEN sum ELSE sum + price * qty

FirstTicker(p, q) ==
  [open |-> p, last |-> p, high |-> p, low |-> p, volume |-> q,
   quoteVolume |-> SafeAddQuote(0, p, q)]

\* Faulty variant: a new high cannot be a new low, and is not looked at.
NextTickerHighOnly(t, p, q) ==
  [t EXCEPT !.last = p, !.high = Higher(@, p), !.volume = @ + q,
            !.quoteVolume = SafeAddQuote(@, p, q)]

NextTicker(t, p, q) ==
  [t EXCEPT !.last = p, !.high = Higher(@, p), !.low = Lower(@, p), !.volume = @ + q,
            !.quoteVolume = SafeAddQuote(@, p, q)]

------------------------------------------------------------------------------
\* Candles

OpenTime(i) == clock - (clock % i)

NewCandle(i, p, q) ==
  [openTime |-> OpenTime(i), open |-> p, high |-> p, low |-> p, close |-> p,
   volume |-> q, closed |-> FALSE]

Extended(k, p, q) ==
  [k EXCEPT !.high = Higher(@, p), !.low = Lower(@, p), !.close = p, !.volume = @ + q]

\* The newest KeepCandles of them.
Trimmed(arr) == SubSeq(arr, Higher(1, Len(arr) - KeepCandles + 1), Len(arr))

CloseLast(arr) ==
  IF arr = <<>> THEN arr ELSE [arr EXCEPT ![Len(arr)].closed = TRUE]

\* Faulty variant: the period is taken to be over when the clock has advanced
\* by its length since the last candle was opened, not when it is.
AggregateLate(arr, i, p, q) ==
  IF arr # <<>> /\ clock - Last(arr).openTime <= i
  THEN [arr EXCEPT ![Len(arr)] = Extended(@, p, q)]
  ELSE Trimmed(Append(CloseLast(arr), NewCandle(i, p, q)))

\* The last candle is never closed before its successor is added.
Aggregate(arr, i, p, q) ==
  IF arr # <<>> /\ Last(arr).openTime = OpenTime(i)
  THEN [arr EXCEPT ![Len(arr)] = Extended(@, p, q)]
  ELSE Trimmed(Append(CloseLast(arr), NewCandle(i, p, q)))

------------------------------------------------------------------------------
OnTrade(p, q) ==
  LET trade == [price |-> p, qty |-> q, time |-> clock] IN
  /\ Len(seen) < MaxTrades
  /\ seen' = Append(seen, trade)
  /\ recent' = SubSeq(<<trade>> \o recent, 1, Lower(KeepTrades, Len(recent) + 1))
  /\ ticker' = IF ticker = <<>> THEN <<FirstTicker(p, q)>>
                                ELSE <<NextTicker(ticker[1], p, q)>>
  /\ candles' = [i \in Intervals |-> Aggregate(candles[i], i, p, q)]
  /\ UNCHANGED <<clock, setBacks>>

ClockAdvances ==
  /\ clock < MaxClock /\ clock' = clock + 1
  /\ UNCHANGED <<setBacks, ticker, recent, candles, seen>>

SetBack ==
  /\ setBacks < MaxSetBacks /\ setBacks' = setBacks + 1
  /\ clock' \in 0 .. clock - 1
  /\ UNCHANGED <<ticker, recent, candles, seen>>

MarketNext == ClockAdvances \/ SetBack \/ \E p \in Prices, q \in Quantities : OnTrade(p, q)

MarketSpec == MarketInit /\ [][MarketNext]_marketVars

------------------------------------------------------------------------------
(***************************************************************************)
(* Properties                                                              *)
(***************************************************************************)

TickerTypes == [open: Prices, last: Prices, high: Prices, low: Prices,
                volume: Nat, quoteVolume: 0 .. MaxInt]
CandleTypes == [openTime: 0 .. MaxClock, open: Prices, high: Prices, low: Prices,
                close: Prices, volume: Nat, closed: BOOLEAN]

\* Types; the quote volume never leaves the range of an int64.
MarketTypeOK ==
  /\ clock \in 0 .. MaxClock /\ setBacks \in 0 .. MaxSetBacks
  /\ Len(ticker) <= 1 /\ Range(ticker) \subseteq TickerTypes
  /\ Len(recent) <= KeepTrades
  /\ \A i \in Intervals :
       Len(candles[i]) <= KeepCandles /\ Range(candles[i]) \subseteq CandleTypes

\* Open, close, high, low and volume of a sequence of trades, by definition.
Summary(trades) ==
  LET prices == {trades[n].price : n \in DOMAIN trades} IN
  [open |-> trades[1].price, close |-> Last(trades).price,
   high |-> Max(prices), low |-> Min(prices),
   volume |-> SumFunctionOnSet([n \in DOMAIN trades |-> trades[n].qty], DOMAIN trades)]

\* The period of length i that a time is in.
Period(t, i) == t - (t % i)

\* Where trades go on in another period than the one before, of length i.
Turns(trades, i) ==
  {n \in DOMAIN trades :
     n > 1 => Period(trades[n].time, i) # Period(trades[n - 1].time, i)}

\* The turns that come after the n-th trade.
After(trades, i, n) == {m \in Turns(trades, i) : m > n}

\* The run of trades of one period that begins with the n-th trade, a turn.
Run(trades, i, n) ==
  SubSeq(trades, n, IF After(trades, i, n) = {} THEN Len(trades)
                    ELSE Min(After(trades, i, n)) - 1)

\* Though built trade by trade, and closed only by a trade of another period,
\* the candles of an interval are those of the runs of trades in one period,
\* the newest ones, in order; however the clock moves, no trade is counted in a
\* candle of another period, or twice, or not at all.
CandlesMatchTrades ==
  \A i \in Intervals :
    LET arr == candles[i] IN
    /\ Len(arr) = Lower(KeepCandles, Cardinality(Turns(seen, i)))
    /\ \A n \in Turns(seen, i) :
         LET k == Len(arr) - Cardinality(After(seen, i, n))
             c == arr[k]
             s == Summary(Run(seen, i, n))
         IN  k > 0 =>
               /\ <<c.open, c.close, c.high, c.low, c.volume>> =
                  <<s.open, s.close, s.high, s.low, s.volume>>
               /\ c.openTime = Period(seen[n].time, i)
               /\ c.closed <=> k < Len(arr)

\* The ticker tells the trades since the start, the ones that candles and the
\* list of recent trades have dropped included.
TickerMatchesTrades ==
  seen # <<>> =>
    LET s == Summary(seen)
        t == ticker[1]
    IN  <<t.open, t.last, t.high, t.low, t.volume>> =
        <<s.open, s.close, s.high, s.low, s.volume>>

------------------------------------------------------------------------------
(***************************************************************************)
(* Statements of the repository that the code does not keep (see README).  *)
(***************************************************************************)

\* The remark beside safeAddQuote's call: no trade is ever left out of the
\* quote volume, because real amounts do not overflow.
QuoteVolumeComplete ==
  seen # <<>> =>
    ticker[1].quoteVolume = FoldLeft(LAMBDA sum, t : sum + t.price * t.qty, 0, seen)

\* A candle is the candle of its period: there is no other.
OneCandlePerPeriod ==
  \A i \in Intervals : \A m, n \in DOMAIN candles[i] :
    candles[i][m].openTime = candles[i][n].openTime => m = n
===============================================================================

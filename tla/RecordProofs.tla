----------------------------- MODULE RecordProofs -----------------------------
(***************************************************************************)
(* What is recorded of the exchange's work and told to others: the entries *)
(* of the asset ledger (AssetLedger), market data (MarketData), the feed   *)
(* of trades and depth (DepthFeed), and the connections that carry them    *)
(* (WsClient).  The specifications are looked at one by one: they share no *)
(* constant and no variable.                                               *)
(***************************************************************************)
EXTENDS AssetLedger, MarketData, DepthFeed, WsClient, Arithmetic

------------------------------------------------------------------------------
(***************************************************************************)
(* The asset ledger                                                        *)
(***************************************************************************)

\* The greatest of finitely many integers.
LEMMA MaxIn ==
  ASSUME NEW S \in SUBSET Int, IsFiniteSet(S), S # {}
  PROVE  Max(S) \in S /\ \A x \in S : Max(S) >= x
<1>1. PICK m \in S : \A y \in S \ {m} : m > y
  BY FiniteHasEnds
<1>2. \A y \in S : m >= y
  BY <1>1
<1> QED
  BY <1>2 DEF Max

\* Some positions among the first n are finitely many.
LEMMA Positions ==
  ASSUME NEW n \in Nat, NEW S \in SUBSET (1 .. n)
  PROVE  IsFiniteSet(S) /\ S \in SUBSET Int
<1>1. IsFiniteSet(1 .. n)
  BY FS_Interval
<1>2. S \subseteq 1 .. n
  OBVIOUS
<1>3. IsFiniteSet(S)
  BY <1>1, <1>2, FS_Subset
<1> QED
  BY <1>3

\* An entry that follows the others counts in the sums of its own account.
LEMMA Booking ==
  ASSUME NEW l \in Seq(EntryTypes), NEW e \in EntryTypes, NEW u, NEW a, NEW types
  PROVE  /\ Booked(l, u, a, types) \in Int
         /\ Booked(Append(l, e), u, a, types) =
              Booked(l, u, a, types) +
              IF e.user = u /\ e.asset = a /\ e.type \in types THEN e.amount ELSE 0
<1> DEFINE k == Append(l, e)
           f == [i \in DOMAIN l |-> l[i].amount]
           g == [i \in DOMAIN k |-> k[i].amount]
           S == {i \in Of(l, u, a) : l[i].type \in types}
           T == {i \in Of(k, u, a) : k[i].type \in types}
           n == Len(l) + 1
<1>1. /\ DOMAIN l = 1 .. Len(l) /\ Len(l) \in Nat /\ DOMAIN k = 1 .. n
      /\ \A i \in DOMAIN l : k[i] = l[i] /\ l[i] \in EntryTypes
      /\ k[n] = e
  OBVIOUS
<1>2. S \subseteq 1 .. Len(l) /\ n \notin S /\ n \in DOMAIN k
  BY <1>1 DEF Of
<1>3. IsFiniteSet(S)
  BY <1>1, <1>2, Positions
<1>4. /\ \A i \in S : f[i] \in Int /\ g[i] = f[i]
      /\ g[n] = e.amount /\ e.amount \in Int
  BY <1>1, <1>2 DEF EntryTypes
<1>5. T = IF e.user = u /\ e.asset = a /\ e.type \in types THEN S \cup {n} ELSE S
  BY <1>1 DEF Of
<1>6. Booked(l, u, a, types) = SumFunctionOnSet(f, S) /\ Booked(k, u, a, types) = SumFunctionOnSet(g, T)
  BY DEF Booked
<1> HIDE DEF f, g, S, T, k, n
<1>7. SumFunctionOnSet(f, S) \in Int
  BY <1>3, <1>4, SumType
<1>8. SumFunctionOnSet(g, S) = SumFunctionOnSet(f, S)
  BY <1>3, <1>4, SumSame
<1>9. SumFunctionOnSet(g, S \cup {n}) = SumFunctionOnSet(g, S) + e.amount
  <2>1. \A i \in S \cup {n} : g[i] \in Int
    BY <1>4
  <2> QED
    BY <1>2, <1>3, <1>4, <2>1, SumInsert
<1>10. CASE e.user = u /\ e.asset = a /\ e.type \in types
  BY <1>5, <1>6, <1>7, <1>8, <1>9, <1>10 DEF k
<1>11. CASE ~(e.user = u /\ e.asset = a /\ e.type \in types)
  BY <1>5, <1>6, <1>7, <1>8, <1>11 DEF k
<1> QED
  BY <1>10, <1>11

\* The balance noted last is looked up among the entries before a position.
LEMMA NotedBefore ==
  ASSUME NEW l \in Seq(EntryTypes), NEW e, NEW j \in 1 .. Len(l) + 1, NEW u, NEW a
  PROVE  Noted(Append(l, e), j, u, a) = Noted(l, j, u, a) /\ Noted(l, j, u, a) \in Int
<1> DEFINE k == Append(l, e)
           S == {i \in Of(l, u, a) : i < j}
           T == {i \in Of(k, u, a) : i < j}
<1>1. /\ DOMAIN l = 1 .. Len(l) /\ Len(l) \in Nat /\ DOMAIN k = 1 .. Len(l) + 1
      /\ \A i \in DOMAIN l : k[i] = l[i] /\ l[i] \in EntryTypes
  OBVIOUS
<1>2. S = T /\ S \subseteq 1 .. Len(l)
  BY <1>1 DEF Of
<1>3. CASE S = {}
  BY <1>2, <1>3 DEF Noted
<1>4. CASE S # {}
  <2>1. IsFiniteSet(S)
    BY <1>1, <1>2, Positions
  <2>2. S \in SUBSET Int
    BY <1>2
  <2>3. Max(S) \in S
    BY <1>4, <2>1, <2>2, MaxIn
  <2>4. k[Max(S)] = l[Max(S)] /\ l[Max(S)].balance \in Int
    BY <1>1, <1>2, <2>3 DEF EntryTypes
  <2> QED
    BY <1>2, <1>4, <2>4 DEF Noted
<1> QED
  BY <1>3, <1>4

\* After the last entry, that entry's balance is the one noted for its account.
LEMMA NotedAfter ==
  ASSUME NEW l \in Seq(EntryTypes), NEW e \in EntryTypes, NEW u, NEW a
  PROVE  Noted(Append(l, e), Len(Append(l, e)) + 1, u, a) =
           IF e.user = u /\ e.asset = a THEN e.balance ELSE Noted(l, Len(l) + 1, u, a)
<1> DEFINE k == Append(l, e)
           n == Len(l) + 1
           S == {i \in Of(l, u, a) : i < n}
           T == {i \in Of(k, u, a) : i < n + 1}
<1>1. /\ DOMAIN l = 1 .. Len(l) /\ Len(l) \in Nat /\ DOMAIN k = 1 .. n /\ Len(k) = n
      /\ \A i \in DOMAIN l : k[i] = l[i]
      /\ k[n] = e
  OBVIOUS
<1>2. CASE e.user = u /\ e.asset = a
  <2>1. n \in T /\ T \subseteq 1 .. n
    BY <1>1, <1>2 DEF Of
  <2>2. T \in SUBSET Int /\ IsFiniteSet(T)
    <3>1. n \in Nat /\ T \in SUBSET (1 .. n)
      BY <1>1, <2>1
    <3> HIDE DEF n, T
    <3> QED
      BY <3>1, Positions
  <2>3. Max(T) \in T /\ Max(T) >= n
    BY <2>1, <2>2, MaxIn
  <2>4. Max(T) = n
    BY <1>1, <2>1, <2>3
  <2> QED
    BY <1>1, <1>2, <2>1, <2>4 DEF Noted
<1>3. CASE ~(e.user = u /\ e.asset = a)
  <2>1. S = T /\ S \subseteq 1 .. Len(l)
    BY <1>1, <1>3 DEF Of
  <2>2. CASE S = {}
    BY <1>1, <1>3, <2>1, <2>2 DEF Noted
  <2>3. CASE S # {}
    <3>1. IsFiniteSet(S) /\ S \in SUBSET Int
      BY <1>1, <2>1, Positions
    <3>2. Max(S) \in DOMAIN l
      BY <1>1, <2>1, <2>3, <3>1, MaxIn
    <3> QED
      BY <1>1, <1>3, <2>1, <2>3, <3>2 DEF Noted
  <2> QED
    BY <2>2, <2>3
<1> QED
  BY <1>2, <1>3

\* What an entry changes of the balance it notes.
Moved(e) == IF e.type \in HoldTypes THEN 0 ELSE e.amount

\* EntriesChain, of any entries.
Chained(l) ==
  \A j \in DOMAIN l :
    l[j].balance = Noted(l, j, l[j].user, l[j].asset) + Moved(l[j])

\* Every account's total is the balance noted for it last.
NotedTotals(l, b) ==
  \A u \in Users, a \in Assets : Noted(l, Len(l) + 1, u, a) = Total(b, u, a)

\* Reconciles, of any entries and balances.
Balanced(l, b) ==
  \A u \in Users, a \in Assets :
    LET held == Booked(l, u, a, HoldTypes) IN
    /\ b[u][a].available = Booked(l, u, a, {"DEPOSIT", "TRADE_IN"}) + held
    /\ b[u][a].frozen = Booked(l, u, a, {"WITHDRAW", "TRADE_OUT"}) - held

\* The books of the ledger: entries that explain these balances.
Books(l, b) ==
  /\ l \in Seq(EntryTypes) /\ b \in BalanceTypes
  /\ Chained(l) /\ NotedTotals(l, b) /\ Balanced(l, b)

\* The change of the two parts of an account that an entry stands for.
PartsMoved(e) ==
  [available |-> IF e.type \in {"DEPOSIT", "TRADE_IN"} \cup HoldTypes THEN e.amount ELSE 0,
   frozen |-> IF e.type \in HoldTypes THEN -e.amount
              ELSE IF e.type \in {"WITHDRAW", "TRADE_OUT"} THEN e.amount ELSE 0]

\* Balances b have become c by what entry e stands for.
Follows(b, c, e) ==
  \A u \in Users, a \in Assets :
    LET p == PartsMoved(e) IN
    /\ u = e.user /\ a = e.asset =>
         /\ c[u][a].available = b[u][a].available + p.available
         /\ c[u][a].frozen = b[u][a].frozen + p.frozen
    /\ ~(u = e.user /\ a = e.asset) =>
         c[u][a].available = b[u][a].available /\ c[u][a].frozen = b[u][a].frozen

\* The books stay sound when an entry and the change of its account that it
\* stands for are made together, and it notes the total after the change.
LEMMA EntryKeepsBooks ==
  ASSUME NEW l, NEW b, NEW c, Books(l, b), c \in BalanceTypes, NEW e \in EntryTypes,
         Follows(b, c, e), e.balance = Total(c, e.user, e.asset)
  PROVE  Books(Append(l, e), c)
<1> DEFINE k == Append(l, e)
           p == PartsMoved(e)
<1>1. /\ l \in Seq(EntryTypes) /\ b \in BalanceTypes
      /\ e.user \in Users /\ e.asset \in Assets /\ e.amount \in Int /\ e.type \in Types
  BY DEF Books, EntryTypes
<1>2. /\ DOMAIN l = 1 .. Len(l) /\ Len(l) \in Nat /\ DOMAIN k = 1 .. Len(l) + 1
      /\ Len(k) = Len(l) + 1
      /\ \A i \in DOMAIN l : k[i] = l[i]
      /\ k[Len(l) + 1] = e
      /\ k \in Seq(EntryTypes)
  BY <1>1
<1>3. \A u \in Users, a \in Assets :
        /\ u = e.user /\ a = e.asset =>
             /\ c[u][a].available = b[u][a].available + p.available
             /\ c[u][a].frozen = b[u][a].frozen + p.frozen
        /\ ~(u = e.user /\ a = e.asset) =>
             c[u][a].available = b[u][a].available /\ c[u][a].frozen = b[u][a].frozen
        /\ b[u][a].available \in Int /\ b[u][a].frozen \in Int
  <2>1. \A u \in Users, a \in Assets : b[u][a] \in [available: Nat, frozen: Nat]
    BY <1>1 DEF BalanceTypes
  <2> QED
    BY <2>1 DEF Follows
<1>4. p.available \in Int /\ p.frozen \in Int /\ p.available + p.frozen = Moved(e)
  BY <1>1 DEF PartsMoved, Moved, HoldTypes, Types
<1> HIDE DEF k, p
<1>5. Chained(k)
  <2>1. SUFFICES ASSUME NEW j \in DOMAIN k
                 PROVE  k[j].balance = Noted(k, j, k[j].user, k[j].asset) + Moved(k[j])
    BY DEF Chained
  <2>2. j \in 1 .. Len(l) + 1
    BY <1>2
  <2>3. Noted(k, j, k[j].user, k[j].asset) = Noted(l, j, k[j].user, k[j].asset)
    BY <1>1, <2>2, NotedBefore DEF k
  <2>4. CASE j \in DOMAIN l
    BY <1>2, <2>3, <2>4 DEF Books, Chained
  <2>5. CASE j = Len(l) + 1
    <3>1. Noted(l, j, e.user, e.asset) = Total(b, e.user, e.asset)
      BY <1>1, <2>5 DEF Books, NotedTotals
    <3>2. Total(c, e.user, e.asset) = Total(b, e.user, e.asset) + Moved(e)
      <4> DEFINE x == b[e.user][e.asset]
                 y == c[e.user][e.asset]
      <4>1. /\ x.available \in Int /\ x.frozen \in Int
            /\ y.available = x.available + p.available /\ y.frozen = x.frozen + p.frozen
        BY <1>1, <1>3
      <4> QED
        BY <1>4, <4>1 DEF Total
    <3> QED
      BY <1>2, <2>3, <2>5, <3>1, <3>2
  <2> QED
    BY <1>2, <2>4, <2>5
<1>6. NotedTotals(k, c)
  <2>1. SUFFICES ASSUME NEW u \in Users, NEW a \in Assets
                 PROVE  Noted(k, Len(k) + 1, u, a) = Total(c, u, a)
    BY DEF NotedTotals
  <2>2. Noted(k, Len(k) + 1, u, a) =
          IF e.user = u /\ e.asset = a THEN e.balance ELSE Noted(l, Len(l) + 1, u, a)
    BY <1>1, NotedAfter DEF k
  <2>3. Noted(l, Len(l) + 1, u, a) = Total(b, u, a)
    BY DEF Books, NotedTotals
  <2> QED
    BY <1>3, <2>2, <2>3 DEF Total
<1>7. Balanced(k, c)
  <2> DEFINE ins == {"DEPOSIT", "TRADE_IN"}
             outs == {"WITHDRAW", "TRADE_OUT"}
  <2>1. SUFFICES ASSUME NEW u \in Users, NEW a \in Assets
                 PROVE  LET held == Booked(k, u, a, HoldTypes) IN
                        /\ c[u][a].available = Booked(k, u, a, ins) + held
                        /\ c[u][a].frozen = Booked(k, u, a, outs) - held
    BY DEF Balanced
  <2>2. /\ b[u][a].available = Booked(l, u, a, ins) + Booked(l, u, a, HoldTypes)
        /\ b[u][a].frozen = Booked(l, u, a, outs) - Booked(l, u, a, HoldTypes)
    BY DEF Books, Balanced
  <2>3. \A types \in {HoldTypes, ins, outs} :
          /\ Booked(l, u, a, types) \in Int
          /\ Booked(k, u, a, types) = Booked(l, u, a, types) +
               IF e.user = u /\ e.asset = a /\ e.type \in types THEN e.amount ELSE 0
    BY <1>1, Booking DEF k
  <2>4. CASE ~(e.user = u /\ e.asset = a)
    BY <1>3, <2>2, <2>3, <2>4
  <2>5. CASE e.user = u /\ e.asset = a
    <3>1. \A types \in {HoldTypes, ins, outs} :
            Booked(k, u, a, types) = Booked(l, u, a, types) +
              IF e.type \in types THEN e.amount ELSE 0
      BY <2>3, <2>5
    <3>2. /\ c[u][a].available = b[u][a].available + p.available
          /\ c[u][a].frozen = b[u][a].frozen + p.frozen
      BY <1>3, <2>5
    <3>3. CASE e.type \in HoldTypes
      <4>1. e.type \notin ins /\ e.type \notin outs
        BY <3>3 DEF HoldTypes
      <4>2. p.available = e.amount /\ p.frozen = -e.amount
        BY <3>3, <4>1 DEF p, PartsMoved
      <4> HIDE DEF ins, outs
      <4> QED
        BY <1>1, <1>3, <2>2, <2>3, <3>1, <3>2, <3>3, <4>1, <4>2
    <3>4. CASE e.type \in ins
      BY <1>1, <2>2, <2>3, <3>1, <3>2, <3>4 DEF p, PartsMoved, HoldTypes
    <3>5. CASE e.type \in outs
      BY <1>1, <2>2, <2>3, <3>1, <3>2, <3>5 DEF p, PartsMoved, HoldTypes
    <3> QED
      BY <1>1, <3>3, <3>4, <3>5 DEF Types, HoldTypes
  <2> QED
    BY <2>4, <2>5
<1> QED
  BY <1>2, <1>5, <1>6, <1>7 DEF Books, k

IInv ==
  /\ Books(ledger, bal)
  /\ DOMAIN settled \subseteq TradeIds

\* A call that writes one entry.
LEMMA OneEntry ==
  ASSUME IInv, NEW u \in Users, NEW a \in Assets, NEW amount \in Int, NEW type \in Types,
         NEW c \in BalanceTypes, bal' = c,
         LET e == Entry(u, a, amount, type, NoTrade)
         IN  ledger' = Append(ledger, e) /\ Follows(bal, c, e)
  PROVE  Books(ledger, bal)'
<1>1. PICK e : e = Entry(u, a, amount, type, NoTrade)
  OBVIOUS
<1>2. Total(c, u, a) \in Int
  BY DEF Total, BalanceTypes
<1>3. e \in EntryTypes /\ e.balance = Total(c, e.user, e.asset)
  BY <1>1, <1>2 DEF Entry, EntryTypes
<1>4. Books(ledger, bal)
  BY DEF IInv
<1>5. Books(Append(ledger, e), c)
  BY <1>1, <1>3, <1>4, EntryKeepsBooks
<1> QED
  BY <1>1, <1>5

\* No call of the service makes a balance negative.
LEMMA CallTypes ==
  ASSUME NEW b \in BalanceTypes, NEW u \in Users, NEW a \in Assets, NEW q \in Nat \ {0}
  PROVE  /\ AfterDeposit(b, u, a, q) \in BalanceTypes
         /\ CanFreeze(b, u, a, q) => AfterFreeze(b, u, a, q) \in BalanceTypes
         /\ CanRelease(b, u, a, q) => /\ AfterUnfreeze(b, u, a, q) \in BalanceTypes
                                      /\ AfterConsume(b, u, a, q) \in BalanceTypes
<1>1. AfterDeposit(b, u, a, q) \in BalanceTypes
  BY DEF AfterDeposit, BalanceTypes
<1>2. CanFreeze(b, u, a, q) => AfterFreeze(b, u, a, q) \in BalanceTypes
  BY DEF CanFreeze, AfterFreeze, BalanceTypes
<1>3. CanRelease(b, u, a, q) => AfterUnfreeze(b, u, a, q) \in BalanceTypes
  BY DEF CanRelease, AfterUnfreeze, BalanceTypes
<1>4. CanRelease(b, u, a, q) => AfterConsume(b, u, a, q) \in BalanceTypes
  BY DEF CanRelease, AfterConsume, BalanceTypes
<1> QED
  BY <1>1, <1>2, <1>3, <1>4

\* Deposit, Freeze, Unfreeze and ConsumeFrozen.
LEMMA CallKeepsBooks ==
  ASSUME IInv, NEW u \in Users, NEW a \in Assets, NEW q \in Amounts,
         Deposit(u, a, q) \/ Freeze(u, a, q) \/ Unfreeze(u, a, q) \/ ConsumeFrozen(u, a, q)
  PROVE  IInv'
<1>1. q \in Nat \ {0} /\ q \in Int /\ -q \in Int
  BY LedgerAssumption
<1>2. bal \in [Users -> [Assets -> [available: Nat, frozen: Nat]]]
  BY DEF IInv, Books, BalanceTypes
<1>3. bal \in BalanceTypes
  BY <1>2 DEF BalanceTypes
<1>4. UNCHANGED settled
  BY DEF Deposit, Freeze, Unfreeze, ConsumeFrozen
<1>5. CASE Deposit(u, a, q)
  <2>1. bal' = AfterDeposit(bal, u, a, q) /\ AfterDeposit(bal, u, a, q) \in BalanceTypes
    BY <1>1, <1>3, <1>5, CallTypes DEF Deposit
  <2>2. Follows(bal, AfterDeposit(bal, u, a, q), Entry(u, a, q, "DEPOSIT", NoTrade))
    BY <1>1, <1>2 DEF Follows, PartsMoved, Entry, AfterDeposit, HoldTypes
  <2> QED
    BY <1>1, <1>4, <1>5, <2>1, <2>2, OneEntry DEF Deposit, Types, IInv
<1>6. CASE Freeze(u, a, q)
  <2>1. bal' = AfterFreeze(bal, u, a, q) /\ AfterFreeze(bal, u, a, q) \in BalanceTypes
    BY <1>1, <1>3, <1>6, CallTypes DEF Freeze
  <2>2. Follows(bal, AfterFreeze(bal, u, a, q), Entry(u, a, -q, "ORDER_FREEZE", NoTrade))
    BY <1>1, <1>2 DEF Follows, PartsMoved, Entry, AfterFreeze, HoldTypes
  <2> QED
    BY <1>1, <1>4, <1>6, <2>1, <2>2, OneEntry DEF Freeze, Types, IInv
<1>7. CASE Unfreeze(u, a, q)
  <2>1. bal' = AfterUnfreeze(bal, u, a, q) /\ AfterUnfreeze(bal, u, a, q) \in BalanceTypes
    BY <1>1, <1>3, <1>7, CallTypes DEF Unfreeze
  <2>2. Follows(bal, AfterUnfreeze(bal, u, a, q), Entry(u, a, q, "ORDER_UNFREEZE", NoTrade))
    BY <1>1, <1>2 DEF Follows, PartsMoved, Entry, AfterUnfreeze, HoldTypes
  <2> QED
    BY <1>1, <1>4, <1>7, <2>1, <2>2, OneEntry DEF Unfreeze, Types, IInv
<1>8. CASE ConsumeFrozen(u, a, q)
  <2>1. bal' = AfterConsume(bal, u, a, q) /\ AfterConsume(bal, u, a, q) \in BalanceTypes
    BY <1>1, <1>3, <1>8, CallTypes DEF ConsumeFrozen
  <2>2. Follows(bal, AfterConsume(bal, u, a, q), Entry(u, a, -q, "WITHDRAW", NoTrade))
    BY <1>1, <1>2 DEF Follows, PartsMoved, Entry, AfterConsume, HoldTypes
  <2> QED
    BY <1>1, <1>4, <1>8, <2>1, <2>2, OneEntry DEF ConsumeFrozen, Types, IInv
<1> QED
  BY <1>5, <1>6, <1>7, <1>8

\* What Deposit does to each account, an amount of 0 included.
LEMMA DepositMoves ==
  ASSUME NEW b \in BalanceTypes, NEW u \in Users, NEW a \in Assets, NEW q \in Nat,
         NEW d, d = AfterDeposit(b, u, a, q)
  PROVE  /\ d \in BalanceTypes
         /\ \A v \in Users, z \in Assets :
              /\ d[v][z].frozen = b[v][z].frozen
              /\ d[v][z].available = b[v][z].available + (IF v = u /\ z = a THEN q ELSE 0)
         /\ \A v \in Users \ {u} : d[v] = b[v]
<1>1. b \in [Users -> [Assets -> [available: Nat, frozen: Nat]]]
  BY DEF BalanceTypes
<1>2. \A v \in Users, z \in Assets : b[v][z].available \in Nat /\ b[v][z].frozen \in Nat
  BY <1>1
<1>3. d \in BalanceTypes
  <2>1. [b[u][a] EXCEPT !.available = @ + q] \in [available: Nat, frozen: Nat]
    BY <1>1
  <2>2. d = [b EXCEPT ![u][a] = [b[u][a] EXCEPT !.available = @ + q]]
    BY DEF AfterDeposit
  <2> QED
    BY <1>1, <2>1, <2>2 DEF BalanceTypes
<1>4. ASSUME NEW v \in Users, NEW z \in Assets
      PROVE  /\ d[v][z].frozen = b[v][z].frozen
             /\ d[v][z].available = b[v][z].available + (IF v = u /\ z = a THEN q ELSE 0)
  BY <1>1, <1>2 DEF AfterDeposit
<1>5. \A v \in Users \ {u} : d[v] = b[v]
  BY <1>1 DEF AfterDeposit
<1> QED
  BY <1>3, <1>4, <1>5

\* What ConsumeFrozen does to each account, an amount of 0 included.
LEMMA ConsumeMoves ==
  ASSUME NEW b \in BalanceTypes, NEW u \in Users, NEW a \in Assets, NEW q \in Nat, b[u][a].frozen >= q,
         NEW d, d = AfterConsume(b, u, a, q)
  PROVE  /\ d \in BalanceTypes
         /\ \A v \in Users, z \in Assets :
              /\ d[v][z].available = b[v][z].available
              /\ d[v][z].frozen = b[v][z].frozen - (IF v = u /\ z = a THEN q ELSE 0)
         /\ \A v \in Users \ {u} : d[v] = b[v]
<1>1. b \in [Users -> [Assets -> [available: Nat, frozen: Nat]]]
  BY DEF BalanceTypes
<1>2. \A v \in Users, z \in Assets : b[v][z].available \in Nat /\ b[v][z].frozen \in Nat
  BY <1>1
<1>3. d \in BalanceTypes
  <2>1. AfterConsume(b, u, a, q) \in BalanceTypes
    BY DEF AfterConsume, BalanceTypes
  <2> QED
    BY <2>1
<1>4. ASSUME NEW v \in Users, NEW z \in Assets
      PROVE  /\ d[v][z].available = b[v][z].available
             /\ d[v][z].frozen = b[v][z].frozen - (IF v = u /\ z = a THEN q ELSE 0)
  BY <1>1, <1>2 DEF AfterConsume
<1>5. \A v \in Users \ {u} : d[v] = b[v]
  BY <1>1 DEF AfterConsume
<1> QED
  BY <1>3, <1>4, <1>5

\* One side of a settlement: user u pays c of asset y, which is frozen, and
\* gets q of asset x.
Side(b, u, x, y, c, q) == AfterDeposit(AfterConsume(b, u, y, c), u, x, q)

\* The two sides, as Balances has them.
LEMMA Sides ==
  ASSUME NEW b, NEW u, NEW base, NEW quote, NEW qty, NEW cost, base # quote
  PROVE  /\ BuyerPaid(b, u, base, quote, qty, cost) = Side(b, u, base, quote, cost, qty)
         /\ SellerPaid(b, u, base, quote, qty, cost) = Side(b, u, quote, base, qty, cost)
  BY DEF BuyerPaid, SellerPaid, Side, AfterDeposit, AfterConsume

\* A side leaves sound balances and the other users alone.
LEMMA SideTypes ==
  ASSUME NEW b \in BalanceTypes, NEW u \in Users, NEW x \in Assets, NEW y \in Assets,
         NEW c \in Nat, NEW q \in Nat, b[u][y].frozen >= c
  PROVE  /\ Side(b, u, x, y, c, q) \in BalanceTypes
         /\ \A v \in Users \ {u} : Side(b, u, x, y, c, q)[v] = b[v]
<1>1. PICK m : m = AfterConsume(b, u, y, c)
  OBVIOUS
<1>2. m \in BalanceTypes /\ \A v \in Users \ {u} : m[v] = b[v]
  BY <1>1, ConsumeMoves
<1>3. /\ AfterDeposit(m, u, x, q) \in BalanceTypes
      /\ \A v \in Users \ {u} : AfterDeposit(m, u, x, q)[v] = m[v]
  BY <1>2, DepositMoves
<1> QED
  BY <1>1, <1>2, <1>3 DEF Side

\* The two entries of one side of a settlement keep the books sound.
LEMMA SideKeepsBooks ==
  ASSUME NEW l, NEW b, Books(l, b),
         NEW u \in Users, NEW x \in Assets, NEW y \in Assets, x # y,
         NEW c \in Nat, NEW q \in Nat, b[u][y].frozen >= c,
         NEW n, n = Side(b, u, x, y, c, q),
         NEW out \in EntryTypes, out.user = u, out.asset = y, out.amount = -c,
         out.type = "TRADE_OUT", out.balance = Total(n, u, y),
         NEW in \in EntryTypes, in.user = u, in.asset = x, in.amount = q,
         in.type = "TRADE_IN", in.balance = Total(n, u, x)
  PROVE  Books(l \o <<out, in>>, n)
<1>1. PICK m : m = AfterConsume(b, u, y, c)
  OBVIOUS
<1>2. b \in BalanceTypes /\ l \in Seq(EntryTypes)
  BY DEF Books
<1>3. /\ m \in BalanceTypes
      /\ \A v \in Users, z \in Assets :
           /\ m[v][z].available = b[v][z].available
           /\ m[v][z].frozen = b[v][z].frozen - (IF v = u /\ z = y THEN c ELSE 0)
  BY <1>1, <1>2, ConsumeMoves
<1>4. n = AfterDeposit(m, u, x, q)
  BY <1>1 DEF Side
<1>5. /\ n \in BalanceTypes
      /\ \A v \in Users, z \in Assets :
           /\ n[v][z].frozen = m[v][z].frozen
           /\ n[v][z].available = m[v][z].available + (IF v = u /\ z = x THEN q ELSE 0)
  <2>1. m \in BalanceTypes
    BY <1>3
  <2>2. /\ AfterDeposit(m, u, x, q) \in BalanceTypes
        /\ \A v \in Users, z \in Assets :
             /\ AfterDeposit(m, u, x, q)[v][z].frozen = m[v][z].frozen
             /\ AfterDeposit(m, u, x, q)[v][z].available =
                  m[v][z].available + (IF v = u /\ z = x THEN q ELSE 0)
    BY <2>1, DepositMoves
  <2> QED
    BY <1>4, <2>2
<1>6. \A v \in Users, z \in Assets :
        /\ b[v][z].available \in Int /\ b[v][z].frozen \in Int
        /\ m[v][z].available \in Int /\ m[v][z].frozen \in Int
  BY <1>2, <1>3 DEF BalanceTypes
<1>7. Follows(b, m, out)
  <2>1. PartsMoved(out).available = 0 /\ PartsMoved(out).frozen = -c
    BY DEF PartsMoved, HoldTypes
  <2> QED
    BY <1>3, <1>6, <2>1 DEF Follows
<1>8. Follows(m, n, in)
  <2>1. PartsMoved(in).available = q /\ PartsMoved(in).frozen = 0
    BY DEF PartsMoved, HoldTypes
  <2> QED
    BY <1>5, <1>6, <2>1 DEF Follows
<1>9. Total(m, u, y) = Total(n, u, y)
  BY <1>5, <1>6 DEF Total
<1>10. Books(Append(l, out), m)
  BY <1>3, <1>7, <1>9, EntryKeepsBooks
<1>11. Books(Append(Append(l, out), in), n)
  BY <1>5, <1>8, <1>10, EntryKeepsBooks
<1>12. l \o <<out, in>> = Append(Append(l, out), in)
  BY <1>2
<1> QED
  BY <1>11, <1>12

\* SettleTrade, the torn settlement included.
LEMMA SettleKeepsBooks ==
  ASSUME IInv, NEW t \in TradeIds, NEW buyer \in Users, NEW seller \in Users,
         NEW p \in TradePrices, NEW q \in Amounts, SettleTrade(t, buyer, seller, p, q)
  PROVE  IInv'
<1>1. PICK cost : cost = PriceQtyToQuote(p, q)
  OBVIOUS
<1>2. /\ p \in Int /\ q \in Nat \ {0} /\ BaseAsset \in Assets /\ QuoteAsset \in Assets
      /\ BaseAsset # QuoteAsset
  BY LedgerAssumption
<1>3. cost \in Nat
  BY <1>1, <1>2, QuoteNat
<1>4. Books(ledger, bal) /\ bal \in BalanceTypes /\ ledger \in Seq(EntryTypes)
  BY DEF IInv, Books
<1>5. DOMAIN settled' \subseteq TradeIds
  BY DEF SettleTrade, IInv
<1>6. PICK outcome : outcome = SettleOutcome(bal, buyer, seller, BaseAsset, QuoteAsset, q, cost)
  OBVIOUS
<1>7. /\ bal' = AfterSettle(bal, buyer, seller, BaseAsset, QuoteAsset, q, cost)
      /\ \/ outcome = "refused" /\ UNCHANGED ledger
         \/ outcome = "torn" /\ ledger' = ledger \o BuyerEntries(t, buyer, q, cost)
         \/ outcome = "done" /\ ledger' = ledger \o BuyerEntries(t, buyer, q, cost)
                                                 \o SellerEntries(t, seller, q, cost)
  BY <1>1, <1>6 DEF SettleTrade
<1>8. CASE outcome = "refused"
  <2>1. bal' = bal /\ ledger' = ledger
    BY <1>6, <1>7, <1>8 DEF AfterSettle
  <2> QED
    BY <1>4, <1>5, <2>1 DEF IInv
<1> DEFINE h == BuyerPaid(bal, buyer, BaseAsset, QuoteAsset, q, cost)
           n == SellerPaid(h, seller, BaseAsset, QuoteAsset, q, cost)
           out == Entry(buyer, QuoteAsset, -cost, "TRADE_OUT", t)
           in == Entry(buyer, BaseAsset, q, "TRADE_IN", t)
           sold == Entry(seller, BaseAsset, -q, "TRADE_OUT", t)
           paid == Entry(seller, QuoteAsset, cost, "TRADE_IN", t)
<1>9. ASSUME outcome # "refused"
      PROVE  /\ bal[buyer][QuoteAsset].frozen >= cost /\ buyer # seller
             /\ h \in BalanceTypes
             /\ \A v \in Users \ {buyer} : h[v] = bal[v]
  <2>1. bal[buyer][QuoteAsset].frozen >= cost /\ buyer # seller
    <3>1. ~(bal[buyer][QuoteAsset].frozen < cost) /\ buyer # seller
      BY <1>6, <1>9 DEF SettleOutcome, BuyerRefused
    <3>2. bal[buyer][QuoteAsset].frozen \in Int
      BY <1>2, <1>4 DEF BalanceTypes
    <3> QED
      BY <1>3, <3>1, <3>2
  <2>2. h = Side(bal, buyer, BaseAsset, QuoteAsset, cost, q)
    BY <1>2, Sides
  <2> HIDE DEF h
  <2> QED
    BY <1>2, <1>3, <1>4, <2>1, <2>2, SideTypes
<1>10. ASSUME NEW c \in BalanceTypes, bal' = c, NEW u \in Users, NEW a \in Assets,
              NEW amount \in Int, NEW type \in Types
       PROVE  LET e == Entry(u, a, amount, type, t) IN
              /\ e \in EntryTypes /\ e.user = u /\ e.asset = a /\ e.amount = amount
              /\ e.type = type /\ e.balance = Total(c, u, a)
  <2>1. Total(c, u, a) \in Int
    BY DEF Total, BalanceTypes
  <2> QED
    BY <1>10, <2>1 DEF Entry, EntryTypes
<1>11. {"TRADE_OUT", "TRADE_IN"} \subseteq Types /\ {cost, -cost, q, -q} \subseteq Int
  BY <1>2, <1>3 DEF Types
<1>12. /\ BuyerEntries(t, buyer, q, cost) = <<out, in>>
       /\ SellerEntries(t, seller, q, cost) = <<sold, paid>>
  BY DEF BuyerEntries, SellerEntries
<1> HIDE DEF out, in, sold, paid, h, n
<1>13. ASSUME outcome # "refused",
              NEW c \in BalanceTypes, bal' = c, c[buyer] = h[buyer]
       PROVE  Books(ledger \o <<out, in>>, h)
  <2>1. /\ out \in EntryTypes /\ out.user = buyer /\ out.asset = QuoteAsset
        /\ out.amount = -cost /\ out.type = "TRADE_OUT"
        /\ out.balance = Total(c, buyer, QuoteAsset)
    BY <1>2, <1>10, <1>11, <1>13 DEF out
  <2>2. /\ in \in EntryTypes /\ in.user = buyer /\ in.asset = BaseAsset
        /\ in.amount = q /\ in.type = "TRADE_IN"
        /\ in.balance = Total(c, buyer, BaseAsset)
    BY <1>2, <1>10, <1>11, <1>13 DEF in
  <2>3. \A a \in Assets : Total(c, buyer, a) = Total(h, buyer, a)
    BY <1>13 DEF Total
  <2>4. h = Side(bal, buyer, BaseAsset, QuoteAsset, cost, q)
    BY <1>2, Sides DEF h
  <2> QED
    BY <1>2, <1>3, <1>4, <1>9, <1>13, <2>1, <2>2, <2>3, <2>4, SideKeepsBooks
<1>14. CASE outcome = "torn"
  <2>1. bal' = h /\ h \in BalanceTypes
    BY <1>6, <1>7, <1>9, <1>14 DEF AfterSettle, h
  <2>2. Books(ledger \o <<out, in>>, h)
    BY <1>13, <1>14, <2>1
  <2> QED
    BY <1>5, <1>7, <1>12, <1>14, <2>1, <2>2 DEF IInv
<1>15. CASE outcome = "done"
  <2>1. bal' = n
    BY <1>6, <1>7, <1>15 DEF AfterSettle, h, n
  <2>2. h[seller][BaseAsset].frozen >= q
    <3>1. ~(bal[seller][BaseAsset].frozen < q)
      BY <1>6, <1>15 DEF SettleOutcome, SellerRefused
    <3>2. bal[seller][BaseAsset].frozen \in Int
      BY <1>2, <1>4 DEF BalanceTypes
    <3> QED
      BY <1>2, <1>9, <1>15, <3>1, <3>2
  <2>3. n = Side(h, seller, QuoteAsset, BaseAsset, q, cost)
    BY <1>2, Sides DEF n
  <2>4. n \in BalanceTypes /\ \A v \in Users \ {seller} : n[v] = h[v]
    BY <1>2, <1>3, <1>9, <1>15, <2>2, <2>3, SideTypes
  <2>5. Books(ledger \o <<out, in>>, h)
    BY <1>9, <1>13, <1>15, <2>1, <2>4
  <2>6. /\ sold \in EntryTypes /\ sold.user = seller /\ sold.asset = BaseAsset
        /\ sold.amount = -q /\ sold.type = "TRADE_OUT"
        /\ sold.balance = Total(n, seller, BaseAsset)
    BY <1>2, <1>10, <1>11, <2>1, <2>4 DEF sold
  <2>7. /\ paid \in EntryTypes /\ paid.user = seller /\ paid.asset = QuoteAsset
        /\ paid.amount = cost /\ paid.type = "TRADE_IN"
        /\ paid.balance = Total(n, seller, QuoteAsset)
    BY <1>2, <1>10, <1>11, <2>1, <2>4 DEF paid
  <2>8. Books((ledger \o <<out, in>>) \o <<sold, paid>>, n)
    BY <1>2, <1>3, <2>2, <2>3, <2>5, <2>6, <2>7, SideKeepsBooks
  <2>9. ledger' = (ledger \o <<out, in>>) \o <<sold, paid>>
    BY <1>7, <1>12, <1>15
  <2> QED
    BY <1>5, <2>1, <2>8, <2>9 DEF IInv
<1> QED
  BY <1>7, <1>8, <1>14, <1>15

\* Before the first call the books are empty and sound.
LEMMA LedgerInit == Init => IInv
<1> SUFFICES ASSUME Init PROVE IInv
  OBVIOUS
<1>1. ledger = <<>> /\ ledger \in Seq(EntryTypes) /\ DOMAIN ledger = {} /\ Len(ledger) = 0
  BY DEF Init
<1>2. bal \in BalanceTypes /\ \A u \in Users, a \in Assets :
        bal[u][a].available = 0 /\ bal[u][a].frozen = 0
  BY DEF Init, NoFunds, BalanceTypes
<1>3. \A u, a : Of(ledger, u, a) = {}
  BY <1>1 DEF Of
<1>4. \A u, a, types : Booked(ledger, u, a, types) = 0
  BY <1>3, SumEmpty DEF Booked
<1>5. \A j, u, a : Noted(ledger, j, u, a) = 0
  BY <1>3 DEF Noted
<1>6. Chained(ledger)
  BY <1>1 DEF Chained
<1>7. NotedTotals(ledger, bal)
  BY <1>2, <1>5 DEF NotedTotals, Total
<1>8. Balanced(ledger, bal)
  BY <1>2, <1>4 DEF Balanced
<1>9. DOMAIN settled \subseteq TradeIds
  BY DEF Init
<1> QED
  BY <1>1, <1>2, <1>6, <1>7, <1>8, <1>9 DEF IInv, Books

\* The books stay sound: every entry is written with the change it stands for,
\* and notes the total of its account after it.
THEOREM LedgerInvariance == Spec => []IInv
<1>1. IInv /\ [Next]_vars => IInv'
  <2> SUFFICES ASSUME IInv, [Next]_vars PROVE IInv'
    OBVIOUS
  <2>1. ASSUME NEW u \in Users, NEW a \in Assets, NEW q \in Amounts,
               Deposit(u, a, q) \/ Freeze(u, a, q) \/ Unfreeze(u, a, q) \/ ConsumeFrozen(u, a, q)
        PROVE  IInv'
    BY <2>1, CallKeepsBooks
  <2>2. ASSUME NEW t \in TradeIds, NEW buyer \in Users, NEW seller \in Users,
               NEW p \in TradePrices, NEW q \in Amounts, SettleTrade(t, buyer, seller, p, q)
        PROVE  IInv'
    BY <2>2, SettleKeepsBooks
  <2>3. CASE UNCHANGED vars
    BY <2>3 DEF vars, IInv
  <2> QED
    BY <2>1, <2>2, <2>3 DEF Next
<1> QED
  BY <1>1, LedgerInit, PTL DEF Spec

\* No balance is ever negative, a torn settlement or not.
THEOREM LedgerTypeCorrect == Spec => []TypeOK
<1>1. IInv => TypeOK
  BY DEF IInv, Books, TypeOK
<1> QED
  BY <1>1, LedgerInvariance, PTL

\* However calls follow each other, and even where a settlement stops half-way,
\* both parts of every balance are the sums of the entries of their types.
THEOREM ReconcilesSafe == Spec => []Reconciles
<1>1. IInv => Reconciles
  BY DEF IInv, Books, Balanced, Reconciles
<1> QED
  BY <1>1, LedgerInvariance, PTL

\* The balances noted in the entries of an account follow from each other,
\* though SettleTrade notes them after the changes of both sides.
THEOREM EntriesChainSafe == Spec => []EntriesChain
<1>1. IInv => EntriesChain
  BY DEF IInv, Books, Chained, Moved, EntriesChain
<1> QED
  BY <1>1, LedgerInvariance, PTL

------------------------------------------------------------------------------
(***************************************************************************)
(* One WebSocket connection                                                *)
(***************************************************************************)

\* Who is closing the client: a goroutine that has closed the channel goes on
\* to take the client from the hub, and none ends before the channel is closed.
WsClosing ==
  /\ pc.reader = "none" <=> pc.writer = "none"
  /\ pc.reader = "none" => ~closed /\ ~registered /\ ~conn
  /\ pc.reader \in {"unregister", "done", "panic"} => closed
  /\ pc.writer \in {"unregister", "hangup", "done", "panic"} => closed
  /\ closed => ~registered \/ pc.reader = "unregister" \/ pc.writer = "unregister"
  /\ pc.writer = "done" => ~conn

\* As long as the other end is up, both loops run.
WsServing ==
  peer = "up" /\ pc.reader # "none" =>
    /\ pc.reader = "read" /\ pc.writer \in {"select", "write"}
    /\ conn /\ registered /\ ~closed

\* The reader's deadline, by what happens before it is moved: the ticker fires,
\* the ping is sent, the answer comes.
WsInTime ==
  peer = "up" =>
    IF answer # NoAnswer THEN deadline + AnswerTime - answer >= PongWait - PingPeriod
    ELSE IF due THEN deadline >= PongWait - PingPeriod
    ELSE deadline >= PongWait - PingPeriod + pingTicker

\* The states of a connection have their types.
LEMMA WsTypes == ClientSpec => []ClientTypeOK
<1> USE ClientAssumption DEF ClientParameters
<1>1. ClientInit => ClientTypeOK
  <2> SUFFICES ASSUME ClientInit PROVE ClientTypeOK
    OBVIOUS
  <2>1. {conn, closed, registered, due} \subseteq BOOLEAN
    BY DEF ClientInit
  <2>2. /\ 0 \in 0 .. SendCapacity /\ PongWait \in 0 .. PongWait /\ PingPeriod \in 1 .. PingPeriod
        /\ WriteWait \in 0 .. WriteWait /\ NoAnswer \in 0 .. NoAnswer
    BY DEF NoAnswer
  <2> QED
    BY <2>1, <2>2 DEF ClientInit, ClientTypeOK
<1>2. ClientTypeOK /\ [ClientNext]_clientVars => ClientTypeOK'
  <2> SUFFICES ASSUME ClientTypeOK, [ClientNext]_clientVars PROVE ClientTypeOK'
    OBVIOUS
  <2> USE DEF ClientTypeOK
  <2>1. CASE ServeWS \/ HubSends \/ Reply
    <3>1. CASE ServeWS
      <4>1. {conn', closed', registered', due'} \subseteq BOOLEAN
        BY <3>1 DEF ServeWS, times
      <4> QED
        BY <3>1, <4>1 DEF ServeWS, times
    <3>2. CASE Enqueue
      BY <3>2 DEF Enqueue, times
    <3> QED
      BY <2>1, <3>1, <3>2 DEF HubSends, Reply
  <2>2. CASE Pong \/ Leave
    BY <2>2 DEF Pong, Leave, link, times, NoAnswer
  <2>3. CASE Reader
    BY <2>3 DEF Reader, ReadFails, HangUp, Close, Goto, link, times
  <2>4. CASE Select
    <3>1. CASE SeesClosed \/ TakeMessage
      BY <2>4, <3>1 DEF SeesClosed, TakeMessage, Goto, link, times
    <3>2. CASE TakePing
      <4>1. {conn', closed', registered', due'} \subseteq BOOLEAN
        BY <3>2 DEF TakePing, link
      <4>2. answer' \in 0 .. NoAnswer /\ patience' \in 0 .. WriteWait
        BY <3>2 DEF TakePing, NoAnswer
      <4> QED
        BY <3>2, <4>1, <4>2 DEF TakePing, Goto, link
    <3> QED
      BY <2>4, <3>1, <3>2 DEF Select
  <2>5. CASE Writer
    BY <2>5 DEF Writer, WriteDone, WriteFails, HangUp, Close, Goto,
                link, times
  <2>6. CASE TimePasses
    BY <2>6 DEF TimePasses, Less, NoAnswer, link
  <2>7. CASE UNCHANGED clientVars
    BY <2>7 DEF clientVars, link, times
  <2> QED
    BY <2>1, <2>2, <2>3, <2>4, <2>5, <2>6, <2>7 DEF ClientNext, Hub, Client
<1> QED
  BY <1>1, <1>2, PTL DEF ClientSpec

\* The order in which a client is closed, from whichever side.
LEMMA WsCloses == ClientSpec => []WsClosing
<1>1. ClientInit => WsClosing
  BY DEF ClientInit, WsClosing
<1>2. ClientTypeOK /\ WsClosing /\ [ClientNext]_clientVars => WsClosing'
  <2> SUFFICES ASSUME ClientTypeOK, WsClosing, [ClientNext]_clientVars PROVE WsClosing'
    OBVIOUS
  <2> USE DEF WsClosing, ClientTypeOK
  <2>1. CASE ServeWS \/ HubSends \/ Reply
    BY <2>1 DEF ServeWS, HubSends, Reply, Enqueue, times
  <2>2. CASE Pong \/ Leave
    BY <2>2 DEF Pong, Leave, link, times
  <2>3. CASE Reader
    BY <2>3 DEF Reader, ReadFails, HangUp, Close, Goto, link, times
  <2>4. CASE Select
    BY <2>4 DEF Select, SeesClosed, TakeMessage, TakePing, Goto, link,
                times
  <2>5. CASE Writer
    BY <2>5 DEF Writer, WriteDone, WriteFails, HangUp, Close, Goto,
                link, times
  <2>6. CASE TimePasses
    BY <2>6 DEF TimePasses, link
  <2>7. CASE UNCHANGED clientVars
    BY <2>7 DEF clientVars, link, times
  <2> QED
    BY <2>1, <2>2, <2>3, <2>4, <2>5, <2>6, <2>7 DEF ClientNext, Hub, Client
<1> QED
  BY <1>1, <1>2, WsTypes, PTL DEF ClientSpec

\* When both goroutines have ended, the hub has let go of the client and the
\* connection is closed, whoever closed what first: even when the test of
\* Close fails to keep one of them from a panic.
THEOREM NoLeakSafe == ClientSpec => []NoLeak
<1>1. WsClosing => NoLeak
  BY DEF WsClosing, NoLeak
<1> QED
  BY <1>1, WsCloses, PTL

\* A client that answers every ping in time is never dropped, whatever its queue
\* holds, if a ping and its answer together take less than the reader's
\* deadline: 30 s and the answer, of 60 s.
THEOREM AliveStaysSafe ==
  ASSUME PingPeriod + AnswerTime < PongWait
  PROVE  ClientSpec => []AliveStays
<1> USE ClientAssumption DEF ClientParameters
<1>1. ClientInit => WsServing /\ WsInTime
  BY DEF ClientInit, WsServing, WsInTime
<1>2. ClientTypeOK /\ WsClosing /\ WsServing /\ WsInTime /\ [ClientNext]_clientVars
        => WsServing' /\ WsInTime'
  <2> SUFFICES ASSUME ClientTypeOK, WsClosing, WsServing, WsInTime, [ClientNext]_clientVars
               PROVE  WsServing' /\ WsInTime'
    OBVIOUS
  <2> USE DEF WsServing, WsInTime, NoAnswer
  <2>1. /\ {PingPeriod, PongWait, AnswerTime, deadline, pingTicker, answer} \subseteq Int
        /\ 1 <= pingTicker /\ pingTicker <= PingPeriod /\ answer <= NoAnswer
        /\ pc \in [reader: {"none", "read", "hangup", "test", "close", "unregister", "done", "panic"},
                    writer: {"none", "select", "write", "test", "close", "unregister", "hangup",
                             "done", "panic"}]
    BY DEF ClientTypeOK
  <2>2. peer = "up" => deadline > 0
    BY <2>1 DEF ClientTypeOK
  <2>3. CASE ServeWS \/ HubSends \/ Reply
    BY <2>1, <2>3 DEF ServeWS, HubSends, Reply, Enqueue, times, WsClosing
  <2>4. CASE Pong \/ Leave
    BY <2>1, <2>4 DEF Pong, Leave, link, times
  <2>5. CASE Reader
    BY <2>1, <2>2, <2>5 DEF Reader, ReadFails, Unreadable, HangUp, Close,
                            Goto, link, times, WsClosing
  <2>6. CASE Select
    BY <2>1, <2>6 DEF Select, SeesClosed, TakeMessage, TakePing, Goto, link,
                      times, WsClosing
  <2>7. CASE Writer
    BY <2>1, <2>7 DEF Writer, WriteDone, WriteFails, Unwritable, HangUp,
                      Close, Goto, link, times, WsClosing
  <2>8. CASE TimePasses
    <3>1. UNCHANGED <<peer, conn, closed, registered, pc>>
      BY <2>8 DEF TimePasses, link
    <3>2. CASE peer # "up"
      BY <3>1, <3>2
    <3>3. CASE peer = "up"
      <4>1. pc.reader # "none" /\ ~due /\ answer > 0
        BY <2>8, <3>3 DEF TimePasses, Settled
      <4>2. deadline' = deadline - 1
        BY <2>1, <2>2, <2>8, <3>3 DEF TimePasses, Less
      <4>3. /\ answer = NoAnswer => answer' = NoAnswer
            /\ answer # NoAnswer => answer' = answer - 1 /\ answer' # NoAnswer
        BY <2>1, <2>8, <4>1 DEF TimePasses, Less
      <4>4. /\ pingTicker = 1 => due'
            /\ pingTicker # 1 => pingTicker' = pingTicker - 1 /\ ~due'
        <5>1. pc.writer # "done"
          BY <3>3, <4>1
        <5>2. due' <=> due \/ (pingTicker = 1 /\ pc.writer # "done")
          BY <2>8 DEF TimePasses
        <5> QED
          BY <2>8, <4>1, <5>1, <5>2 DEF TimePasses
      <4>5. WsServing'
        BY <3>1
      <4>6. WsInTime'
        <5>1. CASE answer # NoAnswer
          BY <2>1, <3>3, <4>2, <4>3, <5>1
        <5>2. CASE answer = NoAnswer /\ pingTicker = 1
          BY <2>1, <3>3, <4>1, <4>2, <4>3, <4>4, <5>2
        <5>3. CASE answer = NoAnswer /\ pingTicker # 1
          BY <2>1, <3>3, <4>1, <4>2, <4>3, <4>4, <5>3
        <5> QED
          BY <5>1, <5>2, <5>3
      <4> QED
        BY <4>5, <4>6
    <3> QED
      BY <3>2, <3>3
  <2>9. CASE UNCHANGED clientVars
    BY <2>9 DEF clientVars, link, times
  <2> QED
    BY <2>3, <2>4, <2>5, <2>6, <2>7, <2>8, <2>9 DEF ClientNext, Hub, Client
<1>3. WsServing => AliveStays
  BY DEF WsServing, AliveStays
<1> QED
  BY <1>1, <1>2, <1>3, WsTypes, WsCloses, PTL DEF ClientSpec

------------------------------------------------------------------------------
(***************************************************************************)
(* The feed of trades and depth                                            *)
(***************************************************************************)

Messages == [channel: Channels, n: Nat]

\* Where messages of a channel are in a queue.
At(q, ch) == {i \in DOMAIN q : q[i].channel = ch}

\* No message of the channel, the one shown included, is beyond k.
Upto(q, s, ch, k) == s <= k /\ \A i \in At(q, ch) : q[i].n <= k

\* Each is beyond the one before, or at least not behind it.
Rising(q, s, ch) ==
  \A i \in At(q, ch) :
    s < q[i].n /\ \A j \in At(q, ch) : i < j => q[i].n < q[j].n
Growing(q, s, ch) ==
  \A i \in At(q, ch) :
    s <= q[i].n /\ \A j \in At(q, ch) : i < j => q[i].n <= q[j].n

\* A message that comes last, beyond all others of its channel, keeps the order.
LEMMA QueuedLast ==
  ASSUME NEW q \in Seq(Messages), NEW m \in Messages, NEW s \in Nat, NEW ch, NEW k \in Nat,
         Upto(q, s, ch, k)
  PROVE  /\ k < m.n /\ Rising(q, s, ch) => Rising(Append(q, m), s, ch)
         /\ k <= m.n /\ Growing(q, s, ch) => Growing(Append(q, m), s, ch)
         /\ k <= m.n => Upto(Append(q, m), s, ch, m.n)
<1> DEFINE r == Append(q, m)
           l == Len(q)
<1>1. /\ l \in Nat /\ DOMAIN q = 1 .. l /\ DOMAIN r = 1 .. l + 1
      /\ \A i \in 1 .. l : r[i] = q[i] /\ q[i].n \in Nat
      /\ r[l + 1] = m /\ m.n \in Nat
  <2>1. /\ l \in Nat /\ DOMAIN q = 1 .. l /\ DOMAIN r = 1 .. l + 1
        /\ \A i \in 1 .. l : r[i] = q[i] /\ q[i] \in Messages
        /\ r[l + 1] = m
    OBVIOUS
  <2> QED
    BY <2>1 DEF Messages
<1>2. /\ At(q, ch) \subseteq 1 .. l
      /\ At(r, ch) \subseteq At(q, ch) \cup {l + 1}
  BY <1>1 DEF At
<1> HIDE DEF r, l
<1>3. \A i \in At(q, ch) : q[i].n <= k /\ r[i] = q[i] /\ q[i].n \in Nat /\ i < l + 1 /\ i \in Nat
  BY <1>1, <1>2 DEF Upto
<1>4. s <= k
  BY DEF Upto
<1>5. ASSUME k < m.n, Rising(q, s, ch) PROVE Rising(r, s, ch)
  BY <1>1, <1>2, <1>3, <1>4, <1>5 DEF Rising
<1>6. ASSUME k <= m.n, Growing(q, s, ch) PROVE Growing(r, s, ch)
  BY <1>1, <1>2, <1>3, <1>4, <1>6 DEF Growing
<1>7. ASSUME k <= m.n PROVE Upto(r, s, ch, m.n)
  BY <1>1, <1>2, <1>3, <1>4, <1>7 DEF Upto
<1> QED
  BY <1>5, <1>6, <1>7 DEF r

\* A message of another channel does not matter.
LEMMA QueuedAside ==
  ASSUME NEW q \in Seq(Messages), NEW m \in Messages, NEW s \in Nat, NEW ch, m.channel # ch
  PROVE  /\ Rising(q, s, ch) => Rising(Append(q, m), s, ch)
         /\ Growing(q, s, ch) => Growing(Append(q, m), s, ch)
         /\ \A k : Upto(q, s, ch, k) => Upto(Append(q, m), s, ch, k)
<1> DEFINE r == Append(q, m)
<1>1. At(r, ch) = At(q, ch) /\ \A i \in At(q, ch) : r[i] = q[i]
  BY DEF At
<1> HIDE DEF r
<1>2. Rising(q, s, ch) => Rising(r, s, ch)
  BY <1>1 DEF Rising
<1>3. Growing(q, s, ch) => Growing(r, s, ch)
  BY <1>1 DEF Growing
<1>4. \A k : Upto(q, s, ch, k) => Upto(r, s, ch, k)
  BY <1>1 DEF Upto
<1> QED
  BY <1>2, <1>3, <1>4 DEF r

\* The first message is written: what it showed is what the others come after.
LEMMA WrittenFirst ==
  ASSUME NEW q \in Seq(Messages), q # <<>>, NEW s \in Nat, NEW ch,
         NEW t, t = IF Head(q).channel = ch THEN Head(q).n ELSE s
  PROVE  /\ Rising(q, s, ch) => Rising(Tail(q), t, ch)
         /\ Growing(q, s, ch) => Growing(Tail(q), t, ch)
         /\ \A k : Upto(q, s, ch, k) => Upto(Tail(q), t, ch, k)
<1> DEFINE r == Tail(q)
<1>1. /\ Len(q) \in Nat \ {0} /\ DOMAIN q = 1 .. Len(q) /\ DOMAIN r = 1 .. Len(q) - 1
      /\ \A i \in DOMAIN r : r[i] = q[i + 1] /\ i + 1 \in DOMAIN q
      /\ Head(q) = q[1] /\ 1 \in DOMAIN q
  OBVIOUS
<1>2. \A i \in At(r, ch) : i \in Int /\ i + 1 \in At(q, ch) /\ r[i] = q[i + 1] /\ 1 < i + 1
  BY <1>1 DEF At
<1>3. (t = q[1].n /\ 1 \in At(q, ch)) \/ t = s
  BY <1>1 DEF At
<1> HIDE DEF r
<1>4. ASSUME Rising(q, s, ch) PROVE Rising(r, t, ch)
  BY <1>2, <1>3, <1>4 DEF Rising
<1>5. ASSUME Growing(q, s, ch) PROVE Growing(r, t, ch)
  BY <1>2, <1>3, <1>5 DEF Growing
<1>6. ASSUME NEW k, Upto(q, s, ch, k) PROVE Upto(r, t, ch, k)
  BY <1>2, <1>3, <1>6 DEF Upto
<1> QED
  BY <1>4, <1>5, <1>6 DEF r

FeedTypes ==
  /\ now \in Nat /\ book \in Nat /\ seq \in Nat
  /\ pushedAt \in Seq(Nat) /\ (pushedAt # <<>> => pushedAt[1] <= now)
  /\ push \in [Pushes -> [at: {"none", "fetch", "publish"}, depth: Nat]]
  /\ \A p \in Pushes : push[p].depth <= book
  /\ queue \in [Clients -> Seq(Messages)]
  /\ shown \in [Clients -> [Channels -> Nat]]

\* No client has, or will get, a trade or a book from the future.
NothingAhead ==
  \A c \in Clients :
    /\ Upto(queue[c], shown[c]["trade"], "trade", seq)
    /\ Upto(queue[c], shown[c]["depth"], "depth", book)

TradesRise == \A c \in Clients : Rising(queue[c], shown[c]["trade"], "trade")

\* As long as no push is late there is one at a time, younger than Window, and
\* nobody has a later book than the one it is about to publish.
OnePush ==
  ~late =>
    /\ \A p \in Pushes : Running(p) => pushedAt # <<>> /\ now - pushedAt[1] < Window
    /\ \A p, r \in Pushes : Running(p) /\ Running(r) => p = r
    /\ \A p \in Pushes : push[p].at = "publish" =>
         \A c \in Clients : Upto(queue[c], shown[c]["depth"], "depth", push[p].depth)
    /\ \A c \in Clients : Growing(queue[c], shown[c]["depth"], "depth")

FeedInv == FeedTypes /\ NothingAhead /\ TradesRise /\ OnePush

\* What holds up to k holds up to anything beyond.
LEMMA UptoMore ==
  ASSUME NEW q \in Seq(Messages), NEW s \in Nat, NEW ch, NEW k \in Nat, NEW m \in Nat, k <= m,
         Upto(q, s, ch, k)
  PROVE  Upto(q, s, ch, m)
<1>1. \A i \in At(q, ch) : q[i].n \in Nat
  <2>1. \A i \in DOMAIN q : q[i] \in Messages
    OBVIOUS
  <2> QED
    BY <2>1 DEF At, Messages
<1> QED
  BY <1>1 DEF Upto

\* A published message comes last in a queue, or is missed.
LEMMA Published ==
  ASSUME FeedTypes, NEW ch \in Channels, NEW n \in Nat, Publish(ch, n)
  PROVE  /\ queue' \in [Clients -> Seq(Messages)]
         /\ [channel |-> ch, n |-> n] \in Messages
         /\ \A c \in Clients :
              queue'[c] = queue[c] \/ queue'[c] = Append(queue[c], [channel |-> ch, n |-> n])
<1>1. [channel |-> ch, n |-> n] \in Messages
  BY DEF Messages
<1>2. \A c \in Clients :
        queue'[c] = queue[c] \/ queue'[c] = Append(queue[c], [channel |-> ch, n |-> n])
  BY DEF Publish
<1>3. \A c \in Clients : queue'[c] \in Seq(Messages)
  <2>1. \A c \in Clients : queue[c] \in Seq(Messages)
    BY DEF FeedTypes
  <2>2. \A q \in Seq(Messages), m \in Messages : Append(q, m) \in Seq(Messages)
    OBVIOUS
  <2> QED
    BY <1>1, <1>2, <2>1, <2>2
<1>4. queue' \in [Clients -> Seq(Messages)]
  BY <1>3 DEF Publish
<1> QED
  BY <1>1, <1>2, <1>4

\* A step that neither publishes nor writes, and starts no push.
LEMMA FeedQuiet ==
  ASSUME FeedInv, UNCHANGED <<seq, push, queue, shown, pushedAt>>,
         book' \in Nat, book' >= book, now' \in Nat, now' >= now,
         ~late' => /\ ~late
                   /\ \A p \in Pushes : Running(p) /\ pushedAt # <<>> => now' - pushedAt[1] < Window
  PROVE  FeedInv'
<1> USE DEF FeedInv
<1>1. FeedTypes'
  <2>1. pushedAt' # <<>> => pushedAt'[1] <= now'
    BY DEF FeedTypes
  <2>2. \A p \in Pushes : push'[p].depth <= book'
    BY DEF FeedTypes
  <2> QED
    BY <2>1, <2>2 DEF FeedTypes
<1>2. NothingAhead'
  <2>1. SUFFICES ASSUME NEW c \in Clients
                 PROVE  Upto(queue[c], shown[c]["trade"], "trade", seq)
                        /\ Upto(queue[c], shown[c]["depth"], "depth", book')
    BY DEF NothingAhead
  <2>2. queue[c] \in Seq(Messages) /\ shown[c]["depth"] \in Nat /\ book \in Nat
    BY DEF FeedTypes, Channels
  <2> QED
    BY <2>2, UptoMore DEF NothingAhead
<1>3. TradesRise'
  BY DEF TradesRise
<1>4. OnePush'
  BY DEF OnePush, Running
<1> QED
  BY <1>1, <1>2, <1>3, <1>4

\* A trade is numbered, and published before the next one.
LEMMA FeedTrade ==
  ASSUME FeedInv, Trade
  PROVE  FeedInv'
<1> USE DEF FeedInv
<1>1. /\ seq' = seq + 1 /\ Publish("trade", seq') /\ seq \in Nat /\ seq' \in Nat
      /\ book' = book + 1 /\ UNCHANGED <<now, pushedAt, push, shown, late>>
      /\ "trade" \in Channels /\ "depth" \in Channels
  BY DEF Trade, Changes, FeedTypes, Channels
<1> DEFINE m == [channel |-> "trade", n |-> seq + 1]
<1>2. /\ queue' \in [Clients -> Seq(Messages)] /\ m \in Messages
      /\ \A c \in Clients : queue'[c] = queue[c] \/ queue'[c] = Append(queue[c], m)
  BY <1>1, Published
<1>3. m.n = seq + 1 /\ m.channel = "trade"
  OBVIOUS
<1> HIDE DEF m
<1>4. FeedTypes'
  BY <1>1, <1>2 DEF FeedTypes
<1>5. ASSUME NEW c \in Clients
      PROVE  /\ queue[c] \in Seq(Messages)
             /\ shown[c]["trade"] \in Nat /\ shown[c]["depth"] \in Nat
             /\ Upto(queue[c], shown[c]["trade"], "trade", seq)
             /\ Upto(queue[c], shown[c]["depth"], "depth", book)
             /\ Rising(queue[c], shown[c]["trade"], "trade")
             /\ book \in Nat
  BY <1>1 DEF FeedTypes, NothingAhead, TradesRise
<1>6. ASSUME NEW c \in Clients
      PROVE  /\ Upto(queue'[c], shown[c]["trade"], "trade", seq + 1)
             /\ Rising(queue'[c], shown[c]["trade"], "trade")
  <2>1. CASE queue'[c] = queue[c]
    BY <1>1, <1>5, <2>1, UptoMore
  <2>2. CASE queue'[c] = Append(queue[c], m)
    BY <1>1, <1>2, <1>3, <1>5, <2>2, QueuedLast
  <2> QED
    BY <1>2, <2>1, <2>2
<1>7. ASSUME NEW c \in Clients
      PROVE  /\ Growing(queue[c], shown[c]["depth"], "depth") =>
                   Growing(queue'[c], shown[c]["depth"], "depth")
             /\ \A k : Upto(queue[c], shown[c]["depth"], "depth", k) =>
                   Upto(queue'[c], shown[c]["depth"], "depth", k)
  <2>1. CASE queue'[c] = Append(queue[c], m)
    BY <1>2, <1>3, <1>5, <2>1, QueuedAside
  <2> QED
    BY <1>2, <2>1
<1>8. NothingAhead'
  <2>1. ASSUME NEW c \in Clients PROVE Upto(queue'[c], shown[c]["depth"], "depth", book + 1)
    <3>1. Upto(queue'[c], shown[c]["depth"], "depth", book)
      BY <1>5, <1>7
    <3>2. queue'[c] \in Seq(Messages) /\ book \in Nat /\ book + 1 \in Nat /\ book <= book + 1
      BY <1>2, <1>5
    <3> QED
      BY <1>5, <3>1, <3>2, UptoMore
  <2> QED
    BY <1>1, <1>6, <2>1 DEF NothingAhead
<1>9. TradesRise'
  BY <1>1, <1>6 DEF TradesRise
<1>10. OnePush'
  BY <1>1, <1>7 DEF OnePush, Running
<1> QED
  BY <1>4, <1>8, <1>9, <1>10

\* The push that runs publishes what nobody is ahead of.
LEMMA FeedPublish ==
  ASSUME FeedInv, NEW p \in Pushes, PublishDepth(p)
  PROVE  FeedInv'
<1> USE DEF FeedInv
<1> DEFINE d == push[p].depth
           m == [channel |-> "depth", n |-> d]
<1>1. /\ push[p].at = "publish" /\ Publish("depth", d) /\ d \in Nat /\ d <= book
      /\ push' = [push EXCEPT ![p].at = "none"]
      /\ UNCHANGED <<now, pushedAt, book, seq, shown, late>>
      /\ "trade" \in Channels /\ "depth" \in Channels
  BY DEF PublishDepth, FeedTypes, Channels
<1>2. /\ queue' \in [Clients -> Seq(Messages)] /\ m \in Messages
      /\ \A c \in Clients : queue'[c] = queue[c] \/ queue'[c] = Append(queue[c], m)
  BY <1>1, Published
<1>3. m.n = d /\ m.channel = "depth"
  OBVIOUS
<1> HIDE DEF m, d
<1>4. FeedTypes'
  <2>1. /\ push' \in [Pushes -> [at: {"none", "fetch", "publish"}, depth: Nat]]
        /\ \A r \in Pushes : push'[r].depth <= book
    BY <1>1 DEF FeedTypes
  <2> QED
    BY <1>1, <1>2, <2>1 DEF FeedTypes
<1>5. ASSUME NEW c \in Clients
      PROVE  /\ queue[c] \in Seq(Messages) /\ queue'[c] \in Seq(Messages)
             /\ shown[c]["trade"] \in Nat /\ shown[c]["depth"] \in Nat
             /\ Upto(queue[c], shown[c]["trade"], "trade", seq)
             /\ Upto(queue[c], shown[c]["depth"], "depth", book)
             /\ Rising(queue[c], shown[c]["trade"], "trade")
             /\ book \in Nat
  BY <1>1, <1>2 DEF FeedTypes, NothingAhead, TradesRise
<1>6. ASSUME NEW c \in Clients
      PROVE  /\ Upto(queue'[c], shown[c]["trade"], "trade", seq)
             /\ Rising(queue'[c], shown[c]["trade"], "trade")
  <2>1. CASE queue'[c] = Append(queue[c], m)
    BY <1>2, <1>3, <1>5, <2>1, QueuedAside
  <2> QED
    BY <1>2, <1>5, <2>1
<1>7. ASSUME NEW c \in Clients, ~late
      PROVE  Growing(queue'[c], shown[c]["depth"], "depth")
  <2>1. /\ Upto(queue[c], shown[c]["depth"], "depth", d)
        /\ Growing(queue[c], shown[c]["depth"], "depth")
    BY <1>1, <1>7 DEF OnePush, d
  <2>2. CASE queue'[c] = Append(queue[c], m)
    BY <1>1, <1>2, <1>3, <1>5, <2>1, <2>2, QueuedLast
  <2> QED
    BY <1>2, <2>1, <2>2
<1>8. ASSUME NEW c \in Clients PROVE Upto(queue'[c], shown[c]["depth"], "depth", book)
  <2>1. CASE queue'[c] = Append(queue[c], m)
    <3>1. /\ shown[c]["depth"] <= book
          /\ \A i \in At(queue[c], "depth") : queue[c][i].n <= book
      BY <1>5 DEF Upto
    <3>2. \A i \in At(queue'[c], "depth") :
            \/ i \in At(queue[c], "depth") /\ queue'[c][i] = queue[c][i]
            \/ queue'[c][i] = m
      BY <1>2, <1>5, <2>1 DEF At
    <3> QED
      BY <1>1, <1>3, <3>1, <3>2 DEF Upto
  <2> QED
    BY <1>2, <1>5, <2>1
<1>9. NothingAhead' /\ TradesRise'
  BY <1>1, <1>6, <1>8 DEF NothingAhead, TradesRise
<1>10. OnePush'
  <2>1. SUFFICES ASSUME ~late PROVE OnePush'
    BY <1>1 DEF OnePush
  <2>2. \A r \in Pushes : Running(r)' => Running(r) /\ r # p
    BY <1>1 DEF Running, FeedTypes
  <2>3. Running(p)
    BY <1>1 DEF Running
  <2>4. \A r \in Pushes : ~Running(r)'
    BY <2>1, <2>2, <2>3 DEF OnePush
  <2>5. \A r \in Pushes : push'[r].at # "publish"
    BY <2>4 DEF Running
  <2> QED
    BY <1>1, <1>7, <2>1, <2>4, <2>5 DEF OnePush
<1> QED
  BY <1>4, <1>9, <1>10

\* A push is started when the one before it would be late.
LEMMA FeedStart ==
  ASSUME FeedInv, OnDepthChanged, ~Throttled, NEW p \in Pushes, Start(p),
         pushedAt' = <<now>>
  PROVE  FeedInv'
<1> USE DEF FeedInv
<1>1. /\ push[p].at = "none" /\ push' = [push EXCEPT ![p].at = "fetch"]
      /\ UNCHANGED <<now, book, seq, queue, shown, late>>
  BY DEF OnDepthChanged, Start, Running
<1>2. now \in Nat /\ push \in [Pushes -> [at: {"none", "fetch", "publish"}, depth: Nat]]
  BY DEF FeedTypes
<1>3. FeedTypes'
  <2>1. /\ push' \in [Pushes -> [at: {"none", "fetch", "publish"}, depth: Nat]]
        /\ \A r \in Pushes : push'[r].depth <= book
    BY <1>1 DEF FeedTypes
  <2>2. pushedAt' \in Seq(Nat) /\ pushedAt'[1] <= now
    BY <1>2
  <2> QED
    BY <1>1, <2>1, <2>2 DEF FeedTypes
<1>4. NothingAhead' /\ TradesRise'
  BY <1>1 DEF NothingAhead, TradesRise
<1>5. OnePush'
  <2>1. SUFFICES ASSUME ~late PROVE OnePush'
    BY <1>1 DEF OnePush
  <2>2. \A r \in Pushes : ~Running(r)
    BY <2>1 DEF OnePush, Throttled
  <2>3. \A r \in Pushes : push[r].at = "none"
    BY <2>2 DEF Running
  <2>4. \A r \in Pushes : push'[r].at = IF r = p THEN "fetch" ELSE "none"
    BY <1>1, <1>2, <2>3
  <2>5. pushedAt' # <<>> /\ now' - pushedAt'[1] = 0
    BY <1>1, <1>2
  <2>6. \A c \in Clients : Growing(queue[c], shown[c]["depth"], "depth")
    BY <2>1 DEF OnePush
  <2>7. 0 < Window
    BY FeedAssumption DEF FeedParameters
  <2>8. \A r \in Pushes : (Running(r)' => r = p) /\ push'[r].at # "publish"
    BY <2>4 DEF Running
  <2> QED
    BY <1>1, <2>5, <2>6, <2>7, <2>8 DEF OnePush
<1> QED
  BY <1>3, <1>4, <1>5

\* A push that fetches the book has what nobody is ahead of.
LEMMA FeedFetch ==
  ASSUME FeedInv, NEW p \in Pushes, Fetch(p)
  PROVE  FeedInv'
<1> USE DEF FeedInv
<1>1. /\ push[p].at = "fetch" /\ push' = [push EXCEPT ![p] = [at |-> "publish", depth |-> book]]
      /\ UNCHANGED <<now, pushedAt, book, seq, queue, shown, late>>
  BY DEF Fetch
<1>2. /\ book \in Nat /\ push \in [Pushes -> [at: {"none", "fetch", "publish"}, depth: Nat]]
      /\ \A r \in Pushes : push[r].depth <= book
  BY DEF FeedTypes
<1>3. FeedTypes'
  <2>1. /\ push' \in [Pushes -> [at: {"none", "fetch", "publish"}, depth: Nat]]
        /\ \A r \in Pushes : push'[r].depth <= book
    BY <1>1, <1>2
  <2> QED
    BY <1>1, <2>1 DEF FeedTypes
<1>4. NothingAhead' /\ TradesRise'
  BY <1>1 DEF NothingAhead, TradesRise
<1>5. OnePush'
  <2>1. SUFFICES ASSUME ~late PROVE OnePush'
    BY <1>1 DEF OnePush
  <2>2. \A r \in Pushes : Running(r)' <=> Running(r)
    BY <1>1, <1>2 DEF Running
  <2>3. ASSUME NEW r \in Pushes, push'[r].at = "publish", NEW c \in Clients
        PROVE  Upto(queue[c], shown[c]["depth"], "depth", push'[r].depth)
    <3>1. CASE r = p
      <4>1. push'[r].depth = book
        BY <1>1, <1>2, <3>1
      <4> QED
        BY <4>1 DEF NothingAhead
    <3>2. CASE r # p
      <4>1. push'[r] = push[r]
        BY <1>1, <1>2, <3>2
      <4> QED
        BY <2>1, <2>3, <4>1 DEF OnePush
    <3> QED
      BY <3>1, <3>2
  <2> QED
    BY <1>1, <2>1, <2>2, <2>3 DEF OnePush
<1> QED
  BY <1>3, <1>4, <1>5

\* writeLoop
LEMMA FeedWrite ==
  ASSUME FeedInv, NEW w \in Clients, Write(w)
  PROVE  FeedInv'
<1> USE DEF FeedInv
<1> DEFINE m == Head(queue[w])
<1>1. /\ queue[w] # <<>> /\ queue' = [queue EXCEPT ![w] = Tail(@)]
      /\ shown' = [shown EXCEPT ![w][m.channel] = m.n]
      /\ UNCHANGED <<now, pushedAt, book, seq, push, late>>
  BY DEF Write
<1>2. /\ queue \in [Clients -> Seq(Messages)] /\ shown \in [Clients -> [Channels -> Nat]]
      /\ queue[w] \in Seq(Messages)
  BY DEF FeedTypes
<1>3. m \in Messages /\ Tail(queue[w]) \in Seq(Messages)
  BY <1>1, <1>2
<1>4. m.channel \in Channels /\ m.n \in Nat
  BY <1>3 DEF Messages
<1> HIDE DEF m
<1>5. FeedTypes'
  <2>1. queue' \in [Clients -> Seq(Messages)]
    BY <1>1, <1>2, <1>3
  <2>2. shown' \in [Clients -> [Channels -> Nat]]
    BY <1>1, <1>2, <1>4
  <2> QED
    BY <1>1, <2>1, <2>2 DEF FeedTypes
<1>6. ASSUME NEW c \in Clients, NEW ch \in Channels
      PROVE  LET q == queue[c]   s == shown[c][ch]   r == queue'[c]   t == shown'[c][ch] IN
             /\ Rising(q, s, ch) => Rising(r, t, ch)
             /\ Growing(q, s, ch) => Growing(r, t, ch)
             /\ \A k : Upto(q, s, ch, k) => Upto(r, t, ch, k)
  <2>1. CASE c = w
    <3>1. /\ queue'[c] = Tail(queue[c]) /\ shown[c][ch] \in Nat
          /\ shown'[c][ch] = IF m.channel = ch THEN m.n ELSE shown[c][ch]
      BY <1>1, <1>2, <1>4, <2>1
    <3> QED
      BY <1>1, <1>2, <2>1, <3>1, WrittenFirst DEF m
  <2>2. CASE c # w
    <3>1. queue'[c] = queue[c] /\ shown'[c] = shown[c]
      BY <1>1, <1>2, <2>2
    <3> QED
      BY <3>1
  <2> QED
    BY <2>1, <2>2
<1>7. "trade" \in Channels /\ "depth" \in Channels
  BY DEF Channels
<1>8. NothingAhead' /\ TradesRise'
  BY <1>1, <1>6, <1>7 DEF NothingAhead, TradesRise
<1>9. OnePush'
  BY <1>1, <1>6, <1>7 DEF OnePush, Running
<1> QED
  BY <1>5, <1>8, <1>9

\* What a client is shown of trades and depth, whatever it misses.
LEMMA FeedInvariance == FeedSpec => []FeedInv
<1>1. FeedInit => FeedInv
  <2> SUFFICES ASSUME FeedInit PROVE FeedInv
    OBVIOUS
  <2> USE DEF FeedInit
  <2>1. FeedTypes
    BY DEF FeedTypes
  <2>2. \A c \in Clients, ch \in Channels :
          At(queue[c], ch) = {} /\ shown[c][ch] = 0
    BY DEF At
  <2>3. "trade" \in Channels /\ "depth" \in Channels
    BY DEF Channels
  <2>4. NothingAhead
    BY <2>2, <2>3 DEF NothingAhead, Upto
  <2>5. TradesRise
    BY <2>2, <2>3 DEF TradesRise, Rising
  <2>6. \A c \in Clients : Growing(queue[c], shown[c]["depth"], "depth")
    BY <2>2, <2>3 DEF Growing
  <2>7. OnePush
    BY <2>6 DEF OnePush, Running
  <2> QED
    BY <2>1, <2>4, <2>5, <2>7 DEF FeedInv
<1>2. FeedInv /\ [FeedNext]_feedVars => FeedInv'
  <2> SUFFICES ASSUME FeedInv, [FeedNext]_feedVars PROVE FeedInv'
    OBVIOUS
  <2>1. now \in Nat /\ book \in Nat
    BY DEF FeedInv, FeedTypes
  <2>2. \A p \in Pushes : Running(p) /\ pushedAt # <<>> /\ ~late => now - pushedAt[1] < Window
    BY DEF FeedInv, OnePush
  <2>3. CASE Trade
    BY <2>3, FeedTrade
  <2>4. CASE EndMatching \/ RestUntouched \/ Cancel
    <3>1. UNCHANGED <<now, seq, push, queue, shown, pushedAt, late>> /\ book' \in Nat /\ book' >= book
      BY <2>1, <2>4 DEF EndMatching, RestUntouched, Cancel, Changes
    <3> QED
      BY <2>1, <2>2, <3>1, FeedQuiet
  <2>5. CASE OnDepthChanged
    <3>1. CASE Throttled /\ UNCHANGED <<push, pushedAt>>
      <4>1. UNCHANGED <<now, seq, push, queue, shown, pushedAt, late, book>>
        BY <2>5, <3>1 DEF OnDepthChanged
      <4> QED
        BY <2>1, <2>2, <4>1, FeedQuiet
    <3>2. CASE ~Throttled /\ pushedAt' = <<now>> /\ \E p \in Pushes : Start(p)
      BY <2>5, <3>2, FeedStart
    <3> QED
      BY <2>5, <3>1, <3>2 DEF OnDepthChanged
  <2>6. ASSUME NEW p \in Pushes, Fetch(p) \/ PublishDepth(p) PROVE FeedInv'
    BY <2>6, FeedFetch, FeedPublish
  <2>7. ASSUME NEW c \in Clients, Write(c) PROVE FeedInv'
    BY <2>7, FeedWrite
  <2>8. ASSUME NEW c \in Clients, NEW channel \in Channels, HandleMessage(c, channel)
        PROVE  FeedInv'
    <3>1. UNCHANGED <<now, seq, push, queue, shown, pushedAt, late, book>>
      BY <2>8 DEF HandleMessage
    <3> QED
      BY <2>1, <2>2, <3>1, FeedQuiet
  <2>9. CASE Tick
    <3>1. UNCHANGED <<seq, push, queue, shown, pushedAt, book>> /\ now' = now + 1
      BY <2>9 DEF Tick
    <3>2. ASSUME ~late'
          PROVE  /\ ~late
                 /\ \A p \in Pushes : Running(p) /\ pushedAt # <<>> => now' - pushedAt[1] < Window
      <4>1. ~late /\ ~ \E p \in Pushes : Running(p) /\ now' - pushedAt[1] >= Window
        BY <2>9, <3>2 DEF Tick
      <4>2. pushedAt # <<>> => pushedAt[1] \in Nat
        BY DEF FeedInv, FeedTypes
      <4>3. Window \in Nat
        BY FeedAssumption DEF FeedParameters
      <4> QED
        BY <2>1, <3>1, <4>1, <4>2, <4>3
    <3> QED
      BY <2>1, <3>1, <3>2, FeedQuiet
  <2>10. CASE UNCHANGED feedVars
    BY <2>1, <2>2, <2>10, FeedQuiet DEF feedVars
  <2> QED
    BY <2>3, <2>4, <2>5, <2>6, <2>7, <2>8, <2>9, <2>10 DEF FeedNext, Work
<1> QED
  BY <1>1, <1>2, PTL DEF FeedSpec

\* A client sees the trades of a pair in the order in which they happened, none
\* twice, whatever a full queue or a change of subscription makes it miss.
THEOREM TradesInOrderSafe == FeedSpec => []TradesInOrder
<1>1. FeedInv => TradesInOrder
  BY DEF FeedInv, TradesRise, Rising, At, TradesInOrder, Waiting
<1> QED
  BY <1>1, FeedInvariance, PTL

\* As long as no push has outlasted Window, however many may run, the throttle
\* lets only one run at a time, and no client sees an older book after a newer.
THEOREM DepthInOrderSafe == FeedSpec => []DepthInOrder
<1>1. FeedInv => DepthInOrder
  BY DEF FeedInv, OnePush, Growing, At, DepthInOrder, Waiting
<1> QED
  BY <1>1, FeedInvariance, PTL

------------------------------------------------------------------------------
(***************************************************************************)
(* Market data                                                             *)
(***************************************************************************)

Trades == [price: Prices, qty: Quantities, time: 0 .. MaxClock]

\* Prices and quantities are positive.
LEMMA MarketNumbers ==
  /\ \A p \in Prices : p \in Int /\ p > 0
  /\ \A q \in Quantities : q \in Int /\ q > 0
  /\ \A i \in Intervals : i \in Nat \ {0}
  /\ KeepTrades \in Nat \ {0} /\ KeepCandles \in Nat \ {0}
  /\ MaxInt \in Nat /\ MaxClock \in Nat
  BY MarketAssumption DEF MarketParameters

\* The summary s of a sequence of trades, with a high and a low that are.
Summed(trades, s) ==
  /\ s.open = trades[1].price /\ s.close = trades[Len(trades)].price
  /\ \E n \in DOMAIN trades : s.high = trades[n].price
  /\ \E n \in DOMAIN trades : s.low = trades[n].price
  /\ \A n \in DOMAIN trades : s.low <= trades[n].price /\ trades[n].price <= s.high
  /\ s.volume = SumFunctionOnSet([n \in DOMAIN trades |-> trades[n].qty], DOMAIN trades)

\* There is only one such summary.
LEMMA SummaryIs ==
  ASSUME NEW trades \in Seq(Trades), NEW s, Summed(trades, s)
  PROVE  LET r == Summary(trades) IN
         /\ r.open = s.open /\ r.close = s.close /\ r.high = s.high /\ r.low = s.low
         /\ r.volume = s.volume
<1> DEFINE prices == {trades[n].price : n \in DOMAIN trades}
<1>1. \A x \in prices : x \in Int /\ s.low <= x /\ x <= s.high
  <2>1. \A n \in DOMAIN trades : trades[n] \in Trades
    OBVIOUS
  <2>2. \A n \in DOMAIN trades : trades[n].price \in Int
    BY <2>1, MarketNumbers DEF Trades
  <2> QED
    BY <2>2 DEF Summed
<1>2. s.high \in prices /\ s.low \in prices
  BY DEF Summed
<1> HIDE DEF prices
<1>3. Max(prices) = s.high
  <2>1. \A m \in prices : (\A x \in prices : m >= x) <=> m = s.high
    BY <1>1, <1>2
  <2> QED
    BY <1>2, <2>1 DEF Max
<1>4. Min(prices) = s.low
  <2>1. \A m \in prices : (\A x \in prices : m <= x) <=> m = s.low
    BY <1>1, <1>2
  <2> QED
    BY <1>2, <2>1 DEF Min
<1>5. Summary(trades) =
        [open |-> trades[1].price, close |-> trades[Len(trades)].price,
         high |-> Max(prices), low |-> Min(prices),
         volume |-> SumFunctionOnSet([n \in DOMAIN trades |-> trades[n].qty], DOMAIN trades)]
  BY DEF Summary, Last, prices
<1> QED
  BY <1>3, <1>4, <1>5 DEF Summed

\* The summary of one trade.
LEMMA SummaryOne ==
  ASSUME NEW x \in Trades, NEW s,
         s.open = x.price, s.close = x.price, s.high = x.price, s.low = x.price, s.volume = x.qty
  PROVE  Summed(<<x>>, s)
<1> DEFINE f == [n \in {1} |-> x.qty]
<1>1. x.price \in Int /\ x.qty \in Int
  BY MarketNumbers DEF Trades
<1>2. SumFunctionOnSet(f, {1}) = x.qty
  <2>1. PICK S, T : S = {1} /\ T = S \ {1} /\ T = {}
    OBVIOUS
  <2>2. f[1] = x.qty /\ IsFiniteSet(S)
    BY <2>1, FS_Singleton
  <2> HIDE DEF f
  <2>3. \A y \in S : f[y] \in Int
    BY <1>1, <2>1, <2>2
  <2>4. 1 \in S
    BY <2>1
  <2>5. SumFunctionOnSet(f, S) = f[1] + SumFunctionOnSet(f, S \ {1})
    BY <2>2, <2>3, <2>4, SumRemove
  <2>6. SumFunctionOnSet(f, T) = 0
    BY <2>1, SumEmpty
  <2> QED
    BY <1>1, <2>1, <2>2, <2>5, <2>6
<1>3. /\ DOMAIN <<x>> = {1} /\ Len(<<x>>) = 1 /\ <<x>>[1] = x
      /\ [n \in DOMAIN <<x>> |-> <<x>>[n].qty] = f
  OBVIOUS
<1> QED
  BY <1>1, <1>2, <1>3 DEF Summed

\* The summary of one trade more.
LEMMA SummaryMore ==
  ASSUME NEW trades \in Seq(Trades), trades # <<>>, NEW x \in Trades,
         NEW s, Summed(trades, s), NEW r,
         r.open = s.open, r.close = x.price, r.high = Higher(s.high, x.price),
         r.low = Lower(s.low, x.price), r.volume = s.volume + x.qty
  PROVE  Summed(Append(trades, x), r)
<1> DEFINE k == Append(trades, x)
           l == Len(trades)
           f == [n \in DOMAIN trades |-> trades[n].qty]
           g == [n \in DOMAIN k |-> k[n].qty]
<1>1. /\ l \in Nat \ {0} /\ DOMAIN trades = 1 .. l /\ DOMAIN k = 1 .. l + 1 /\ Len(k) = l + 1
      /\ \A n \in 1 .. l : k[n] = trades[n] /\ trades[n] \in Trades
      /\ k[l + 1] = x
  OBVIOUS
<1>2. /\ \A n \in 1 .. l : trades[n].price \in Int /\ trades[n].qty \in Int
      /\ x.price \in Int /\ x.qty \in Int
  BY <1>1, MarketNumbers DEF Trades
<1>3. /\ \A n \in 1 .. l : g[n] = f[n] /\ f[n] \in Int
      /\ g[l + 1] = x.qty /\ l + 1 \notin 1 .. l /\ 1 .. l + 1 = (1 .. l) \cup {l + 1}
  BY <1>1, <1>2
<1> HIDE DEF k, l, f, g
<1>4. SumFunctionOnSet(g, 1 .. l + 1) = SumFunctionOnSet(f, 1 .. l) + x.qty
  <2>1. IsFiniteSet(1 .. l)
    BY <1>1, FS_Interval
  <2>2. SumFunctionOnSet(g, 1 .. l) = SumFunctionOnSet(f, 1 .. l)
    BY <1>3, <2>1, SumSame
  <2>3. PICK S, y : S = 1 .. l /\ y = l + 1
    OBVIOUS
  <2>4. \A n \in S \cup {y} : g[n] \in Int
    BY <1>2, <1>3, <2>3
  <2>5. SumFunctionOnSet(g, S \cup {y}) = SumFunctionOnSet(g, S) + g[y]
    <3>1. IsFiniteSet(S) /\ y \notin S
      BY <1>3, <2>1, <2>3
    <3> QED
      BY <2>4, <3>1, SumInsert
  <2> QED
    BY <1>3, <2>2, <2>3, <2>5
<1>5. r.volume = SumFunctionOnSet(g, 1 .. l + 1)
  BY <1>1, <1>4 DEF Summed, f, l
<1>6. r.open = k[1].price /\ r.close = k[Len(k)].price
  BY <1>1 DEF Summed
<1>7. PICK a \in 1 .. l, b \in 1 .. l :
        /\ s.high = trades[a].price /\ s.low = trades[b].price
        /\ \A n \in 1 .. l : s.low <= trades[n].price /\ trades[n].price <= s.high
  BY <1>1 DEF Summed
<1>8. \E n \in 1 .. l + 1 : r.high = k[n].price
  BY <1>1, <1>2, <1>7 DEF Higher
<1>9. \E n \in 1 .. l + 1 : r.low = k[n].price
  BY <1>1, <1>2, <1>7 DEF Lower
<1>10. \A n \in 1 .. l + 1 : r.low <= k[n].price /\ k[n].price <= r.high
  <2>1. \A n \in 1 .. l : k[n].price \in Int /\ s.low <= k[n].price /\ k[n].price <= s.high
    BY <1>1, <1>2, <1>7
  <2>2. /\ s.low \in Int /\ s.high \in Int /\ r.low <= s.low /\ s.high <= r.high
        /\ r.low \in Int /\ r.high \in Int /\ r.low <= x.price /\ x.price <= r.high
    BY <1>2, <1>7 DEF Higher, Lower
  <2>3. ASSUME NEW n \in 1 .. l + 1 PROVE r.low <= k[n].price /\ k[n].price <= r.high
    <3>1. CASE n \in 1 .. l
      BY <2>1, <2>2, <3>1
    <3>2. CASE n = l + 1
      BY <1>1, <2>2, <3>2
    <3> QED
      BY <1>3, <3>1, <3>2
  <2> QED
    BY <2>3
<1> QED
  BY <1>1, <1>5, <1>6, <1>8, <1>9, <1>10 DEF Summed, g, k

\* Opening times are times.
LEMMA OpenTimes ==
  ASSUME NEW i \in Intervals, NEW x \in 0 .. MaxClock
  PROVE  Period(x, i) \in 0 .. MaxClock
<1>1. i \in Nat \ {0} /\ x \in Nat
  BY MarketNumbers
<1>2. x % i \in Nat /\ x % i <= x
  <2>1. x % i \in 0 .. i - 1
    BY <1>1
  <2>2. x = i * (x \div i) + (x % i)
    BY <1>1
  <2>3. x \div i \in Nat
    BY <1>1, DivNat
  <2>4. i * (x \div i) \in Nat
    BY <1>1, <2>3
  <2> QED
    BY <1>1, <2>1, <2>2, <2>4
<1>3. MaxClock \in Nat
  BY MarketNumbers
<1> QED
  BY <1>1, <1>2, <1>3 DEF Period

\* What is left of candles that are too many.
LEMMA Trims ==
  ASSUME NEW S, NEW arr \in Seq(S), NEW n, n = Len(arr), n # 0,
         NEW m, m = Trimmed(arr)
  PROVE  /\ m \in Seq(S) /\ Len(m) = Lower(KeepCandles, n) /\ n - Len(m) \in Nat
         /\ \A x \in 1 .. Len(m) : m[x] = arr[x + (n - Len(m))]
<1> DEFINE a == Higher(1, n - KeepCandles + 1)
<1>1. n \in Nat \ {0} /\ KeepCandles \in Nat \ {0}
  BY MarketNumbers
<1>2. a \in 1 .. n /\ n - a + 1 = Lower(KeepCandles, n)
  <2>1. PICK k \in Nat \ {0}, l \in Nat \ {0} : k = KeepCandles /\ l = n
    BY <1>1
  <2>2. CASE k < l
    <3>1. a = l - k + 1 /\ Lower(KeepCandles, n) = k
      BY <2>1, <2>2 DEF Higher, Lower
    <3> HIDE DEF a
    <3> QED
      BY <2>1, <2>2, <3>1
  <2>3. CASE ~(k < l)
    <3>1. a = 1 /\ Lower(KeepCandles, n) = l
      BY <2>1, <2>3 DEF Higher, Lower
    <3> HIDE DEF a
    <3> QED
      BY <2>1, <2>3, <3>1
  <2> QED
    BY <2>2, <2>3
<1>3. m = SubSeq(arr, a, n)
  BY DEF Trimmed
<1> HIDE DEF a
<1>4. /\ m \in Seq(S) /\ Len(m) = n - a + 1
      /\ \A x \in 1 .. Len(m) : m[x] = arr[x + a - 1]
  BY <1>1, <1>2, <1>3
<1>5. n - Len(m) = a - 1
  BY <1>1, <1>2, <1>4
<1> QED
  BY <1>1, <1>2, <1>4, <1>5

\* A sequence with an element replaced.
LEMMA Replaced ==
  ASSUME NEW S, NEW arr \in Seq(S), NEW n \in 1 .. Len(arr), NEW e \in S
  PROVE  LET m == [arr EXCEPT ![n] = e] IN
         /\ m \in Seq(S) /\ Len(m) = Len(arr) /\ m[n] = e
         /\ \A x \in 1 .. Len(arr) : x # n => m[x] = arr[x]
<1> DEFINE m == [arr EXCEPT ![n] = e]
           l == Len(arr)
<1>1. l \in Nat /\ DOMAIN arr = 1 .. l /\ \A x \in 1 .. l : arr[x] \in S
  OBVIOUS
<1>2. DOMAIN m = 1 .. l /\ m[n] = e /\ \A x \in 1 .. l : x # n => m[x] = arr[x]
  BY <1>1
<1>3. \A x \in 1 .. l : m[x] \in S
  BY <1>1, <1>2
<1>4. m = [x \in 1 .. l |-> m[x]]
  BY <1>1
<1> HIDE DEF m, l
<1>5. m \in [1 .. l -> S]
  BY <1>3, <1>4
<1>6. m \in Seq(S) /\ Len(m) = l
  BY <1>1, <1>5
<1> QED
  BY <1>2, <1>6 DEF m, l

\* A candle that grows, one that is closed, and a new one.
LEMMA CandlesTyped ==
  ASSUME NEW i \in Intervals, NEW p \in Prices, NEW q \in Quantities,
         clock \in 0 .. MaxClock, NEW k \in CandleTypes
  PROVE  /\ NewCandle(i, p, q) \in CandleTypes
         /\ Extended(k, p, q) \in CandleTypes
         /\ [k EXCEPT !.closed = TRUE] \in CandleTypes
<1>1. OpenTime(i) \in 0 .. MaxClock
  BY OpenTimes DEF OpenTime, Period
<1>2. q \in Nat
  BY MarketNumbers
<1>3. NewCandle(i, p, q) \in CandleTypes
  BY <1>1, <1>2 DEF NewCandle, CandleTypes
<1>4. Extended(k, p, q) \in CandleTypes
  <2>1. k.high \in Prices /\ k.low \in Prices /\ k.volume \in Nat
    BY DEF CandleTypes
  <2>2. /\ Higher(k.high, p) \in Prices /\ Lower(k.low, p) \in Prices
        /\ k.volume + q \in Nat
    BY <1>2, <2>1 DEF Higher, Lower
  <2>3. PICK h \in Prices, m \in Prices, v \in Nat :
          /\ h = Higher(k.high, p) /\ m = Lower(k.low, p)
          /\ v = k.volume + q
    BY <2>2
  <2>4. Extended(k, p, q) =
          [k EXCEPT !.high = h, !.low = m, !.close = p, !.volume = v]
    BY <2>3 DEF Extended
  <2>5. [k EXCEPT !.high = h, !.low = m, !.close = p, !.volume = v] \in CandleTypes
    BY DEF CandleTypes
  <2> QED
    BY <2>4, <2>5
<1>5. [k EXCEPT !.closed = TRUE] \in CandleTypes
  BY DEF CandleTypes
<1> QED
  BY <1>3, <1>4, <1>5

\* The last candle of arr has grown, the result is new.
GrownLast(arr, p, q, new) ==
  /\ Len(new) = Len(arr)
  /\ new[Len(arr)] = Extended(arr[Len(arr)], p, q)
  /\ \A x \in 1 .. Len(arr) - 1 : new[x] = arr[x]

\* The last candle of arr has been closed and a new one follows, the d oldest
\* have gone, and the result is new.
NewLast(arr, i, p, q, new, d) ==
  /\ d = Len(arr) + 1 - Len(new) /\ d \in Nat
  /\ Len(new) = Lower(KeepCandles, Len(arr) + 1)
  /\ new[Len(new)] = NewCandle(i, p, q)
  /\ \A x \in 1 .. Len(new) - 1 :
       /\ x + d \in 1 .. Len(arr)
       /\ x + d < Len(arr) => new[x] = arr[x + d]
       /\ x + d = Len(arr) => new[x] = [arr[x + d] EXCEPT !.closed = TRUE]

\* The candles of an interval after a trade: the last one has grown, or it has
\* been closed and a new one follows, where the oldest may have to go.
LEMMA Aggregates ==
  ASSUME NEW i \in Intervals, NEW p \in Prices, NEW q \in Quantities,
         clock \in 0 .. MaxClock, NEW arr \in Seq(CandleTypes), Len(arr) <= KeepCandles,
         NEW new, new = Aggregate(arr, i, p, q)
  PROVE  /\ new \in Seq(CandleTypes) /\ Len(new) <= KeepCandles /\ new # <<>>
         /\ IF arr # <<>> /\ arr[Len(arr)].openTime = OpenTime(i)
            THEN GrownLast(arr, p, q, new)
            ELSE \E d \in Nat : NewLast(arr, i, p, q, new, d)
<1> DEFINE K == CandleTypes
           l == Len(arr)
           nc == NewCandle(i, p, q)
           closing == CloseLast(arr)
           grown == [arr EXCEPT ![l] = Extended(arr[l], p, q)]
<1>1. /\ l \in Nat /\ DOMAIN arr = 1 .. l /\ \A x \in 1 .. l : arr[x] \in K
      /\ arr # <<>> <=> l > 0
      /\ KeepCandles \in Nat \ {0}
  BY MarketNumbers
<1>2. nc \in K /\ \A k \in K : /\ Extended(k, p, q) \in K
                              /\ [k EXCEPT !.closed = TRUE] \in K
  <2>1. ASSUME NEW k \in K
        PROVE  nc \in K /\ Extended(k, p, q) \in K /\ [k EXCEPT !.closed = TRUE] \in K
    BY <2>1, CandlesTyped
  <2>2. nc \in K
    BY OpenTimes, MarketNumbers
       DEF NewCandle, CandleTypes, OpenTime, Period
  <2> QED
    BY <2>1, <2>2
<1> HIDE DEF K, nc
<1>3. CASE arr # <<>> /\ arr[l].openTime = OpenTime(i)
  <2>1. new = grown
    BY <1>3 DEF Aggregate, Last
  <2>2. grown \in Seq(K) /\ Len(grown) = l /\ grown[l] = Extended(arr[l], p, q)
        /\ \A x \in 1 .. l - 1 : grown[x] = arr[x]
    <3>1. arr \in Seq(K) /\ l \in 1 .. Len(arr) /\ Extended(arr[l], p, q) \in K
      <4>1. arr \in Seq(K)
        BY DEF K
      <4>2. l \in 1 .. Len(arr)
        BY <1>1, <1>3
      <4>3. PICK k \in K : k = arr[l]
        BY <1>1, <4>2
      <4> QED
        BY <1>2, <4>1, <4>2, <4>3
    <3>2. PICK e \in K : e = Extended(arr[l], p, q)
      BY <3>1
    <3>3. LET m == [arr EXCEPT ![l] = e] IN
          /\ m \in Seq(K) /\ Len(m) = l /\ m[l] = e
          /\ \A x \in 1 .. l : x # l => m[x] = arr[x]
      BY <3>1, Replaced
    <3> QED
      BY <1>1, <3>2, <3>3
  <2> HIDE DEF grown
  <2> QED
    BY <1>1, <1>3, <2>1, <2>2 DEF K, GrownLast
<1>4. CASE ~(arr # <<>> /\ arr[l].openTime = OpenTime(i))
  <2>1. new = Trimmed(Append(closing, nc))
    BY <1>4 DEF Aggregate, Last, nc
  <2>2. /\ closing \in Seq(K) /\ Len(closing) = l
        /\ \A x \in 1 .. l - 1 : closing[x] = arr[x]
        /\ l > 0 => closing[l] = [arr[l] EXCEPT !.closed = TRUE]
    <3>1. arr \in Seq(K)
      BY DEF K
    <3>2. CASE l = 0
      <4>1. closing = arr
        BY <1>1, <3>2 DEF CloseLast
      <4> HIDE DEF closing
      <4> QED
        BY <3>1, <3>2, <4>1
    <3>3. CASE l > 0
      <4>1. PICK e \in K : e = [arr[l] EXCEPT !.closed = TRUE]
        <5>1. PICK k \in K : k = arr[l]
          BY <1>1, <3>3
        <5> QED
          BY <1>2, <5>1
      <4>2. closing = [arr EXCEPT ![l] = e]
        BY <1>1, <3>3, <4>1 DEF CloseLast
      <4>3. LET m == [arr EXCEPT ![l] = e] IN
            /\ m \in Seq(K) /\ Len(m) = l /\ m[l] = e
            /\ \A x \in 1 .. l : x # l => m[x] = arr[x]
        <5>1. l \in 1 .. Len(arr)
          BY <1>1, <3>3
        <5> QED
          BY <3>1, <5>1, Replaced
      <4> HIDE DEF closing
      <4> QED
        BY <1>1, <4>1, <4>2, <4>3
    <3> QED
      BY <1>1, <3>2, <3>3
  <2> HIDE DEF closing
  <2>3. PICK all : all = Append(closing, nc)
    OBVIOUS
  <2>4. /\ all \in Seq(K) /\ Len(all) = l + 1 /\ all # <<>>
        /\ \A x \in 1 .. l : all[x] = closing[x]
        /\ all[l + 1] = nc
    BY <1>1, <1>2, <2>2, <2>3
  <2>5. PICK n, d \in Nat :
          /\ n = l + 1 /\ d = n - Len(new)
          /\ new \in Seq(K) /\ Len(new) = Lower(KeepCandles, n)
          /\ \A x \in 1 .. Len(new) : new[x] = all[x + d]
    <3>1. new = Trimmed(all)
      BY <2>1, <2>3
    <3>2. PICK n : n = l + 1
      OBVIOUS
    <3>3. all \in Seq(K) /\ n = Len(all) /\ n # 0
      BY <1>1, <2>4, <3>2
    <3>4. /\ new \in Seq(K) /\ Len(new) = Lower(KeepCandles, n) /\ n - Len(new) \in Nat
          /\ \A x \in 1 .. Len(new) : new[x] = all[x + (n - Len(new))]
      BY <3>1, <3>3, Trims, Zenon
    <3>5. n \in Nat
      BY <1>1, <3>2
    <3> QED
      BY <3>2, <3>4, <3>5, Zenon
  <2>6. /\ Len(new) \in Nat \ {0} /\ Len(new) <= KeepCandles
        /\ Len(new) <= n /\ d = n - Len(new) /\ n = l + 1 /\ l \in Nat
    <3>1. n \in Nat \ {0}
      BY <1>1, <2>5
    <3>2. Len(new) \in Nat \ {0} /\ Len(new) <= KeepCandles /\ Len(new) <= n
      BY <1>1, <2>5, <3>1 DEF Lower
    <3> QED
      BY <1>1, <2>5, <3>1, <3>2
  <2> HIDE DEF l
  <2>7. new[Len(new)] = nc
    <3>1. Len(new) + d = l + 1 /\ Len(new) \in 1 .. Len(new)
      BY <2>6
    <3> QED
      BY <2>4, <2>5, <3>1
  <2>8. ASSUME NEW x \in 1 .. Len(new) - 1
        PROVE  /\ x + d \in 1 .. l
               /\ x + d < l => new[x] = arr[x + d]
               /\ x + d = l => new[x] = [arr[x + d] EXCEPT !.closed = TRUE]
    <3>1. x + d \in 1 .. l /\ x \in 1 .. Len(new)
      BY <2>6
    <3>2. new[x] = closing[x + d]
      BY <2>4, <2>5, <3>1
    <3>3. x + d < l => new[x] = arr[x + d]
      <4>1. x + d < l => x + d \in 1 .. l - 1
        BY <1>1, <3>1
      <4> QED
        BY <2>2, <3>2, <4>1
    <3>4. x + d = l => new[x] = [arr[x + d] EXCEPT !.closed = TRUE]
      <4> SUFFICES ASSUME x + d = l PROVE new[x] = [arr[x + d] EXCEPT !.closed = TRUE]
        OBVIOUS
      <4>1. l > 0 /\ new[x] = closing[l]
        BY <1>1, <3>1, <3>2
      <4>2. closing[l] = [arr[l] EXCEPT !.closed = TRUE]
        BY <2>2, <4>1
      <4> QED
        BY <4>1, <4>2
    <3> QED
      BY <3>1, <3>3, <3>4
  <2>9. Len(arr) + 1 - Len(new) = d /\ Len(arr) + 1 = n
    BY <2>6 DEF l
  <2>10. NewLast(arr, i, p, q, new, d)
    BY <2>5, <2>6, <2>7, <2>8, <2>9 DEF nc, l, NewLast
  <2> QED
    BY <1>4, <2>5, <2>6, <2>10 DEF K, l
<1> QED
  BY <1>3, <1>4

\* The turns of a sequence of trades are some of its positions.
LEMMA TurnsFinite ==
  ASSUME NEW trades \in Seq(Trades), NEW i, NEW T, T = Turns(trades, i)
  PROVE  /\ T \in SUBSET (1 .. Len(trades)) /\ IsFiniteSet(T) /\ Cardinality(T) \in Nat
         /\ \A n : /\ After(trades, i, n) \in SUBSET T
                   /\ IsFiniteSet(After(trades, i, n))
                   /\ Cardinality(After(trades, i, n)) \in Nat
                   /\ After(trades, i, n) = {} <=>
                        Cardinality(After(trades, i, n)) = 0
<1>1. T \in SUBSET (1 .. Len(trades))
  BY DEF Turns
<1>2. IsFiniteSet(T)
  <2>1. PICK n \in Nat : n = Len(trades)
    OBVIOUS
  <2>2. T \in SUBSET (1 .. n)
    BY <1>1, <2>1
  <2> QED
    BY <2>2, Positions
<1>3. ASSUME NEW n
      PROVE  /\ After(trades, i, n) \in SUBSET T
             /\ IsFiniteSet(After(trades, i, n))
  <2>1. After(trades, i, n) \in SUBSET T
    BY DEF After
  <2> QED
    BY <1>2, <2>1, FS_Subset
<1> QED
  BY <1>1, <1>2, <1>3, FS_CardinalityType, FS_EmptySet

\* Where a run ends: with the trades, or before the next turn.
RunEnd(trades, i, n, e) ==
  IF After(trades, i, n) = {} THEN e = Len(trades)
  ELSE /\ e + 1 \in After(trades, i, n)
       /\ \A m \in After(trades, i, n) : e + 1 <= m

\* A run ends somewhere, and the run is what comes until there.
LEMMA RunEnds ==
  ASSUME NEW trades \in Seq(Trades), NEW i, NEW n \in Turns(trades, i)
  PROVE  /\ \E e \in n .. Len(trades) : RunEnd(trades, i, n, e)
         /\ \A e \in Int : RunEnd(trades, i, n, e) => Run(trades, i, n) = SubSeq(trades, n, e)
<1>1. PICK T, A : T = Turns(trades, i) /\ A = After(trades, i, n)
  OBVIOUS
<1>2. /\ n \in 1 .. Len(trades) /\ T \in SUBSET (1 .. Len(trades)) /\ A \in SUBSET T
      /\ IsFiniteSet(A) /\ n \in T
  BY <1>1, TurnsFinite
<1>3. \A m \in A : m > n /\ m \in 1 .. Len(trades)
  BY <1>1, <1>2 DEF After
<1>4. CASE A = {}
  BY <1>1, <1>2, <1>4 DEF RunEnd, Run
<1>5. CASE A # {}
  <2>1. A \subseteq Int
    BY <1>3
  <2>2. PICK m \in A : \A x \in A \ {m} : m < x
    BY <1>2, <1>5, <2>1, FiniteHasEnds
  <2>3. m \in 1 .. Len(trades) /\ m > n /\ \A x \in A : m <= x
    BY <1>3, <2>2
  <2>4. m - 1 \in n .. Len(trades) /\ m - 1 + 1 = m
    BY <1>2, <2>3
  <2>5. RunEnd(trades, i, n, m - 1)
    BY <1>1, <1>5, <2>2, <2>3, <2>4 DEF RunEnd
  <2>6. ASSUME NEW e \in Int, RunEnd(trades, i, n, e)
        PROVE  Run(trades, i, n) = SubSeq(trades, n, e)
    <3>1. e + 1 \in A /\ \A x \in A : e + 1 <= x
      BY <1>1, <1>5, <2>6 DEF RunEnd
    <3>2. \A x \in A : (\A y \in A : x <= y) <=> x = e + 1
      BY <2>1, <3>1
    <3>3. Min(A) = e + 1
      BY <3>1, <3>2 DEF Min
    <3>4. Min(A) - 1 = e
      BY <3>3
    <3> QED
      BY <1>1, <1>5, <3>4 DEF Run
  <2> QED
    BY <2>4, <2>5, <2>6
<1> QED
  BY <1>4, <1>5

\* The last run has grown by x, and nothing else has changed.
LastGrown(trades, x, more, i) ==
  /\ Turns(more, i) = Turns(trades, i)
  /\ \A n : After(more, i, n) = After(trades, i, n)
  /\ \A n \in Turns(trades, i) :
       Run(more, i, n) = IF After(trades, i, n) = {}
                                THEN Append(Run(trades, i, n), x)
                                ELSE Run(trades, i, n)

\* A trade in the period of the one before: no turn, and the last run is longer.
LEMMA RunGrows ==
  ASSUME NEW trades \in Seq(Trades), NEW x \in Trades, NEW i, trades # <<>>,
         Period(x.time, i) = Period(trades[Len(trades)].time, i),
         NEW more, more = Append(trades, x)
  PROVE  LastGrown(trades, x, more, i)
<1>1. PICK l \in Nat \ {0} : l = Len(trades)
  OBVIOUS
<1>2. /\ Len(more) = l + 1 /\ DOMAIN more = 1 .. l + 1 /\ DOMAIN trades = 1 .. l
      /\ more \in Seq(Trades) /\ \A m \in 1 .. l : more[m] = trades[m]
      /\ more[l + 1] = x
  BY <1>1
<1>3. l + 1 \notin Turns(more, i)
  BY <1>1, <1>2 DEF Turns
<1>4. ASSUME NEW m \in 1 .. l PROVE m \in Turns(more, i) <=> m \in Turns(trades, i)
  <2>1. m > 1 => m - 1 \in 1 .. l
    BY <1>1
  <2> QED
    BY <1>2, <2>1 DEF Turns
<1>5. Turns(more, i) = Turns(trades, i)
  <2>1. Turns(more, i) \subseteq 1 .. l + 1 /\ Turns(trades, i) \subseteq 1 .. l
    BY <1>2 DEF Turns
  <2>2. PICK A, B : A = Turns(more, i) /\ B = Turns(trades, i)
    OBVIOUS
  <2>3. \A m \in 1 .. l : m \in A <=> m \in B
    BY <1>4, <2>2
  <2>4. A \subseteq 1 .. l /\ B \subseteq 1 .. l
    BY <1>1, <1>3, <2>1, <2>2
  <2>5. A = B
    BY <2>3, <2>4
  <2> QED
    BY <2>2, <2>5
<1>6. \A n : After(more, i, n) = After(trades, i, n)
  BY <1>5 DEF After
<1>7. ASSUME NEW n \in Turns(trades, i)
      PROVE  Run(more, i, n) = IF After(trades, i, n) = {}
                                      THEN Append(Run(trades, i, n), x)
                                      ELSE Run(trades, i, n)
  <2>1. PICK e \in n .. l : RunEnd(trades, i, n, e)
    BY <1>1, RunEnds
  <2>2. n \in 1 .. l
    BY <1>2 DEF Turns
  <2>3. Run(trades, i, n) = SubSeq(trades, n, e)
    BY <2>1, <2>2, RunEnds
  <2>4. CASE After(trades, i, n) = {}
    <3>1. e = l
      BY <1>1, <2>1, <2>4 DEF RunEnd
    <3>2. RunEnd(more, i, n, l + 1)
      BY <1>2, <1>6, <2>4 DEF RunEnd
    <3>3. Run(more, i, n) = SubSeq(more, n, l + 1)
      <4>1. PICK m \in Int : m = l + 1
        BY <1>1
      <4>2. n \in Turns(more, i) /\ more \in Seq(Trades) /\ RunEnd(more, i, n, m)
        BY <1>2, <1>5, <3>2, <4>1
      <4>3. Run(more, i, n) = SubSeq(more, n, m)
        BY <4>2, RunEnds, Zenon
      <4> QED
        BY <4>1, <4>3, Zenon
    <3>4. SubSeq(more, n, l + 1) = Append(SubSeq(trades, n, l), x)
      <4>1. /\ Len(SubSeq(trades, n, l)) = l - n + 1
            /\ \A m \in 1 .. l - n + 1 : SubSeq(trades, n, l)[m] = trades[n + m - 1]
        BY <1>1, <2>2
      <4> QED
        BY <1>1, <1>2, <2>2, <4>1
    <3> QED
      BY <2>3, <2>4, <3>1, <3>3, <3>4
  <2>5. CASE After(trades, i, n) # {}
    <3>1. RunEnd(more, i, n, e)
      BY <1>6, <2>1, <2>5 DEF RunEnd
    <3>2. Run(more, i, n) = SubSeq(more, n, e)
      <4>1. n \in Turns(more, i) /\ more \in Seq(Trades) /\ e \in Int
        BY <1>2, <1>5, <2>1, <2>2
      <4> QED
        BY <3>1, <4>1, RunEnds, Zenon
    <3>3. SubSeq(more, n, e) = SubSeq(trades, n, e)
      BY <1>1, <1>2, <2>1, <2>2
    <3> QED
      BY <2>3, <2>5, <3>2, <3>3
  <2> QED
    BY <2>4, <2>5
<1> QED
  BY <1>5, <1>6, <1>7 DEF LastGrown

\* The n-th trade has begun a run, which leaves the others as they were.
RunBegun(trades, x, more, i, l) ==
  /\ l \notin Turns(trades, i)
  /\ Turns(more, i) = Turns(trades, i) \cup {l}
  /\ After(more, i, l) = {} /\ Run(more, i, l) = <<x>>
  /\ \A n \in Turns(trades, i) :
       /\ After(more, i, n) = After(trades, i, n) \cup {l}
       /\ Run(more, i, n) = Run(trades, i, n)

\* A trade in another period: a turn, the runs before it are as they were.
LEMMA RunBegins ==
  ASSUME NEW trades \in Seq(Trades), NEW x \in Trades, NEW i,
         trades # <<>> =>
           Period(x.time, i) # Period(trades[Len(trades)].time, i),
         NEW more, more = Append(trades, x), NEW l, l = Len(trades) + 1
  PROVE  RunBegun(trades, x, more, i, l)
<1>1. l \in Nat \ {0} /\ Len(trades) = l - 1 /\ (trades # <<>> <=> l > 1)
  OBVIOUS
<1>2. /\ Len(more) = l /\ DOMAIN more = 1 .. l /\ DOMAIN trades = 1 .. l - 1
      /\ more \in Seq(Trades) /\ \A m \in 1 .. l - 1 : more[m] = trades[m]
      /\ more[l] = x
  BY <1>1
<1>3. l \in Turns(more, i)
  <2>1. l > 1 => Period(more[l].time, i) # Period(more[l - 1].time, i)
    <3> SUFFICES ASSUME l > 1
                 PROVE  Period(more[l].time, i) # Period(more[l - 1].time, i)
      OBVIOUS
    <3>1. PICK m : m = l - 1
      OBVIOUS
    <3>2. m = Len(trades) /\ m \in 1 .. l - 1 /\ trades # <<>>
      BY <1>1, <3>1
    <3>3. more[m] = trades[Len(trades)] /\ more[l] = x
      BY <1>2, <3>2
    <3>4. Period(more[l].time, i) # Period(more[m].time, i)
      BY <3>2, <3>3, Zenon
    <3> QED
      BY <3>1, <3>4, Zenon
  <2>2. l \in DOMAIN more
    BY <1>1, <1>2
  <2> QED
    BY <2>1, <2>2, Zenon DEF Turns
<1>4. ASSUME NEW m \in 1 .. l - 1
      PROVE  m \in Turns(more, i) <=> m \in Turns(trades, i)
  <2>1. m \in 1 .. l /\ (m > 1 => m - 1 \in 1 .. l - 1)
    BY <1>1
  <2> QED
    BY <1>2, <2>1 DEF Turns
<1>5. Turns(more, i) \subseteq 1 .. l /\ Turns(trades, i) \subseteq 1 .. l - 1
  BY <1>2 DEF Turns
<1>6. l \notin Turns(trades, i) /\ Turns(more, i) = Turns(trades, i) \cup {l}
  BY <1>1, <1>3, <1>4, <1>5
<1>7. After(more, i, l) = {}
  BY <1>1, <1>5 DEF After
<1>8. Run(more, i, l) = <<x>>
  <2>1. RunEnd(more, i, l, l)
    BY <1>2, <1>7 DEF RunEnd
  <2>2. Run(more, i, l) = SubSeq(more, l, l)
    <3>1. l \in Int /\ more \in Seq(Trades)
      BY <1>1, <1>2
    <3> QED
      BY <1>3, <2>1, <3>1, RunEnds, Zenon
  <2> QED
    BY <1>1, <1>2, <2>2
<1>9. ASSUME NEW n \in Turns(trades, i)
      PROVE  /\ After(more, i, n) = After(trades, i, n) \cup {l}
             /\ Run(more, i, n) = Run(trades, i, n)
  <2>1. n \in 1 .. l - 1
    BY <1>5
  <2>2. After(more, i, n) = After(trades, i, n) \cup {l}
    BY <1>1, <1>6, <2>1 DEF After
  <2>3. PICK e \in n .. l - 1 : RunEnd(trades, i, n, e)
    BY <1>1, RunEnds
  <2>4. Run(trades, i, n) = SubSeq(trades, n, e)
    BY <1>1, <2>1, <2>3, RunEnds
  <2>5. RunEnd(more, i, n, e)
    <3>1. CASE After(trades, i, n) = {}
      <4>1. e = l - 1
        BY <1>1, <2>3, <3>1 DEF RunEnd
      <4> QED
        <5>1. e + 1 = l
          BY <1>1, <4>1
        <5>2. PICK A : A = After(more, i, n)
          OBVIOUS
        <5>3. A = {l}
          BY <2>2, <3>1, <5>2
        <5>4. A # {} /\ e + 1 \in A /\ \A m \in A : e + 1 <= m
          BY <1>1, <5>1, <5>3
        <5> QED
          BY <5>2, <5>4 DEF RunEnd
    <3>2. CASE After(trades, i, n) # {}
      <4>1. e + 1 \in After(trades, i, n) /\ \A m \in After(trades, i, n) : e + 1 <= m
        BY <2>3, <3>2 DEF RunEnd
      <4>2. e + 1 <= l
        BY <1>1, <2>1, <2>3
      <4> QED
        BY <2>2, <4>1, <4>2 DEF RunEnd
    <3> QED
      BY <3>1, <3>2
  <2>6. Run(more, i, n) = SubSeq(more, n, e)
    <3>1. n \in Turns(more, i) /\ more \in Seq(Trades) /\ e \in Int
      BY <1>2, <1>6, <2>1, <2>3
    <3> QED
      BY <2>5, <3>1, RunEnds, Zenon
  <2>7. SubSeq(more, n, e) = SubSeq(trades, n, e)
    BY <1>1, <1>2, <2>1, <2>3
  <2> QED
    BY <2>2, <2>4, <2>6, <2>7
<1> QED
  BY <1>6, <1>7, <1>8, <1>9 DEF RunBegun

\* A run is made of trades, and of one at least.
LEMMA RunTypes ==
  ASSUME NEW trades \in Seq(Trades), NEW i, NEW n \in Turns(trades, i)
  PROVE  Run(trades, i, n) \in Seq(Trades) /\ Run(trades, i, n) # <<>>
<1>1. PICK e \in n .. Len(trades) : RunEnd(trades, i, n, e)
  BY RunEnds
<1>2. n \in 1 .. Len(trades)
  BY DEF Turns
<1>3. Run(trades, i, n) = SubSeq(trades, n, e)
  BY <1>1, <1>2, RunEnds
<1>4. SubSeq(trades, n, e) \in Seq(Trades) /\ Len(SubSeq(trades, n, e)) = e - n + 1
  BY <1>1, <1>2
<1>5. e - n + 1 > 0
  BY <1>1, <1>2
<1>6. PICK r : r = Run(trades, i, n) /\ r \in Seq(Trades) /\ Len(r) = e - n + 1
  BY <1>3, <1>4, Zenon
<1>7. Len(r) # 0
  BY <1>5, <1>6
<1>8. r # <<>>
  BY <1>7
<1> QED
  BY <1>6, <1>8, Zenon

\* A candle c of a run of trades in the period that begins at time t.
CandleTold(run, t, over, c) ==
  Summed(run, c) /\ c.openTime = t /\ (c.closed <=> over)

\* The candles arr of an interval i match the trades: the newest runs, each
\* counted from the end, and the last candle is that of the last trade's period.
Told(trades, arr, i) ==
  /\ Len(arr) = Lower(KeepCandles, Cardinality(Turns(trades, i)))
  /\ arr = <<>> <=> trades = <<>>
  /\ trades # <<>> => arr[Len(arr)].openTime = Period(trades[Len(trades)].time, i)
  /\ \A n \in Turns(trades, i), k \in 1 .. Len(arr) :
       k = Len(arr) - Cardinality(After(trades, i, n)) =>
         CandleTold(Run(trades, i, n), Period(trades[n].time, i), k < Len(arr), arr[k])

\* The candle r is c after one more trade.
Grown(c, p, q, r) ==
  /\ r.openTime = c.openTime /\ r.open = c.open /\ r.close = p
  /\ r.high = Higher(c.high, p) /\ r.low = Lower(c.low, p)
  /\ r.volume = c.volume + q /\ r.closed = c.closed

\* The candle s is c closed.
Over(c, s) ==
  /\ s.openTime = c.openTime /\ s.open = c.open /\ s.close = c.close
  /\ s.high = c.high /\ s.low = c.low /\ s.volume = c.volume /\ s.closed = TRUE

\* A candle that grows by a trade, and one that is closed.
LEMMA CandleFields ==
  ASSUME NEW c \in CandleTypes, NEW p, NEW q
  PROVE  Grown(c, p, q, Extended(c, p, q)) /\ Over(c, [c EXCEPT !.closed = TRUE])
<1> DEFINE r == Extended(c, p, q)
           s == [c EXCEPT !.closed = TRUE]
<1>1. PICK h, l, v : h = Higher(c.high, p) /\ l = Lower(c.low, p) /\ v = c.volume + q
  OBVIOUS
<1>2. r = [c EXCEPT !.high = h, !.low = l, !.close = p, !.volume = v]
  BY <1>1 DEF Extended
<1>3. /\ r.openTime = c.openTime /\ r.open = c.open /\ r.close = p
      /\ r.high = h /\ r.low = l /\ r.volume = v /\ r.closed = c.closed
  BY <1>2 DEF CandleTypes
<1>4. /\ s.openTime = c.openTime /\ s.open = c.open /\ s.close = c.close
      /\ s.high = c.high /\ s.low = c.low /\ s.volume = c.volume /\ s.closed = TRUE
  BY DEF CandleTypes
<1> QED
  BY <1>1, <1>3, <1>4 DEF Grown, Over

\* A trade in the period of the last candle keeps the candles true.
LEMMA GrowingKeepsTold ==
  ASSUME NEW i \in Intervals, NEW x \in Trades, x.time = clock,
         NEW trades \in Seq(Trades), NEW arr \in Seq(CandleTypes),
         NEW new \in Seq(CandleTypes), NEW more, more = Append(trades, x),
         Told(trades, arr, i), arr # <<>>, arr[Len(arr)].openTime = Period(clock, i),
         GrownLast(arr, x.price, x.qty, new)
  PROVE  Told(more, new, i)
<1>1. PICK l \in Nat \ {0} :
        /\ l = Len(arr) /\ Len(new) = l
        /\ new[l] = Extended(arr[l], x.price, x.qty)
        /\ \A y \in 1 .. l - 1 : new[y] = arr[y]
  <2>1. Len(arr) \in Nat \ {0}
    OBVIOUS
  <2> QED
    BY <2>1, Zenon DEF GrownLast
<1>2. /\ x.price \in Prices /\ x.qty \in Quantities /\ arr[l] \in CandleTypes
      /\ new # <<>> /\ more # <<>> /\ more \in Seq(Trades) /\ trades # <<>>
      /\ more[Len(more)] = x /\ \A n \in 1 .. Len(trades) : more[n] = trades[n]
  <2>1. x.price \in Prices /\ x.qty \in Quantities
    BY DEF Trades
  <2>2. arr[l] \in CandleTypes /\ new # <<>>
    BY <1>1
  <2>3. /\ more # <<>> /\ more \in Seq(Trades) /\ more[Len(more)] = x
        /\ \A n \in 1 .. Len(trades) : more[n] = trades[n]
    OBVIOUS
  <2>4. trades # <<>>
    BY DEF Told
  <2> QED
    BY <2>1, <2>2, <2>3, <2>4
<1>3. Period(x.time, i) = Period(trades[Len(trades)].time, i)
  BY <1>2 DEF Told
<1>4. /\ Turns(more, i) = Turns(trades, i)
      /\ \A n : After(more, i, n) = After(trades, i, n)
      /\ \A n \in Turns(trades, i) :
           Run(more, i, n) = IF After(trades, i, n) = {}
                                    THEN Append(Run(trades, i, n), x)
                                    ELSE Run(trades, i, n)
  <2>1. LastGrown(trades, x, more, i)
    BY <1>2, <1>3, RunGrows
  <2> QED
    BY <2>1 DEF LastGrown
<1>5. PICK c, r : c = arr[l] /\ r = new[l]
  OBVIOUS
<1>6. /\ r.openTime = c.openTime /\ r.open = c.open /\ r.close = x.price
      /\ r.high = Higher(c.high, x.price) /\ r.low = Lower(c.low, x.price)
      /\ r.volume = c.volume + x.qty /\ r.closed = c.closed
  <2>1. c \in CandleTypes /\ r = Extended(c, x.price, x.qty)
    BY <1>1, <1>2, <1>5
  <2>2. Grown(c, x.price, x.qty, r)
    BY <2>1, CandleFields, Zenon
  <2> QED
    BY <2>2 DEF Grown
<1>7. ASSUME NEW n \in Turns(trades, i), NEW k \in 1 .. l,
             k = l - Cardinality(After(trades, i, n))
      PROVE  CandleTold(Run(more, i, n), Period(more[n].time, i), k < l, new[k])
  <2>1. PICK run, t : run = Run(trades, i, n) /\ t = Period(trades[n].time, i)
    OBVIOUS
  <2>2. CandleTold(run, t, k < l, arr[k])
    BY <1>1, <1>7, <2>1 DEF Told
  <2>3. t = Period(more[n].time, i)
    <3>1. n \in 1 .. Len(trades)
      BY TurnsFinite
    <3> QED
      BY <1>2, <2>1, <3>1
  <2>4. PICK A : A = After(trades, i, n)
    OBVIOUS
  <2>5. Cardinality(A) \in Nat /\ (A = {} <=> Cardinality(A) = 0)
    BY <2>4, TurnsFinite
  <2>6. CASE A = {}
    <3>1. k = l
      BY <1>7, <2>4, <2>5, <2>6
    <3>2. Summed(run, c) /\ c.openTime = t /\ (c.closed <=> k < l)
      BY <1>5, <2>2, <3>1 DEF CandleTold
    <3>3. run \in Seq(Trades) /\ run # <<>>
      BY <2>1, RunTypes
    <3>4. Summed(Append(run, x), r)
      <4>1. r.open = c.open /\ r.close = x.price /\ r.high = Higher(c.high, x.price)
            /\ r.low = Lower(c.low, x.price) /\ r.volume = c.volume + x.qty
        BY <1>6
      <4> QED
        BY <3>2, <3>3, <4>1, SummaryMore, Zenon
    <3>5. Run(more, i, n) = Append(run, x)
      BY <1>4, <2>1, <2>4, <2>6
    <3>6. CandleTold(Append(run, x), t, k < l, r)
      BY <1>6, <3>2, <3>4 DEF CandleTold
    <3> QED
      BY <1>5, <2>3, <3>1, <3>5, <3>6
  <2>7. CASE A # {}
    <3>1. k \in 1 .. l - 1
      BY <1>7, <2>4, <2>5, <2>7
    <3>2. new[k] = arr[k]
      BY <1>1, <3>1
    <3>3. Run(more, i, n) = run
      BY <1>4, <2>1, <2>4, <2>7
    <3> QED
      BY <2>2, <2>3, <3>2, <3>3
  <2> QED
    BY <2>6, <2>7
<1>8. r.openTime = Period(clock, i)
  BY <1>1, <1>5, <1>6
<1>9. Len(new) = Lower(KeepCandles, Cardinality(Turns(more, i)))
  BY <1>1, <1>4 DEF Told
<1>10. ASSUME NEW n \in Turns(more, i), NEW k \in 1 .. Len(new),
              k = Len(new) - Cardinality(After(more, i, n))
       PROVE  CandleTold(Run(more, i, n), Period(more[n].time, i), k < Len(new), new[k])
  <2>1. n \in Turns(trades, i) /\ Len(new) = l
    BY <1>1, <1>4
  <2>2. k \in 1 .. l /\ k = l - Cardinality(After(trades, i, n))
    BY <1>4, <1>10, <2>1
  <2> QED
    BY <1>7, <2>1, <2>2
<1>11. new[Len(new)].openTime = Period(more[Len(more)].time, i)
  BY <1>1, <1>2, <1>5, <1>8
<1> QED
  BY <1>2, <1>9, <1>10, <1>11 DEF Told

\* Counted from the end, a candle keeps its place when one is added.
LEMMA Shifted ==
  ASSUME NEW l \in Int, NEW m \in Int, NEW a \in Int
  PROVE  (m - (a + 1)) + (l + (1 - m)) = l - a
  OBVIOUS

\* A trade in another period keeps the candles true: the last one is closed, its
\* own is added, and the oldest may have to go.
LEMMA BeginningKeepsTold ==
  ASSUME NEW i \in Intervals, NEW x \in Trades, x.time = clock,
         NEW trades \in Seq(Trades), NEW arr \in Seq(CandleTypes),
         NEW new \in Seq(CandleTypes), NEW more, more = Append(trades, x),
         Told(trades, arr, i), new # <<>>,
         arr # <<>> => arr[Len(arr)].openTime # Period(clock, i),
         NEW d \in Nat, NewLast(arr, i, x.price, x.qty, new, d)
  PROVE  Told(more, new, i)
<1> USE DEF NewLast
<1>1. PICK l \in Nat, m \in Nat \ {0}, g \in Nat \ {0} :
        l = Len(arr) /\ m = Len(new) /\ g = Len(trades) + 1
  <2>1. Len(arr) \in Nat /\ Len(trades) + 1 \in Nat \ {0}
    OBVIOUS
  <2>2. Len(new) \in Nat /\ Len(new) # 0
    OBVIOUS
  <2> QED
    BY <2>1, <2>2, Zenon
<1>2. /\ x.price \in Prices /\ x.qty \in Quantities /\ more # <<>> /\ more \in Seq(Trades)
      /\ Len(more) = g /\ more[g] = x /\ \A n \in 1 .. g - 1 : more[n] = trades[n]
  <2>1. PICK h \in Nat : h = Len(trades) /\ g = h + 1
    <3>1. Len(trades) \in Nat
      OBVIOUS
    <3> QED
      BY <1>1, <3>1, Zenon
  <2>2. /\ Len(more) = h + 1 /\ more[h + 1] = x /\ \A n \in 1 .. h : more[n] = trades[n]
        /\ more # <<>> /\ more \in Seq(Trades)
    BY <2>1
  <2>3. \A n \in 1 .. g - 1 : n \in 1 .. h
    BY <2>1
  <2>4. x.price \in Prices /\ x.qty \in Quantities
    BY DEF Trades
  <2> QED
    BY <2>1, <2>2, <2>3, <2>4, Zenon
<1>3. trades # <<>> => Period(x.time, i) # Period(trades[Len(trades)].time, i)
  BY DEF Told
<1>4. /\ g \notin Turns(trades, i)
      /\ Turns(more, i) = Turns(trades, i) \cup {g}
      /\ After(more, i, g) = {} /\ Run(more, i, g) = <<x>>
      /\ \A n \in Turns(trades, i) :
           /\ After(more, i, n) = After(trades, i, n) \cup {g}
           /\ Run(more, i, n) = Run(trades, i, n)
  <2>1. RunBegun(trades, x, more, i, g)
    BY <1>1, <1>3, RunBegins
  <2> QED
    BY <2>1 DEF RunBegun
<1>5. /\ Cardinality(Turns(trades, i)) \in Nat
      /\ Cardinality(Turns(more, i)) = Cardinality(Turns(trades, i)) + 1
  <2>1. PICK T : T = Turns(trades, i)
    OBVIOUS
  <2>2. IsFiniteSet(T) /\ Cardinality(T) \in Nat /\ g \notin T
    BY <1>4, <2>1, TurnsFinite
  <2>3. Cardinality(T \cup {g}) = Cardinality(T) + 1
    BY <2>2, FS_AddElement
  <2> QED
    BY <1>4, <2>1, <2>2, <2>3
<1>6. ASSUME NEW n \in Turns(trades, i)
      PROVE  /\ Cardinality(After(trades, i, n)) \in Nat
             /\ Cardinality(After(more, i, n)) = Cardinality(After(trades, i, n)) + 1
  <2>1. PICK A : A = After(trades, i, n)
    OBVIOUS
  <2>2. IsFiniteSet(A) /\ Cardinality(A) \in Nat /\ g \notin A
    <3>1. A \subseteq Turns(trades, i)
      BY <2>1 DEF After
    <3> QED
      BY <1>4, <2>1, <3>1, TurnsFinite
  <2>3. Cardinality(A \cup {g}) = Cardinality(A) + 1
    BY <2>2, FS_AddElement
  <2> QED
    BY <1>4, <2>1, <2>2, <2>3
<1>7. Len(new) = Lower(KeepCandles, Cardinality(Turns(more, i)))
  <2>1. PICK a \in Nat, k \in Nat \ {0} :
          a = Cardinality(Turns(trades, i)) /\ k = KeepCandles
    BY <1>5, MarketNumbers
  <2>2. l = Lower(k, a) /\ m = Lower(k, l + 1)
    BY <1>1, <2>1 DEF Told
  <2>3. m = Lower(k, a + 1)
    BY <2>2 DEF Lower
  <2> QED
    BY <1>1, <1>5, <2>1, <2>3
<1>8. PICK r : /\ r = new[m] /\ r.openTime = Period(clock, i) /\ r.open = x.price
               /\ r.high = x.price /\ r.low = x.price /\ r.close = x.price
               /\ r.volume = x.qty /\ r.closed = FALSE
  BY <1>1 DEF NewCandle, OpenTime, Period
<1>9. d = l + 1 - m /\ m + d = l + 1
  BY <1>1
<1>10. CandleTold(Run(more, i, g), Period(more[g].time, i), m < m, new[m])
  <2>1. Summed(<<x>>, r)
    BY <1>8, SummaryOne, Zenon
  <2>2. r.openTime = Period(more[g].time, i) /\ (r.closed <=> m < m)
    BY <1>2, <1>8
  <2>3. CandleTold(<<x>>, Period(more[g].time, i), m < m, r)
    BY <2>1, <2>2 DEF CandleTold
  <2> QED
    BY <1>4, <1>8, <2>3
<1>11. ASSUME NEW n \in Turns(trades, i), NEW k \in 1 .. m,
              k = m - Cardinality(After(more, i, n))
       PROVE  CandleTold(Run(more, i, n), Period(more[n].time, i), k < m, new[k])
  <2>1. PICK a \in Nat : /\ a = Cardinality(After(trades, i, n)) /\ k = m - (a + 1)
    BY <1>6, <1>11
  <2>2. PICK j \in 1 .. l : j = k + d /\ k \in 1 .. m - 1 /\ k < m
    <3>1. k \in 1 .. m - 1
      BY <2>1
    <3> QED
      BY <1>1, <3>1
  <2>3. j = l - a
    <3>1. j = k + d /\ k = m - (a + 1) /\ d = l + (1 - m)
      BY <1>9, <2>1, <2>2
    <3>2. j = (m - (a + 1)) + (l + (1 - m))
      BY <3>1, Zenon
    <3>3. (m - (a + 1)) + (l + (1 - m)) = l - a
      BY Shifted
    <3> QED
      BY <3>2, <3>3, Zenon
  <2>4. PICK run, t, c : /\ run = Run(trades, i, n)
                         /\ t = Period(trades[n].time, i) /\ c = arr[j]
    OBVIOUS
  <2>5. CandleTold(run, t, j < l, c)
    BY <1>1, <2>1, <2>3, <2>4 DEF Told
  <2>6. Run(more, i, n) = run /\ Period(more[n].time, i) = t
    <3>1. n \in 1 .. g - 1
      BY <1>1, TurnsFinite
    <3> QED
      BY <1>2, <1>4, <2>4, <3>1
  <2>7. CASE j < l
    <3>1. new[k] = c
      BY <1>1, <2>2, <2>4, <2>7
    <3>2. CandleTold(run, t, k < m, c)
      BY <2>2, <2>5, <2>7 DEF CandleTold
    <3> QED
      BY <2>6, <3>1, <3>2
  <2>8. CASE j = l
    <3>1. c \in CandleTypes
      BY <1>1, <2>4
    <3>2. PICK s : s = [c EXCEPT !.closed = TRUE]
      OBVIOUS
    <3>3. Over(c, s)
      BY <3>1, <3>2, CandleFields
    <3>4. CandleTold(run, t, k < m, s)
      BY <2>2, <2>5, <3>3 DEF CandleTold, Summed, Over
    <3>5. new[k] = s
      BY <1>1, <2>2, <2>4, <2>8, <3>2
    <3> QED
      BY <2>6, <3>4, <3>5
  <2>9. j < l \/ j = l
    OBVIOUS
  <2> QED
    BY <2>7, <2>8, <2>9
<1>12. ASSUME NEW n \in Turns(more, i), NEW k \in 1 .. Len(new),
              k = Len(new) - Cardinality(After(more, i, n))
       PROVE  CandleTold(Run(more, i, n), Period(more[n].time, i), k < Len(new), new[k])
  <2>1. CASE n = g
    <3>1. k = m
      <4>1. Cardinality(After(more, i, n)) = 0
        BY <1>4, <2>1, FS_EmptySet
      <4>2. k = m - 0
        BY <1>1, <1>12, <4>1, Zenon
      <4> QED
        BY <4>2
    <3> QED
      BY <1>1, <1>10, <2>1, <3>1
  <2>2. CASE n \in Turns(trades, i)
    BY <1>1, <1>11, <1>12, <2>2
  <2> QED
    BY <1>4, <2>1, <2>2
<1>13. new[Len(new)].openTime = Period(more[Len(more)].time, i)
  BY <1>1, <1>2, <1>8
<1> QED
  BY <1>2, <1>7, <1>12, <1>13 DEF Told

\* Types of the state, and how much of the trades is kept.
MarketTypes ==
  /\ clock \in 0 .. MaxClock /\ setBacks \in 0 .. MaxSetBacks
  /\ seen \in Seq(Trades)
  /\ ticker \in Seq(TickerTypes) /\ Len(ticker) <= 1
  /\ recent \in Seq(Trades) /\ Len(recent) <= KeepTrades
  /\ candles \in [Intervals -> Seq(CandleTypes)]
  /\ \A i \in Intervals : Len(candles[i]) <= KeepCandles

\* What a ticker says of the trades.
Telling(t) == [open |-> t.open, close |-> t.last, high |-> t.high, low |-> t.low,
               volume |-> t.volume]

\* There is a ticker as soon as there are trades, and it tells all of them.
TickerTold ==
  IF seen = <<>> THEN ticker = <<>>
  ELSE ticker # <<>> /\ Summed(seen, Telling(ticker[1]))

\* Every interval's candles match the trades.
CandlesTold == \A i \in Intervals : Told(seen, candles[i], i)

MarketInv == MarketTypes /\ TickerTold /\ CandlesTold

\* A sum that is too great is not added: the quote volume remains an int64.
LEMMA QuoteAdded ==
  ASSUME NEW p \in Prices, NEW q \in Quantities, NEW v \in 0 .. MaxInt
  PROVE  SafeAddQuote(v, p, q) \in 0 .. MaxInt
<1>1. p \in Nat /\ q \in Nat /\ MaxInt \in Nat
  BY MarketNumbers
<1>2. PICK w : w = p * q
  OBVIOUS
<1>3. w \in Nat
  BY <1>1, <1>2
<1>4. SafeAddQuote(v, p, q) = IF w > MaxInt \/ v + w > MaxInt THEN v ELSE v + w
  BY <1>2 DEF SafeAddQuote
<1> QED
  BY <1>1, <1>3, <1>4

\* The first ticker, and the next one.
LEMMA TickerFields ==
  ASSUME NEW p \in Prices, NEW q \in Quantities,
         NEW t \in TickerTypes
  PROVE  /\ FirstTicker(p, q) \in TickerTypes
         /\ Telling(FirstTicker(p, q)) =
              [open |-> p, close |-> p, high |-> p, low |-> p, volume |-> q]
         /\ NextTicker(t, p, q) \in TickerTypes
         /\ Telling(NextTicker(t, p, q)) =
              [open |-> t.open, close |-> p, high |-> Higher(t.high, p),
               low |-> Lower(t.low, p), volume |-> t.volume + q]
<1>1. /\ q \in Nat /\ 0 \in 0 .. MaxInt
      /\ t.open \in Prices /\ t.high \in Prices /\ t.low \in Prices /\ t.volume \in Nat
      /\ t.quoteVolume \in 0 .. MaxInt
  BY MarketNumbers DEF TickerTypes
<1>2. PICK w \in 0 .. MaxInt : w = SafeAddQuote(0, p, q)
  BY <1>1, QuoteAdded
<1>3. FirstTicker(p, q) =
        [open |-> p, last |-> p, high |-> p, low |-> p, volume |-> q, quoteVolume |-> w]
  BY <1>2 DEF FirstTicker
<1>4. /\ FirstTicker(p, q) \in TickerTypes
      /\ Telling(FirstTicker(p, q)) =
           [open |-> p, close |-> p, high |-> p, low |-> p, volume |-> q]
  BY <1>1, <1>3 DEF TickerTypes, Telling
<1>5. /\ Higher(t.high, p) \in Prices /\ Lower(t.low, p) \in Prices
      /\ t.volume + q \in Nat
  BY <1>1 DEF Higher, Lower
<1>6. PICK h \in Prices, l \in Prices, v \in Nat, z \in 0 .. MaxInt :
        /\ h = Higher(t.high, p) /\ l = Lower(t.low, p) /\ v = t.volume + q
        /\ z = SafeAddQuote(t.quoteVolume, p, q)
  BY <1>1, <1>5, QuoteAdded
<1>7. NextTicker(t, p, q) =
        [t EXCEPT !.last = p, !.high = h, !.low = l, !.volume = v, !.quoteVolume = z]
  BY <1>6 DEF NextTicker
<1>8. /\ NextTicker(t, p, q) \in TickerTypes
      /\ Telling(NextTicker(t, p, q)) =
           [open |-> t.open, close |-> p, high |-> h, low |-> l, volume |-> v]
  BY <1>7 DEF TickerTypes, Telling
<1> QED
  BY <1>4, <1>6, <1>8

\* The list of recent trades after a trade.
LEMMA RecentKept ==
  ASSUME NEW x \in Trades, NEW l \in Seq(Trades), Len(l) <= KeepTrades,
         NEW new, new = SubSeq(<<x>> \o l, 1, Lower(KeepTrades, Len(l) + 1))
  PROVE  new \in Seq(Trades) /\ Len(new) <= KeepTrades
<1>1. PICK k \in Nat \ {0} : k = KeepTrades
  BY MarketNumbers
<1>2. PICK m, n : m \in Nat /\ m = Len(l) /\ n = Lower(k, m + 1)
  OBVIOUS
<1>3. n \in 1 .. m + 1 /\ n <= k
  BY <1>1, <1>2 DEF Lower
<1>4. PICK all : all = <<x>> \o l
  OBVIOUS
<1>5. all \in Seq(Trades) /\ Len(all) = m + 1
  BY <1>2, <1>4
<1>6. new = SubSeq(all, 1, n)
  BY <1>1, <1>2, <1>4
<1>7. SubSeq(all, 1, n) \in Seq(Trades) /\ Len(SubSeq(all, 1, n)) = n
  BY <1>3, <1>5
<1> QED
  BY <1>1, <1>3, <1>6, <1>7

\* A trade keeps the candles of an interval true.
LEMMA CandlesKept ==
  ASSUME NEW i \in Intervals, NEW p \in Prices, NEW q \in Quantities,
         clock \in 0 .. MaxClock, NEW trades \in Seq(Trades), NEW x \in Trades,
         x.price = p, x.qty = q, x.time = clock,
         NEW arr \in Seq(CandleTypes), Len(arr) <= KeepCandles, Told(trades, arr, i)
  PROVE  /\ Aggregate(arr, i, p, q) \in Seq(CandleTypes)
         /\ Len(Aggregate(arr, i, p, q)) <= KeepCandles
         /\ Told(Append(trades, x), Aggregate(arr, i, p, q), i)
<1>1. PICK new, more : new = Aggregate(arr, i, p, q) /\ more = Append(trades, x)
  OBVIOUS
<1>2. /\ new \in Seq(CandleTypes) /\ Len(new) <= KeepCandles /\ new # <<>>
      /\ IF arr # <<>> /\ arr[Len(arr)].openTime = OpenTime(i)
         THEN GrownLast(arr, p, q, new)
         ELSE \E d \in Nat : NewLast(arr, i, p, q, new, d)
  BY <1>1, Aggregates
<1>3. OpenTime(i) = Period(clock, i)
  BY DEF OpenTime, Period
<1>4. CASE arr # <<>> /\ arr[Len(arr)].openTime = OpenTime(i)
  <2>1. GrownLast(arr, x.price, x.qty, new)
    BY <1>2, <1>4
  <2>2. Told(more, new, i)
    BY <1>1, <1>2, <1>3, <1>4, <2>1, GrowingKeepsTold
  <2> QED
    BY <1>1, <1>2, <2>2
<1>5. CASE ~(arr # <<>> /\ arr[Len(arr)].openTime = OpenTime(i))
  <2>1. PICK d \in Nat : NewLast(arr, i, x.price, x.qty, new, d)
    BY <1>2, <1>5
  <2>2. arr # <<>> => arr[Len(arr)].openTime # Period(clock, i)
    BY <1>3, <1>5
  <2>3. Told(more, new, i)
    BY <1>1, <1>2, <2>1, <2>2, BeginningKeepsTold
  <2> QED
    BY <1>1, <1>2, <2>3
<1> QED
  BY <1>4, <1>5

\* A trade keeps the ticker, the list and the candles true.
LEMMA OnTradeKeeps ==
  ASSUME MarketInv, NEW p \in Prices, NEW q \in Quantities,
         OnTrade(p, q)
  PROVE  MarketInv'
<1>1. PICK x : x = [price |-> p, qty |-> q, time |-> clock]
  OBVIOUS
<1>2. x \in Trades /\ x.price = p /\ x.qty = q /\ x.time = clock /\ clock \in 0 .. MaxClock
  BY <1>1 DEF MarketInv, MarketTypes, Trades
<1>3. /\ seen' = Append(seen, x)
      /\ recent' = SubSeq(<<x>> \o recent, 1, Lower(KeepTrades, Len(recent) + 1))
      /\ ticker' = IF ticker = <<>> THEN <<FirstTicker(p, q)>>
                                    ELSE <<NextTicker(ticker[1], p, q)>>
      /\ candles' = [i \in Intervals |-> Aggregate(candles[i], i, p, q)]
      /\ clock' = clock /\ setBacks' = setBacks
  BY <1>1 DEF OnTrade
<1>4. seen \in Seq(Trades) /\ seen' \in Seq(Trades) /\ seen' # <<>>
  BY <1>2, <1>3 DEF MarketInv, MarketTypes
<1>5. recent' \in Seq(Trades) /\ Len(recent') <= KeepTrades
  BY <1>2, <1>3, RecentKept DEF MarketInv, MarketTypes
<1>6. /\ ticker' \in Seq(TickerTypes) /\ Len(ticker') = 1 /\ ticker' # <<>>
      /\ Summed(seen', Telling(ticker'[1]))
  <2>1. CASE seen = <<>>
    <3>1. ticker = <<>> /\ seen' = <<x>>
      BY <1>3, <2>1 DEF MarketInv, TickerTold
    <3>2. PICK t : t = FirstTicker(p, q) /\ ticker' = <<t>>
      BY <1>3, <3>1
    <3>3. PICK s : s = [open |-> p, close |-> p, high |-> p, low |-> p, volume |-> q]
      OBVIOUS
    <3>4. t \in TickerTypes /\ Telling(t) = s
      <4>1. PICK u : u \in TickerTypes
        <5>1. q \in Nat /\ 0 \in 0 .. MaxInt
          BY MarketNumbers
        <5>2. [open |-> p, last |-> p, high |-> p, low |-> p, volume |-> q, quoteVolume |-> 0]
                \in TickerTypes
          BY <5>1 DEF TickerTypes
        <5> QED
          BY <5>2
      <4> QED
        BY <3>2, <3>3, <4>1, TickerFields
    <3>5. /\ s.open = x.price /\ s.close = x.price /\ s.high = x.price /\ s.low = x.price
          /\ s.volume = x.qty
      BY <1>2, <3>3
    <3>6. Summed(<<x>>, s)
      BY <1>2, <3>5, SummaryOne
    <3> QED
      BY <3>1, <3>2, <3>4, <3>6
  <2>2. CASE seen # <<>>
    <3>1. /\ ticker # <<>> /\ ticker[1] \in TickerTypes
          /\ Summed(seen, Telling(ticker[1]))
      BY <2>2 DEF MarketInv, MarketTypes, TickerTold
    <3>2. PICK t, u : /\ t = ticker[1] /\ u = NextTicker(t, p, q)
                      /\ ticker' = <<u>>
      BY <1>3, <3>1
    <3>3. PICK s : s = [open |-> t.open, close |-> p, high |-> Higher(t.high, p),
                        low |-> Lower(t.low, p), volume |-> t.volume + q]
      OBVIOUS
    <3>4. u \in TickerTypes /\ Telling(u) = s
      BY <3>1, <3>2, <3>3, TickerFields
    <3>5. PICK b : b = Telling(t)
      OBVIOUS
    <3>6. /\ b.open = t.open /\ b.high = t.high /\ b.low = t.low /\ b.volume = t.volume
      BY <3>5 DEF Telling
    <3>7. /\ s.open = b.open /\ s.close = x.price /\ s.high = Higher(b.high, x.price)
          /\ s.low = Lower(b.low, x.price) /\ s.volume = b.volume + x.qty
      BY <1>2, <3>3, <3>6
    <3>8. Summed(Append(seen, x), s)
      BY <1>2, <1>4, <2>2, <3>1, <3>2, <3>5, <3>7, SummaryMore
    <3> QED
      BY <1>3, <3>2, <3>4, <3>8
  <2> QED
    BY <2>1, <2>2
<1>7. ASSUME NEW i \in Intervals
      PROVE  /\ candles'[i] \in Seq(CandleTypes) /\ Len(candles'[i]) <= KeepCandles
             /\ Told(seen', candles'[i], i)
  <2>1. PICK arr : arr = candles[i]
    OBVIOUS
  <2>2. /\ arr \in Seq(CandleTypes) /\ Len(arr) <= KeepCandles /\ Told(seen, arr, i)
    BY <2>1 DEF MarketInv, MarketTypes, CandlesTold
  <2>3. candles'[i] = Aggregate(arr, i, p, q)
    BY <1>3, <2>1
  <2> QED
    BY <1>2, <1>3, <1>4, <2>2, <2>3, CandlesKept
<1>8. candles' \in [Intervals -> Seq(CandleTypes)]
  <2>1. candles' = [i \in Intervals |-> candles'[i]]
    BY <1>3
  <2> QED
    BY <1>7, <2>1
<1>9. MarketTypes'
  <2>1. clock' \in 0 .. MaxClock /\ setBacks' \in 0 .. MaxSetBacks
    BY <1>3 DEF MarketInv, MarketTypes
  <2>2. ticker' \in Seq(TickerTypes) /\ Len(ticker') <= 1
    BY <1>6
  <2>3. \A i \in Intervals : Len(candles'[i]) <= KeepCandles
    BY <1>7
  <2> QED
    BY <1>4, <1>5, <1>8, <2>1, <2>2, <2>3 DEF MarketTypes
<1>10. TickerTold'
  <2>1. ticker' # <<>> /\ Summed(seen', Telling(ticker'[1]))
    BY <1>6
  <2> QED
    BY <1>4, <2>1 DEF TickerTold
<1>11. CandlesTold'
  BY <1>7 DEF CandlesTold
<1> QED
  BY <1>9, <1>10, <1>11 DEF MarketInv

\* What the exchange tells of its trades is true of them.
LEMMA MarketInvariance == MarketSpec => []MarketInv
<1>1. MarketInit => MarketInv
  <2> SUFFICES ASSUME MarketInit PROVE MarketInv
    OBVIOUS
  <2>1. KeepTrades \in Nat \ {0} /\ KeepCandles \in Nat \ {0} /\ MaxClock \in Nat /\ MaxSetBacks \in Nat
    BY MarketAssumption DEF MarketParameters
  <2>2. clock = 0 /\ setBacks = 0 /\ ticker = <<>> /\ recent = <<>> /\ seen = <<>>
        /\ candles = [i \in Intervals |-> <<>>]
    BY DEF MarketInit
  <2>3. MarketTypes
    BY <2>1, <2>2 DEF MarketTypes
  <2>4. ASSUME NEW i \in Intervals PROVE Told(<<>>, <<>>, i)
    <3>1. Turns(<<>>, i) = {}
      BY DEF Turns
    <3>2. Lower(KeepCandles, 0) = 0
      BY <2>1 DEF Lower
    <3> QED
      BY <3>1, <3>2, FS_EmptySet DEF Told
  <2> QED
    BY <2>2, <2>3, <2>4 DEF MarketInv, TickerTold, CandlesTold
<1>2. MarketInv /\ [MarketNext]_marketVars => MarketInv'
  <2> SUFFICES ASSUME MarketInv, [MarketNext]_marketVars PROVE MarketInv'
    OBVIOUS
  <2>1. ASSUME UNCHANGED <<ticker, recent, candles, seen>>,
               clock' \in 0 .. MaxClock, setBacks' \in 0 .. MaxSetBacks
        PROVE  MarketInv'
    BY <2>1 DEF MarketInv, MarketTypes, TickerTold, CandlesTold
  <2>2. clock \in 0 .. MaxClock /\ setBacks \in 0 .. MaxSetBacks /\ MaxClock \in Nat /\ MaxSetBacks \in Nat
    BY MarketAssumption DEF MarketInv, MarketTypes, MarketParameters
  <2>3. CASE ClockAdvances
    BY <2>1, <2>2, <2>3 DEF ClockAdvances
  <2>4. CASE SetBack
    BY <2>1, <2>2, <2>4 DEF SetBack
  <2>5. ASSUME NEW p \in Prices, NEW q \in Quantities, OnTrade(p, q) PROVE MarketInv'
    BY <2>5, OnTradeKeeps
  <2>6. CASE UNCHANGED marketVars
    BY <2>1, <2>2, <2>6 DEF marketVars
  <2> QED
    BY <2>3, <2>4, <2>5, <2>6 DEF MarketNext
<1> QED
  BY <1>1, <1>2, PTL DEF MarketSpec

\* Types, and the lists keep to their lengths; the quote volume, built of
\* products that may be too great, never leaves the range of an int64.
THEOREM MarketTypeCorrect == MarketSpec => []MarketTypeOK
<1>1. MarketInv => MarketTypeOK
  BY DEF MarketInv, MarketTypes, MarketTypeOK, Range
<1> QED
  BY <1>1, MarketInvariance, PTL

\* The ticker tells all trades since the start, though candles and the list of
\* recent trades drop them.
THEOREM TickerMatchesTradesSafe == MarketSpec => []TickerMatchesTrades
<1>1. MarketInv => TickerMatchesTrades
  <2> SUFFICES ASSUME MarketInv, seen # <<>>
               PROVE  LET s == Summary(seen)
                          t == ticker[1]
                      IN  <<t.open, t.last, t.high, t.low, t.volume>> =
                          <<s.open, s.close, s.high, s.low, s.volume>>
    BY DEF TickerMatchesTrades
  <2>1. PICK b : b = Telling(ticker[1])
    OBVIOUS
  <2>2. seen \in Seq(Trades) /\ Summed(seen, b)
    BY <2>1 DEF MarketInv, MarketTypes, TickerTold
  <2>3. PICK r : /\ r = Summary(seen)
                 /\ r.open = b.open /\ r.close = b.close /\ r.high = b.high /\ r.low = b.low
                 /\ r.volume = b.volume
    BY <2>2, SummaryIs
  <2> QED
    BY <2>1, <2>3 DEF Telling
<1> QED
  BY <1>1, MarketInvariance, PTL

\* The candles of every interval are the newest runs of trades in one period,
\* in order: however the clock is set back, no trade is counted in a candle of
\* another period, or twice, or not at all.
THEOREM CandlesMatchTradesSafe == MarketSpec => []CandlesMatchTrades
<1>1. MarketInv => CandlesMatchTrades
  <2> SUFFICES ASSUME MarketInv, NEW i \in Intervals
               PROVE  LET arr == candles[i] IN
                      /\ Len(arr) = Lower(KeepCandles, Cardinality(Turns(seen, i)))
                      /\ \A n \in Turns(seen, i) :
                           LET k == Len(arr) - Cardinality(After(seen, i, n))
                               c == arr[k]
                               s == Summary(Run(seen, i, n))
                           IN  k > 0 =>
                                 /\ <<c.open, c.close, c.high, c.low, c.volume>> =
                                    <<s.open, s.close, s.high, s.low, s.volume>>
                                 /\ c.openTime = Period(seen[n].time, i)
                                 /\ c.closed <=> k < Len(arr)
    BY DEF CandlesMatchTrades
  <2>1. PICK arr : arr = candles[i]
    OBVIOUS
  <2>2. /\ arr \in Seq(CandleTypes) /\ seen \in Seq(Trades) /\ Told(seen, arr, i)
    BY <2>1 DEF MarketInv, MarketTypes, CandlesTold
  <2>3. Len(arr) = Lower(KeepCandles, Cardinality(Turns(seen, i)))
    BY <2>2 DEF Told
  <2>4. ASSUME NEW n \in Turns(seen, i), NEW k,
               k = Len(arr) - Cardinality(After(seen, i, n)), k > 0,
               NEW c, c = arr[k], NEW s, s = Summary(Run(seen, i, n))
        PROVE  /\ <<c.open, c.close, c.high, c.low, c.volume>> =
                  <<s.open, s.close, s.high, s.low, s.volume>>
               /\ c.openTime = Period(seen[n].time, i)
               /\ c.closed <=> k < Len(arr)
    <3>1. PICK a \in Nat : a = Cardinality(After(seen, i, n)) /\ k = Len(arr) - a
      BY <2>2, <2>4, TurnsFinite
    <3>2. k \in 1 .. Len(arr)
      BY <2>2, <2>4, <3>1
    <3>3. PICK run : run = Run(seen, i, n)
      OBVIOUS
    <3>4. CandleTold(run, Period(seen[n].time, i), k < Len(arr), c)
      BY <2>2, <2>4, <3>1, <3>2, <3>3 DEF Told
    <3>5. run \in Seq(Trades)
      BY <2>2, <3>3, RunTypes
    <3>6. /\ s.open = c.open /\ s.close = c.close /\ s.high = c.high /\ s.low = c.low
          /\ s.volume = c.volume
      BY <2>4, <3>3, <3>4, <3>5, SummaryIs DEF CandleTold
    <3> QED
      BY <3>4, <3>6 DEF CandleTold
  <2> QED
    BY <2>1, <2>3, <2>4
<1> QED
  BY <1>1, MarketInvariance, PTL
==============================================================================

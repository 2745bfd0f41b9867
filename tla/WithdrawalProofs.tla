--------------------------- MODULE WithdrawalProofs ---------------------------
(***************************************************************************)
(* What withdrawals promise for any users, amounts, fees, scales, prices   *)
(* and failures of the node: where its transactions are whatever overlaps, *)
(* and where the money is as long as the calls for one withdrawal do not.  *)
(***************************************************************************)
EXTENDS Withdrawal, Arithmetic

Sent == {"BROADCAST", "SUCCESS"}

\* Places of a caller that has signed a transaction.
Sending == {"broadcast", "sent", "hash"}

\* A transaction that is ready to be sent is for the withdrawal it was signed
\* for, and the node numbers those it has.
Signed ==
  /\ \A w \in Ids, c \in Callers :
       at[w][c] \in Sending => draft[w][c] # NoTx /\ draft[w][c].id = w
  /\ Len(txs) <= MaxTxs
  /\ kind = "evm" => \A i \in DOMAIN txs : txs[i].nonce + 1 = i

\* What has been sent is under way, and its hash is kept or about to be.
SentUnderway ==
  /\ \A w \in Ids, c \in Callers : at[w][c] \in {"sent", "hash"} => Among(txs, draft[w][c])
  /\ \A w \in Ids : txHash[w] # NoTx => Among(txs, txHash[w])
  /\ \A w \in Ids : asking[w] # NoTx => txHash[w] # NoTx
  /\ \A w \in Ids : status[w] \in Sent => txHash[w] # NoTx \/ \E c \in Callers : at[w][c] = "hash"

\* The invariant that needs nothing of the callers.
Always == TypeOK /\ Signed /\ SentUnderway

------------------------------------------------------------------------------
\* Is the request or the reviewer of w at one of these places?
In(w, S) == at[w]["request"] \in S \/ at[w]["reviewer"] \in S

\* Where the request and the reviewer of w can be, one after the other, and what
\* is known of w there.
OrderlyAt(w) ==
  /\ at[w]["request"] \notin {"reject", "release", "releaseFee", "mark"}
  /\ at[w]["reviewer"] \notin {"fee", "rollback", "store"}
  /\ at[w]["reviewer"] # "idle" => at[w]["request"] = "done" /\ status[w] # "NONE"
  /\ at[w]["request"] \in {"idle", "fee", "rollback", "store"} => status[w] = "NONE"
  /\ at[w]["request"] = "approve" => status[w] = "PENDING"
  /\ In(w, {"sign", "broadcast", "sent", "release", "releaseFee", "mark"}) => status[w] = "PENDING"
  /\ In(w, {"hash", "consume", "consumeFee"}) => status[w] \in Sent
  /\ txHash[w] # NoTx => status[w] \in Sent
  /\ In(w, {"fee", "rollback", "consumeFee", "releaseFee"}) => Fee > 0
  /\ at[w]["request"] # "idle" => amount[w] > 0

Orderly == \A w \in Ids : OrderlyAt(w)

\* What is frozen for w, and what the books have lost for it.
Held(w) ==
  IF In(w, {"fee", "rollback"}) THEN amount[w]
  ELSE IF In(w, {"consumeFee", "releaseFee"}) THEN Fee
  ELSE IF In(w, {"store", "hash", "consume"}) \/ (status[w] = "PENDING" /\ ~In(w, {"mark"}))
  THEN Charge(w)
  ELSE 0

Used(w) == IF status[w] \in Sent THEN Charge(w) - Held(w) ELSE 0

HeldBy == [w \in Ids |-> Held(w)]
UsedBy == [w \in Ids |-> Used(w)]
Own(u) == {w \in Ids : Owner[w] = u}

\* Nothing happens to another withdrawal.
Only(w) ==
  \A x \in Ids \ {w} :
    at'[x] = at[x] /\ status'[x] = status[x] /\ amount'[x] = amount[x] /\ txHash'[x] = txHash[x]

\* The books agree with the places.
Booked ==
  /\ \A u \in Users :
       /\ bal[u][Coin].frozen = SumFunctionOnSet(HeldBy, Own(u))
       /\ Total(bal, u, Coin) + SumFunctionOnSet(UsedBy, Own(u)) = Total(Deposits, u, Coin)
  /\ Supply(bal, Coin) + SumFunctionOnSet(UsedBy, Ids) = Supply(Deposits, Coin)

\* Has the node answered that it took a transaction of w?
Answered(w) == IF status[w] \in Sent \/ In(w, {"sent"}) THEN 1 ELSE 0

\* A withdrawal is in at most as many transactions as have been sent and
\* answered, or sent and not answered.
Counted ==
  \A w \in Ids :
    /\ Cardinality(TxsOf(w)) <= lost[w] + Answered(w)
    /\ status[w] = "NONE" => lost[w] = 0

\* The invariant of callers that do not overlap.
OneByOne == Orderly /\ Booked /\ Counted

------------------------------------------------------------------------------
(***************************************************************************)
(* Callers and balances                                                    *)
(***************************************************************************)

\* A caller goes from one place to another, and nobody else does.
LEMMA Gone ==
  ASSUME TypeOK, NEW w \in Ids, NEW c \in Callers, NEW from, NEW to \in Places,
         Goto(w, c, from, to)
  PROVE  /\ at' \in [Ids -> [Callers -> Places]]
         /\ at[w][c] = from /\ at'[w][c] = to
         /\ \A d \in Callers \ {c} : at'[w][d] = at[w][d]
         /\ \A x \in Ids \ {w} : at'[x] = at[x]
  BY DEF Goto, TypeOK

\* Freeze moves funds of one user from available to frozen.
LEMMA Freezes ==
  ASSUME NEW b \in BalanceTypes, NEW u \in Users, NEW a \in Assets, NEW q \in Nat,
         CanFreeze(b, u, a, q), NEW n, n = AfterFreeze(b, u, a, q)
  PROVE  /\ n \in BalanceTypes
         /\ n[u][a].frozen - b[u][a].frozen = q
         /\ Total(n, u, a) - Total(b, u, a) = 0
         /\ \A v \in Users \ {u} : n[v] = b[v]
<1>1. b[u][a].available \in Nat /\ b[u][a].frozen \in Nat
  BY DEF BalanceTypes
<1>2. /\ n \in BalanceTypes
      /\ n[u][a].available = b[u][a].available - q
      /\ n[u][a].frozen = b[u][a].frozen + q
      /\ \A v \in Users \ {u} : n[v] = b[v]
  BY DEF AfterFreeze, CanFreeze, BalanceTypes
<1> QED
  BY <1>1, <1>2 DEF Total

\* Unfreeze moves them back.
LEMMA Unfreezes ==
  ASSUME NEW b \in BalanceTypes, NEW u \in Users, NEW a \in Assets, NEW q \in Nat,
         CanRelease(b, u, a, q), NEW n, n = AfterUnfreeze(b, u, a, q)
  PROVE  /\ n \in BalanceTypes
         /\ n[u][a].frozen - b[u][a].frozen = -q
         /\ Total(n, u, a) - Total(b, u, a) = 0
         /\ \A v \in Users \ {u} : n[v] = b[v]
<1>1. b[u][a].available \in Nat /\ b[u][a].frozen \in Nat
  BY DEF BalanceTypes
<1>2. /\ n \in BalanceTypes
      /\ n[u][a].available = b[u][a].available + q
      /\ n[u][a].frozen = b[u][a].frozen - q
      /\ \A v \in Users \ {u} : n[v] = b[v]
  BY DEF AfterUnfreeze, CanRelease, BalanceTypes
<1> QED
  BY <1>1, <1>2 DEF Total

\* ConsumeFrozen takes them out of the books.
LEMMA Consumes ==
  ASSUME NEW b \in BalanceTypes, NEW u \in Users, NEW a \in Assets, NEW q \in Nat,
         CanRelease(b, u, a, q), NEW n, n = AfterConsume(b, u, a, q)
  PROVE  /\ n \in BalanceTypes
         /\ n[u][a].frozen - b[u][a].frozen = -q
         /\ Total(n, u, a) - Total(b, u, a) = -q
         /\ \A v \in Users \ {u} : n[v] = b[v]
<1>1. b[u][a].available \in Nat /\ b[u][a].frozen \in Nat
  BY DEF BalanceTypes
<1>2. b[u][a].frozen - q \in Nat
  BY <1>1 DEF CanRelease
<1>3. /\ n[u][a].available = b[u][a].available
      /\ n[u][a].frozen = b[u][a].frozen - q
      /\ \A v \in Users \ {u} : n[v] = b[v]
  BY DEF AfterConsume, BalanceTypes
<1>4. n \in BalanceTypes
  BY <1>2 DEF AfterConsume, BalanceTypes
<1> QED
  BY <1>1, <1>3, <1>4 DEF Total

\* Whatever is given back or consumed, the balances keep their types.
LEMMA ReleaseType ==
  ASSUME TypeOK, NEW w \in Ids, NEW q \in Nat
  PROVE  Unfrozen(w, q) \in BalanceTypes /\ Consumed(w, q) \in BalanceTypes
<1>1. bal \in BalanceTypes /\ Owner[w] \in Users /\ Coin \in Assets
  BY WithdrawalAssumption DEF TypeOK
<1> QED
  BY <1>1, Unfreezes, Consumes DEF Unfrozen, Consumed

------------------------------------------------------------------------------
(***************************************************************************)
(* The node                                                                *)
(***************************************************************************)

\* The node puts a transaction in a place that is free, or in place of one
\* with the same nonce that waits and offers less.
LEMMA Accepted ==
  ASSUME TypeOK, Signed, NEW tx \in SignedTxs, tx # NoTx, Accept(tx)
  PROVE  /\ txs' \in Seq(SignedTxs \ {NoTx}) /\ Len(txs') <= MaxTxs
         /\ kind' = kind /\ mined' = mined /\ mined' \subseteq DOMAIN txs'
         /\ DOMAIN txs \subseteq DOMAIN txs'
         /\ kind = "evm" => \A i \in DOMAIN txs' : txs'[i].nonce + 1 = i
         /\ \E k \in DOMAIN txs' :
              /\ txs'[k] = tx /\ k \notin mined
              /\ \A i \in DOMAIN txs' \ {k} : i \in DOMAIN txs /\ txs'[i] = txs[i]
              /\ k \in DOMAIN txs => txs[k].nonce = tx.nonce /\ tx.price > txs[k].price
<1> DEFINE S == SignedTxs \ {NoTx}
<1>1. txs \in Seq(S) /\ mined \subseteq DOMAIN txs /\ Len(txs) <= MaxTxs /\ tx \in S
  BY DEF TypeOK, Signed
<1>2. kind' = kind /\ mined' = mined
  BY DEF Accept
<1>3. tx.nonce \in Nat
  BY <1>1, HotWalletAssumption DEF SignedTxs, NoTx
<1> HIDE DEF S
<1>4. CASE IsNext(tx)
  <2>1. txs' = Append(txs, tx) /\ (kind = "evm" => tx.nonce = Len(txs))
    BY <1>4 DEF Accept, IsNext
  <2>2. Len(txs) < MaxTxs
    <3>1. SUFFICES ASSUME Outbids(tx) PROVE Len(txs) < MaxTxs
      BY DEF Accept, Acceptable
    <3>2. kind = "evm" /\ tx.nonce + 1 \in DOMAIN txs
      BY <3>1 DEF Outbids
    <3> QED
      BY <1>1, <2>1, <3>2
  <2>3. /\ txs' \in Seq(S) /\ Len(txs') = Len(txs) + 1 /\ Len(txs) \in Nat
        /\ DOMAIN txs = 1 .. Len(txs) /\ DOMAIN txs' = 1 .. Len(txs) + 1
        /\ txs'[Len(txs) + 1] = tx /\ \A i \in 1 .. Len(txs) : txs'[i] = txs[i]
    BY <1>1, <2>1
  <2>4. kind = "evm" => \A i \in DOMAIN txs' : txs'[i].nonce + 1 = i
    BY <2>1, <2>3 DEF Signed
  <2>5. \E k \in DOMAIN txs' :
          /\ txs'[k] = tx /\ k \notin mined
          /\ \A i \in DOMAIN txs' \ {k} : i \in DOMAIN txs /\ txs'[i] = txs[i]
          /\ k \in DOMAIN txs => txs[k].nonce = tx.nonce /\ tx.price > txs[k].price
    <3> Len(txs) + 1 \in DOMAIN txs'
      BY <2>3
    <3> WITNESS Len(txs) + 1 \in DOMAIN txs'
    <3> QED
      BY <1>1, <2>3
  <2>6. Len(txs') <= MaxTxs
    BY <2>2, <2>3, HotWalletAssumption
  <2>7. mined \subseteq DOMAIN txs' /\ DOMAIN txs \subseteq DOMAIN txs'
    BY <1>1, <2>3
  <2> QED
    BY <1>2, <2>3, <2>4, <2>5, <2>6, <2>7 DEF S
<1>5. CASE ~IsNext(tx)
  <2> DEFINE k == tx.nonce + 1
  <2>1. /\ kind = "evm" /\ k \in DOMAIN txs \ mined /\ tx.price > txs[k].price
        /\ txs' = [txs EXCEPT ![k] = tx]
    BY <1>5 DEF Accept, Acceptable, Outbids
  <2>2. k = tx.nonce + 1
    OBVIOUS
  <2> HIDE DEF k
  <2>3. /\ txs' \in Seq(S) /\ Len(txs') = Len(txs) /\ DOMAIN txs' = DOMAIN txs
        /\ txs'[k] = tx /\ \A i \in DOMAIN txs \ {k} : txs'[i] = txs[i]
    BY <1>1, <2>1
  <2>4. \A i \in DOMAIN txs : txs[i].nonce + 1 = i /\ txs[i] \in S
    BY <1>1, <2>1 DEF Signed
  <2>5. txs[k].nonce = tx.nonce
    <3>1. txs[k].nonce + 1 = k /\ txs[k].nonce \in Nat
      BY <2>1, <2>4, HotWalletAssumption DEF S, SignedTxs, NoTx
    <3> QED
      BY <1>3, <2>2, <3>1
  <2>6. \A i \in DOMAIN txs' : txs'[i].nonce + 1 = i
    BY <2>2, <2>3, <2>4
  <2>7. \E j \in DOMAIN txs' :
          /\ txs'[j] = tx /\ j \notin mined
          /\ \A i \in DOMAIN txs' \ {j} : i \in DOMAIN txs /\ txs'[i] = txs[i]
          /\ j \in DOMAIN txs => txs[j].nonce = tx.nonce /\ tx.price > txs[j].price
    <3> k \in DOMAIN txs'
      BY <2>1, <2>3
    <3> WITNESS k \in DOMAIN txs'
    <3> QED
      BY <2>1, <2>3, <2>5
  <2> QED
    BY <1>1, <1>2, <2>3, <2>6, <2>7 DEF S
<1> QED
  BY <1>4, <1>5

------------------------------------------------------------------------------
(***************************************************************************)
(* What needs nothing of the callers                                       *)
(***************************************************************************)

\* Nothing is sent and nobody asks for anything at first.
LEMMA AlwaysInit == Init => Always
<1> SUFFICES ASSUME Init PROVE Always
  OBVIOUS
<1> USE DEF Init, NodeInit
<1>1. TypeOK
  <2>1. txs \in Seq(SignedTxs \ {NoTx})
    OBVIOUS
  <2>2. /\ draft \in [Ids -> [Callers -> SignedTxs]] /\ at \in [Ids -> [Callers -> Places]]
        /\ {txHash, asking} \subseteq [Ids -> SignedTxs]
    BY DEF SignedTxs, Places
  <2> QED
    BY <2>1, <2>2, WithdrawalAssumption DEF TypeOK
<1>2. Signed
  BY HotWalletAssumption DEF Signed, Sending
<1>3. SentUnderway
  BY DEF SentUnderway, Sent
<1> QED
  BY <1>1, <1>2, <1>3 DEF Always

\* A step that sends nothing, leaves who is sending where they are, and makes
\* nothing more sent than it was.
LEMMA AlwaysKept ==
  ASSUME Always, TypeOK', UNCHANGED sending,
         \A w \in Ids, c \in Callers :
           at[w][c] \in Sending \/ at'[w][c] \in Sending => at'[w][c] = at[w][c],
         \A w \in Ids : status'[w] \in Sent => status[w] \in Sent
  PROVE  Always'
<1>1. UNCHANGED <<draft, txHash, asking, lost, kind, txs, mined>>
  BY DEF sending, node
<1>2. Signed'
  BY <1>1 DEF Always, Signed
<1>3. SentUnderway'
  BY <1>1 DEF Always, SentUnderway, Sending
<1> QED
  BY <1>2, <1>3 DEF Always

\* What is under way still is after the node has taken another transaction.
LEMMA AmongKept ==
  ASSUME TypeOK, Signed, NEW tx \in SignedTxs, tx # NoTx, Accept(tx),
         NEW t \in SignedTxs, Among(txs, t)
  PROVE  Among(txs', t)
<1>1. PICK i \in DOMAIN txs : txs[i] = t \/ (txs[i].nonce = t.nonce /\ txs[i].price > t.price)
  BY DEF Among
<1>2. PICK k \in DOMAIN txs' :
        /\ txs'[k] = tx /\ k \notin mined
        /\ \A j \in DOMAIN txs' \ {k} : j \in DOMAIN txs /\ txs'[j] = txs[j]
        /\ k \in DOMAIN txs => txs[k].nonce = tx.nonce /\ tx.price > txs[k].price
  BY Accepted
<1>3. i \in DOMAIN txs'
  BY Accepted
<1>4. CASE i # k
  BY <1>1, <1>2, <1>3, <1>4 DEF Among
<1>5. CASE i = k
  <2>1. txs'[i] = tx /\ txs[i].nonce = tx.nonce /\ tx.price > txs[i].price
    BY <1>2, <1>5
  <2>2. txs[i] \in SignedTxs
    BY DEF TypeOK
  <2>3. {tx.price, txs[i].price, t.price} \subseteq Nat
    <3>1. \A x \in SignedTxs : x.price \in Nat
      <4>1. NoTx.price \in Nat
        BY DEF NoTx
      <4>2. \A x \in [id: Ids, nonce: 0 .. MaxTxs, price: Prices] : x.price \in Nat
        BY HotWalletAssumption
      <4> QED
        BY <4>1, <4>2 DEF SignedTxs
    <3> QED
      BY <2>2, <3>1
  <2>4. tx.nonce = t.nonce /\ tx.price > t.price
    BY <1>1, <2>1, <2>3
  <2> QED
    BY <1>3, <2>1, <2>4 DEF Among
<1> QED
  BY <1>4, <1>5

\* The node takes a transaction, or not, and answers, or not.
LEMMA BroadcastAlways ==
  ASSUME Always, NEW w \in Ids, NEW c \in Callers, Broadcast(w, c) \/ BroadcastFails(w, c)
  PROVE  Always'
<1>1. PICK to \in {"sent", "done"} :
        /\ Goto(w, c, "broadcast", to) /\ at[w][c] = "broadcast"
        /\ to = "sent" => Accept(draft[w][c]) /\ draft' = draft /\ lost' = lost
        /\ to = "done" => draft' = [draft EXCEPT ![w][c] = NoTx]
  BY DEF Broadcast, BroadcastFails, Unanswered, Goto
<1>2. /\ at' \in [Ids -> [Callers -> Places]] /\ at'[w][c] = to
      /\ \A x \in Ids, d \in Callers : x # w \/ d # c => at'[x][d] = at[x][d]
  <2>1. "sent" \in Places /\ "done" \in Places
    BY DEF Places
  <2> QED
    BY <1>1, <2>1, Gone DEF Always
<1>3. draft[w][c] \in SignedTxs /\ draft[w][c] # NoTx /\ draft[w][c].id = w
  BY <1>1 DEF Always, TypeOK, Signed, Sending
<1>4. /\ draft' \in [Ids -> [Callers -> SignedTxs]]
      /\ \A x \in Ids, d \in Callers : x # w \/ d # c => draft'[x][d] = draft[x][d]
  <2>1. draft \in [Ids -> [Callers -> SignedTxs]] /\ NoTx \in SignedTxs
    BY DEF Always, TypeOK, SignedTxs
  <2>2. CASE draft' = draft
    BY <2>1, <2>2
  <2>3. CASE draft' = [draft EXCEPT ![w][c] = NoTx]
    BY <2>1, <2>3
  <2> QED
    BY <1>1, <2>2, <2>3
<1>5. UNCHANGED <<bal, amount, status, txHash, asking>>
  BY DEF Broadcast, BroadcastFails
<1>6. lost' = lost \/ (lost' = [lost EXCEPT ![w] = @ + 1] /\ Accept(draft[w][c]))
  BY DEF Broadcast, BroadcastFails, Unanswered
<1>7. lost' \in [Ids -> Nat]
  <2>1. lost \in [Ids -> Nat] /\ lost[w] + 1 \in Nat
    BY DEF Always, TypeOK
  <2> QED
    BY <1>6, <2>1
<1>8. CASE Accept(draft[w][c])
  <2>1. PICK tx \in SignedTxs : tx = draft[w][c] /\ tx # NoTx /\ Accept(tx)
    BY <1>3, <1>8
  <2>2. /\ txs' \in Seq(SignedTxs \ {NoTx}) /\ mined' \subseteq DOMAIN txs' /\ kind' \in Kinds
        /\ Len(txs') <= MaxTxs
        /\ kind' = "evm" => \A i \in DOMAIN txs' : txs'[i].nonce + 1 = i
    BY <2>1, Accepted DEF Always, TypeOK
  <2>3. TypeOK'
    BY <1>2, <1>4, <1>5, <1>7, <2>2 DEF Always, TypeOK
  <2>4. Signed'
    <3>1. \A x \in Ids, d \in Callers :
            at'[x][d] \in Sending => draft'[x][d] # NoTx /\ draft'[x][d].id = x
      BY <1>1, <1>2, <1>3, <1>4 DEF Always, Signed, Sending
    <3> QED
      BY <2>2, <3>1 DEF Signed
  <2>5. \A t \in SignedTxs : Among(txs, t) => Among(txs', t)
    BY <2>1, AmongKept DEF Always
  <2>6. \A x \in Ids, d \in Callers : at'[x][d] \in {"sent", "hash"} => Among(txs', draft'[x][d])
    <3>1. Among(txs', tx)
      <4>1. \E k \in DOMAIN txs' : txs'[k] = tx
        BY <2>1, Accepted DEF Always
      <4> QED
        BY <4>1 DEF Among
    <3>2. ASSUME NEW x \in Ids, NEW d \in Callers, x # w \/ d # c,
                 at'[x][d] \in {"sent", "hash"}
          PROVE  Among(txs', draft'[x][d])
      <4>1. Among(txs, draft[x][d]) /\ draft[x][d] \in SignedTxs /\ draft'[x][d] = draft[x][d]
        BY <1>2, <1>4, <3>2 DEF Always, SentUnderway, TypeOK
      <4> QED
        BY <2>5, <4>1
    <3>3. at'[w][c] \in {"sent", "hash"} => draft'[w][c] = tx
      BY <1>1, <1>2, <2>1
    <3> QED
      BY <3>1, <3>2, <3>3
  <2>7. \A x \in Ids : txHash'[x] # NoTx => Among(txs', txHash'[x])
    BY <1>5, <2>5 DEF Always, SentUnderway, TypeOK
  <2>8. \A x \in Ids : status'[x] \in Sent =>
          txHash'[x] # NoTx \/ \E d \in Callers : at'[x][d] = "hash"
    BY <1>1, <1>2, <1>5 DEF Always, SentUnderway
  <2> QED
    BY <1>5, <2>3, <2>4, <2>6, <2>7, <2>8 DEF Always, SentUnderway
<1>9. CASE ~Accept(draft[w][c])
  <2>1. to = "done" /\ UNCHANGED <<lost, kind, txs, mined>>
    BY <1>1, <1>9 DEF BroadcastFails, Broadcast, Unanswered, node
  <2>2. TypeOK'
    BY <1>2, <1>4, <1>5, <2>1 DEF Always, TypeOK
  <2>3. Signed'
    BY <1>2, <1>4, <2>1 DEF Always, Signed, Sending
  <2>4. SentUnderway'
    <3>1. \A x \in Ids, d \in Callers : at'[x][d] \in {"sent", "hash"} =>
            at'[x][d] = at[x][d] /\ draft'[x][d] = draft[x][d]
      BY <1>2, <1>4, <2>1
    <3>2. \A x \in Ids, d \in Callers : at[x][d] = "hash" => at'[x][d] = "hash"
      BY <1>1, <1>2
    <3> QED
      BY <1>5, <2>1, <3>1, <3>2 DEF Always, SentUnderway
  <2> QED
    BY <2>2, <2>3, <2>4 DEF Always
<1> QED
  BY <1>8, <1>9

\* The status of what was sent is written, then its hash.
LEMMA MarkAlways ==
  ASSUME Always, NEW w \in Ids, NEW c \in Callers, MarkSent(w, c) \/ KeepHash(w, c)
  PROVE  Always'
<1>1. CASE MarkSent(w, c)
  <2>1. /\ at' \in [Ids -> [Callers -> Places]] /\ at[w][c] = "sent" /\ at'[w][c] = "hash"
        /\ \A x \in Ids, d \in Callers : x # w \/ d # c => at'[x][d] = at[x][d]
    <3> "hash" \in Places /\ Goto(w, c, "sent", "hash")
      BY <1>1 DEF Places, MarkSent
    <3> QED
      BY Gone DEF Always
  <2>2. /\ status' = [status EXCEPT ![w] = "BROADCAST"]
        /\ UNCHANGED <<bal, amount, draft, txHash, asking, lost, kind, txs, mined>>
    BY <1>1 DEF MarkSent, sending, node
  <2>3. TypeOK'
    BY <2>1, <2>2 DEF Always, TypeOK
  <2>4. Signed'
    BY <2>1, <2>2 DEF Always, Signed, Sending
  <2>5. \A x \in Ids, d \in Callers : at'[x][d] \in {"sent", "hash"} =>
          at[x][d] \in {"sent", "hash"}
    BY <2>1
  <2>6. \A x \in Ids, d \in Callers : at'[x][d] \in {"sent", "hash"} =>
          Among(txs, draft[x][d])
    BY <2>5 DEF Always, SentUnderway
  <2>7. \A x \in Ids, d \in Callers : at[x][d] = "hash" => at'[x][d] = "hash"
    BY <2>1
  <2>8. \A x \in Ids : x # w => status'[x] = status[x]
    BY <2>2 DEF Always, TypeOK
  <2>9. \A x \in Ids : status'[x] \in Sent =>
          txHash[x] # NoTx \/ \E d \in Callers : at'[x][d] = "hash"
    BY <2>1, <2>7, <2>8 DEF Always, SentUnderway
  <2>10. SentUnderway'
    BY <2>2, <2>6, <2>9 DEF Always, SentUnderway, Among
  <2> QED
    BY <2>3, <2>4, <2>10 DEF Always
<1>2. CASE KeepHash(w, c)
  <2>1. /\ at' \in [Ids -> [Callers -> Places]] /\ at[w][c] = "hash" /\ at'[w][c] = "consume"
        /\ \A x \in Ids, d \in Callers : x # w \/ d # c => at'[x][d] = at[x][d]
    <3> "consume" \in Places /\ Goto(w, c, "hash", "consume")
      BY <1>2 DEF Places, KeepHash
    <3> QED
      BY Gone DEF Always
  <2>2. /\ txHash' = [txHash EXCEPT ![w] = draft[w][c]]
        /\ draft' = [draft EXCEPT ![w][c] = NoTx]
        /\ UNCHANGED <<bal, amount, status, asking, lost, kind, txs, mined>>
    BY <1>2 DEF KeepHash, node
  <2>3. /\ draft[w][c] \in SignedTxs /\ draft[w][c] # NoTx /\ Among(txs, draft[w][c])
        /\ NoTx \in SignedTxs
    BY <2>1 DEF Always, TypeOK, Signed, Sending, SentUnderway, SignedTxs
  <2>4. TypeOK'
    BY <2>1, <2>2, <2>3 DEF Always, TypeOK
  <2>5. \A x \in Ids, d \in Callers : x # w \/ d # c => draft'[x][d] = draft[x][d]
    BY <2>2 DEF Always, TypeOK
  <2>6. Signed'
    BY <2>1, <2>2, <2>5 DEF Always, Signed, Sending
  <2>7. txHash'[w] = draft[w][c] /\ \A x \in Ids \ {w} : txHash'[x] = txHash[x]
    BY <2>2 DEF Always, TypeOK
  <2>8. SentUnderway'
    BY <2>1, <2>2, <2>3, <2>5, <2>7 DEF Always, SentUnderway
  <2> QED
    BY <2>4, <2>6, <2>8 DEF Always
<1> QED
  BY <1>1, <1>2

\* A call goes on without the node and does not make the withdrawal sent.
LEMMA GotoAlways ==
  ASSUME Always, NEW w \in Ids, NEW c \in Callers,
         NEW from \in Places \ Sending, NEW to \in Places \ Sending,
         Goto(w, c, from, to), UNCHANGED sending,
         bal' \in BalanceTypes, amount' \in [Ids -> {0} \cup Amounts],
         \/ status' = status
         \/ status' = [status EXCEPT ![w] = "PENDING"]
         \/ status' = [status EXCEPT ![w] = "REJECTED"]
  PROVE  Always'
<1>1. /\ at' \in [Ids -> [Callers -> Places]]
      /\ \A x \in Ids, d \in Callers :
           at[x][d] \in Sending \/ at'[x][d] \in Sending => at'[x][d] = at[x][d]
  <2>1. /\ at' \in [Ids -> [Callers -> Places]] /\ at[w][c] = from /\ at'[w][c] = to
        /\ \A x \in Ids, d \in Callers : x # w \/ d # c => at'[x][d] = at[x][d]
    BY Gone DEF Always
  <2> QED
    BY <2>1
<1>2. status \in [Ids -> {"NONE", "PENDING", "REJECTED", "BROADCAST", "SUCCESS"}]
  BY DEF Always, TypeOK
<1>3. /\ status' \in [Ids -> {"NONE", "PENDING", "REJECTED", "BROADCAST", "SUCCESS"}]
      /\ \A x \in Ids : status'[x] \in Sent => status[x] \in Sent
  BY <1>2 DEF Sent
<1>4. TypeOK'
  BY <1>1, <1>3 DEF Always, TypeOK, sending, node
<1> QED
  BY <1>1, <1>3, <1>4, AlwaysKept

\* Submitting a withdrawal, and everything else that leaves the node alone.
LEMMA CallAlways ==
  ASSUME Always, NEW w \in Ids, NEW c \in Callers,
         \/ \E q \in Amounts : FreezeAmount(w, q)
         \/ FreezeFee(w) \/ Rollback(w) \/ Store(w)
         \/ CheckPending(w, c) \/ SignFails(w, c) \/ ConsumeAmount(w, c) \/ ConsumeFee(w, c)
         \/ Reject(w)
  PROVE  Always'
<1>1. /\ bal \in BalanceTypes /\ amount \in [Ids -> {0} \cup Amounts]
      /\ Owner[w] \in Users /\ Coin \in Assets /\ Fee \in Nat
      /\ amount[w] \in Nat /\ TypeOK
  <2>1. bal \in BalanceTypes /\ amount \in [Ids -> {0} \cup Amounts] /\ TypeOK
    BY DEF Always, TypeOK
  <2>2. Owner[w] \in Users /\ Coin \in Assets /\ Fee \in Nat /\ Amounts \subseteq Nat
    BY WithdrawalAssumption
  <2>3. amount[w] = 0 \/ amount[w] \in Amounts
    BY <2>1
  <2>4. amount[w] \in Nat
    <3>1. CASE amount[w] = 0
      BY <3>1
    <3>2. CASE amount[w] \in Amounts
      BY <2>2, <3>2
    <3> QED
      BY <2>3, <3>1, <3>2
  <2> QED
    BY <2>1, <2>2, <2>4
<1>2. {"idle", "fee", "rollback", "store", "approve", "sign", "consume", "consumeFee", "reject",
       "release", "releaseFee", "mark", "done"} \subseteq Places \ Sending
  BY DEF Places, Sending
<1>3. "request" \in Callers /\ "reviewer" \in Callers
  BY DEF Callers
<1>4. ASSUME NEW q \in Amounts, FreezeAmount(w, q) PROVE Always'
  <2>1. bal' \in BalanceTypes
    BY <1>1, <1>4, WithdrawalAssumption, Freezes DEF FreezeAmount
  <2>2. amount' \in [Ids -> {0} \cup Amounts]
    BY <1>1, <1>4 DEF FreezeAmount
  <2>3. PICK to \in {"fee", "store"} : Goto(w, "request", "idle", to)
    BY <1>4 DEF FreezeAmount
  <2> QED
    BY <1>2, <1>3, <1>4, <2>1, <2>2, <2>3, GotoAlways DEF FreezeAmount
<1>5. CASE FreezeFee(w)
  <2>1. bal' \in BalanceTypes
    BY <1>1, <1>5, Freezes DEF FreezeFee
  <2>2. PICK to \in {"rollback", "store"} : Goto(w, "request", "fee", to)
    BY <1>5 DEF FreezeFee
  <2> QED
    BY <1>1, <1>2, <1>3, <1>5, <2>1, <2>2, GotoAlways DEF FreezeFee
<1>6. CASE Rollback(w)
  BY <1>1, <1>2, <1>3, <1>6, ReleaseType, GotoAlways DEF Rollback
<1>7. CASE Store(w)
  BY <1>1, <1>2, <1>3, <1>7, GotoAlways DEF Store
<1>8. CASE CheckPending(w, c) \/ SignFails(w, c)
  <2>1. /\ \E from \in {"approve", "sign"}, to \in {"sign", "done"} : Goto(w, c, from, to)
        /\ UNCHANGED <<bal, amount, status, sending>>
    BY <1>2, <1>8 DEF CheckPending, SignFails, sending
  <2> QED
    BY <1>1, <1>2, <2>1, GotoAlways
<1>9. CASE ConsumeAmount(w, c)
  <2>1. PICK to \in {"consumeFee", "done"} : Goto(w, c, "consume", to)
    BY <1>9 DEF ConsumeAmount
  <2> QED
    BY <1>1, <1>2, <1>9, <2>1, ReleaseType, GotoAlways DEF ConsumeAmount
<1>10. CASE ConsumeFee(w, c)
  BY <1>1, <1>2, <1>10, ReleaseType, GotoAlways DEF ConsumeFee
<1>11. CASE CheckRejectable(w)
  <2>1. PICK to \in {"release", "done"} : Goto(w, "reviewer", "reject", to)
    BY <1>11 DEF CheckRejectable
  <2> QED
    BY <1>1, <1>2, <1>3, <1>11, <2>1, GotoAlways DEF CheckRejectable
<1>12. CASE ReleaseAmount(w)
  <2>1. PICK to \in {"releaseFee", "mark"} : Goto(w, "reviewer", "release", to)
    BY <1>12 DEF ReleaseAmount
  <2> QED
    BY <1>1, <1>2, <1>3, <1>12, <2>1, ReleaseType, GotoAlways DEF ReleaseAmount
<1>13. CASE ReleaseFee(w)
  BY <1>1, <1>2, <1>3, <1>13, ReleaseType, GotoAlways DEF ReleaseFee
<1>14. CASE MarkRejected(w)
  BY <1>1, <1>2, <1>3, <1>14, GotoAlways DEF MarkRejected
<1> QED
  BY <1>4, <1>5, <1>6, <1>7, <1>8, <1>9, <1>10, <1>11, <1>12, <1>13, <1>14 DEF Reject

\* A transaction is signed for its withdrawal, and the caller is to send it.
LEMMA SignAlways ==
  ASSUME Always, NEW w \in Ids, NEW c \in Callers, NEW price \in Prices, Sign(w, c, price)
  PROVE  Always'
<1>1. /\ at' \in [Ids -> [Callers -> Places]] /\ at[w][c] = "sign" /\ at'[w][c] = "broadcast"
      /\ \A x \in Ids, d \in Callers : x # w \/ d # c => at'[x][d] = at[x][d]
  <2>1. "broadcast" \in Places /\ Goto(w, c, "sign", "broadcast")
    BY DEF Sign, Places
  <2> QED
    BY <2>1, Gone DEF Always
<1>2. Len(txs) \in 0 .. MaxTxs
  BY HotWalletAssumption DEF Always, TypeOK, Signed
<1>3. SignedTx(w, price) \in SignedTxs
  BY <1>2 DEF SignedTx, SignedTxs
<1>4. /\ draft' = [draft EXCEPT ![w][c] = SignedTx(w, price)]
      /\ UNCHANGED <<bal, amount, status, txHash, asking, lost, kind, txs, mined>>
  BY DEF Sign, node
<1>5. TypeOK'
  BY <1>1, <1>3, <1>4 DEF Always, TypeOK
<1>6. /\ draft'[w][c] = SignedTx(w, price)
      /\ \A x \in Ids, d \in Callers : x # w \/ d # c => draft'[x][d] = draft[x][d]
  BY <1>4 DEF Always, TypeOK
<1>7. Signed'
  <2>1. SignedTx(w, price) # NoTx /\ SignedTx(w, price).id = w
    BY WithdrawalAssumption DEF SignedTx, NoTx
  <2> QED
    BY <1>1, <1>4, <1>6, <2>1 DEF Always, Signed
<1>8. SentUnderway'
  BY <1>1, <1>4, <1>6 DEF Always, SentUnderway
<1> QED
  BY <1>5, <1>7, <1>8 DEF Always

\* The chain confirms, a confirmation is asked for and comes, or the reviewer
\* comes back.
LEMMA OthersAlways ==
  ASSUME Always,
         \/ Mine
         \/ \E w \in Ids : ConfirmWithdrawal(w)
         \/ \E w \in Ids, what \in {"approve", "reject"} : Review(w, what)
  PROVE  Always'
<1>1. CASE Mine
  <2>1. /\ mined \subseteq mined' /\ mined' \subseteq DOMAIN txs
        /\ UNCHANGED <<bal, amount, status, at, draft, txHash, asking, lost, kind, txs>>
    BY <1>1 DEF Mine, MineTx, Always, TypeOK
  <2>2. TypeOK' /\ Signed' /\ SentUnderway'
    BY <2>1 DEF Always, TypeOK, Signed, SentUnderway
  <2> QED
    BY <2>2 DEF Always
<1>2. ASSUME NEW w \in Ids, ConfirmWithdrawal(w) PROVE Always'
  <2>1. UNCHANGED <<bal, amount, at, draft, txHash, lost, kind, txs, mined>>
    BY <1>2 DEF ConfirmWithdrawal, AskConfirmations, WriteSuccess, NoConfirmation, node
  <2>2. /\ \/ asking' = [asking EXCEPT ![w] = NoTx]
           \/ txHash[w] # NoTx /\ asking' = [asking EXCEPT ![w] = txHash[w]]
        /\ \/ status' = status
           \/ asking[w] # NoTx /\ status' = [status EXCEPT ![w] = "SUCCESS"]
    BY <1>2 DEF ConfirmWithdrawal, AskConfirmations, WriteSuccess, NoConfirmation
  <2>3. NoTx \in SignedTxs
    BY DEF SignedTxs
  <2>4. TypeOK'
    <3>1. asking' \in [Ids -> SignedTxs]
      BY <2>2, <2>3 DEF Always, TypeOK
    <3>2. status' \in [Ids -> {"NONE", "PENDING", "REJECTED", "BROADCAST", "SUCCESS"}]
      BY <2>2 DEF Always, TypeOK
    <3> QED
      BY <2>1, <3>1, <3>2 DEF Always, TypeOK
  <2>5. Signed'
    BY <2>1 DEF Always, Signed
  <2>6. \A x \in Ids : /\ asking'[x] # NoTx => txHash[x] # NoTx
                       /\ status'[x] \in Sent => status[x] \in Sent \/ txHash[x] # NoTx
    BY <2>2 DEF Always, TypeOK, SentUnderway
  <2>7. SentUnderway'
    BY <2>1, <2>6 DEF Always, SentUnderway
  <2> QED
    BY <2>4, <2>5, <2>7 DEF Always
<1>3. ASSUME NEW w \in Ids, NEW what \in {"approve", "reject"}, Review(w, what) PROVE Always'
  <2>1. /\ UNCHANGED <<bal, amount, status, sending>> /\ at[w]["reviewer"] \in {"idle", "done"}
        /\ at' = [at EXCEPT ![w]["reviewer"] = what]
    BY <1>3 DEF Review
  <2>2. what \in Places
    BY DEF Places
  <2>3. /\ at' \in [Ids -> [Callers -> Places]] /\ at'[w]["reviewer"] = what
        /\ \A x \in Ids, d \in Callers : x # w \/ d # "reviewer" => at'[x][d] = at[x][d]
    BY <2>1, <2>2 DEF Always, TypeOK, Callers
  <2>4. \A x \in Ids, d \in Callers :
          at[x][d] \in Sending \/ at'[x][d] \in Sending => at'[x][d] = at[x][d]
    BY <2>1, <2>3 DEF Sending
  <2>5. TypeOK'
    BY <2>1, <2>3 DEF Always, TypeOK, sending, node
  <2> QED
    BY <2>1, <2>4, <2>5, AlwaysKept
<1> QED
  BY <1>1, <1>2, <1>3

\* Every step keeps it.
LEMMA AlwaysNext == Always /\ [Next]_vars => Always'
<1> SUFFICES ASSUME Always, [Next]_vars PROVE Always'
  OBVIOUS
<1>1. CASE UNCHANGED vars
  <2>1. UNCHANGED <<bal, amount, status, at, sending>>
    BY <1>1 DEF vars
  <2>2. TypeOK'
    BY <2>1 DEF Always, TypeOK, sending, node
  <2> QED
    BY <2>1, <2>2, AlwaysKept
<1>2. CASE Mine
  BY <1>2, OthersAlways
<1>3. ASSUME NEW w \in Ids, Submit(w) \/ Reject(w) PROVE Always'
  <2>1. \E c \in Callers : TRUE
    BY DEF Callers
  <2> QED
    BY <1>3, <2>1, CallAlways DEF Submit
<1>4. ASSUME NEW w \in Ids, NEW c \in Callers, Approve(w, c) PROVE Always'
  BY <1>4, CallAlways, SignAlways, BroadcastAlways, MarkAlways DEF Approve
<1>5. ASSUME NEW w \in Ids, ConfirmWithdrawal(w) PROVE Always'
  BY <1>5, OthersAlways
<1>6. ASSUME NEW w \in Ids, NEW what \in {"approve", "reject"}, Review(w, what) PROVE Always'
  BY <1>6, OthersAlways
<1> QED
  BY <1>1, <1>2, <1>3, <1>4, <1>5, <1>6 DEF Next

\* What needs nothing of the callers holds in every state, however they overlap.
THEOREM Invariance == Spec => []Always
  BY AlwaysInit, AlwaysNext, PTL DEF Spec

\* Balances never become negative and every variable keeps its type, however
\* the calls of ApproveWithdrawal and RejectWithdrawal overlap.
THEOREM TypeSafe == Spec => []TypeOK
<1>1. Always => TypeOK
  BY DEF Always
<1> QED
  BY <1>1, Invariance, PTL

------------------------------------------------------------------------------
(***************************************************************************)
(* The money of callers that do not overlap                                *)
(***************************************************************************)

\* Types of what withdrawals cost.
LEMMA Costs ==
  ASSUME TypeOK, NEW w \in Ids
  PROVE  /\ amount[w] \in Nat /\ Fee \in Nat
         /\ Held(w) \in Nat /\ Used(w) \in Nat /\ Held(w) <= Charge(w)
<1>1. Fee \in Nat
  BY WithdrawalAssumption
<1>2. amount[w] \in Nat
  <2>1. amount[w] = 0 \/ amount[w] \in Amounts
    BY DEF TypeOK
  <2>2. CASE amount[w] = 0
    BY <2>2
  <2>3. CASE amount[w] \in Amounts
    BY <2>3, WithdrawalAssumption
  <2> QED
    BY <2>1, <2>2, <2>3
<1>3. Held(w) \in {amount[w], Fee, amount[w] + Fee, 0}
  BY DEF Held, Charge
<1>4. Held(w) \in Nat /\ Held(w) <= amount[w] + Fee
  BY <1>1, <1>2, <1>3
<1> QED
  BY <1>1, <1>2, <1>4 DEF Used, Charge

\* A withdrawal that nothing happens to costs what it did.
LEMMA CostsKept ==
  ASSUME NEW x \in Ids, at'[x] = at[x], status'[x] = status[x], amount'[x] = amount[x],
         txHash'[x] = txHash[x]
  PROVE  Held(x)' = Held(x) /\ Used(x)' = Used(x) /\ (OrderlyAt(x) => OrderlyAt(x)')
  BY DEF Held, Used, In, Charge, OrderlyAt

\* What is frozen for a withdrawal can be taken from its owner.
LEMMA HeldCovered ==
  ASSUME TypeOK, Booked, NEW w \in Ids, NEW q \in Nat, 0 < q, q <= Held(w)
  PROVE  CanRelease(bal, Owner[w], Coin, q)
<1> DEFINE u == Owner[w]
<1>1. u \in Users /\ w \in Own(u) /\ Own(u) \subseteq Ids
  BY WithdrawalAssumption DEF Own
<1>2. IsFiniteSet(Own(u))
  BY <1>1, FS_Subset, WithdrawalAssumption
<1>3. \A x \in Own(u) : HeldBy[x] \in Nat
  BY <1>1, Costs DEF HeldBy
<1>4. HeldBy[w] = Held(w)
  BY DEF HeldBy
<1>5. /\ SumFunctionOnSet(HeldBy, Own(u)) \in Nat
      /\ \A x \in Own(u) : HeldBy[x] <= SumFunctionOnSet(HeldBy, Own(u))
  BY <1>2, <1>3, SumNat
<1>6. bal[u][Coin].frozen = SumFunctionOnSet(HeldBy, Own(u))
  BY <1>1 DEF Booked
<1>7. Held(w) <= bal[u][Coin].frozen
  BY <1>1, <1>4, <1>5, <1>6
<1>8. Held(w) \in Nat
  BY Costs
<1> QED
  BY <1>5, <1>6, <1>7, <1>8 DEF CanRelease

\* When the funds of one user change, the supply does by as much.
LEMMA SupplyChange ==
  ASSUME IsFiniteSet(Users), NEW b, NEW c, NEW a, NEW u \in Users,
         \A v \in Users : Total(b, v, a) \in Int /\ Total(c, v, a) \in Int,
         \A v \in Users \ {u} : Total(c, v, a) = Total(b, v, a)
  PROVE  /\ Supply(b, a) \in Int
         /\ Supply(c, a) = Supply(b, a) - Total(b, u, a) + Total(c, u, a)
<1> DEFINE f == [v \in Users |-> Total(b, v, a)]
           g == [v \in Users |-> Total(c, v, a)]
<1>1. \A v \in Users : f[v] \in Int /\ g[v] \in Int
  OBVIOUS
<1>2. \A v \in Users \ {u} : g[v] = f[v]
  OBVIOUS
<1>3. f[u] = Total(b, u, a) /\ g[u] = Total(c, u, a)
  OBVIOUS
<1>4. Supply(b, a) = SumFunctionOnSet(f, Users) /\ Supply(c, a) = SumFunctionOnSet(g, Users)
  BY DEF Supply
<1> HIDE DEF f, g
<1>5. SumFunctionOnSet(g, Users) = SumFunctionOnSet(f, Users) - f[u] + g[u]
  BY <1>1, <1>2, SumChange
<1>6. SumFunctionOnSet(f, Users) \in Int
  BY <1>1, SumType
<1> QED
  BY <1>3, <1>4, <1>5, <1>6

\* The books follow a step of one withdrawal, if what is frozen for it and what
\* is lost for it follow its places.
LEMMA BookedStep ==
  ASSUME TypeOK, TypeOK', Booked, NEW w \in Ids, Only(w),
         \A v \in Users \ {Owner[w]} : bal'[v] = bal[v],
         bal'[Owner[w]][Coin].frozen - bal[Owner[w]][Coin].frozen = Held(w)' - Held(w),
         Total(bal', Owner[w], Coin) - Total(bal, Owner[w], Coin) = Used(w) - Used(w)'
  PROVE  Booked'
<1> DEFINE u == Owner[w]
           f == HeldBy
           g == UsedBy
           h == HeldBy'
           k == UsedBy'
<1>1. u \in Users /\ Coin \in Assets /\ IsFiniteSet(Ids) /\ IsFiniteSet(Users)
  BY WithdrawalAssumption
<1>2. /\ \A x \in Ids : f[x] = Held(x) /\ g[x] = Used(x) /\ h[x] = Held(x)' /\ k[x] = Used(x)'
  BY DEF HeldBy, UsedBy
<1>3. \A x \in Ids : f[x] \in Int /\ g[x] \in Int
  BY <1>2, Costs
<1>4. \A x \in Ids \ {w} : h[x] = f[x] /\ k[x] = g[x]
  BY <1>2, CostsKept DEF Only
<1>5. h[w] \in Int /\ k[w] \in Int
  <2>1. Held(w)' \in Nat /\ Used(w)' \in Nat
    <3>1. /\ amount'[w] \in Nat /\ Fee \in Nat
      <4>1. amount'[w] = 0 \/ amount'[w] \in Amounts
        BY DEF TypeOK
      <4>2. CASE amount'[w] = 0
        BY <4>2, WithdrawalAssumption
      <4>3. CASE amount'[w] \in Amounts
        BY <4>3, WithdrawalAssumption
      <4> QED
        BY <4>1, <4>2, <4>3
    <3>2. Held(w)' \in {amount'[w], Fee, amount'[w] + Fee, 0}
      BY DEF Held, Charge
    <3>3. Held(w)' \in Nat /\ Held(w)' <= amount'[w] + Fee
      BY <3>1, <3>2
    <3> QED
      BY <3>1, <3>3 DEF Used, Charge
  <2> QED
    BY <1>2, <2>1
<1>6. \A x \in Ids : h[x] \in Int /\ k[x] \in Int
  BY <1>3, <1>4, <1>5
<1>7. /\ bal'[u][Coin].frozen - bal[u][Coin].frozen = h[w] - f[w]
      /\ Total(bal', u, Coin) - Total(bal, u, Coin) = g[w] - k[w]
  BY <1>2
<1>8. \A v \in Users : /\ Own(v)' = Own(v) /\ Own(v) \subseteq Ids /\ IsFiniteSet(Own(v))
                       /\ bal[v][Coin].frozen \in Int /\ bal'[v][Coin].frozen \in Int
                       /\ Total(bal, v, Coin) \in Int /\ Total(bal', v, Coin) \in Int
  <2> SUFFICES ASSUME NEW v \in Users
               PROVE  /\ Own(v)' = Own(v) /\ Own(v) \subseteq Ids /\ IsFiniteSet(Own(v))
                      /\ bal[v][Coin].frozen \in Int /\ bal'[v][Coin].frozen \in Int
                      /\ Total(bal, v, Coin) \in Int /\ Total(bal', v, Coin) \in Int
    OBVIOUS
  <2>1. Own(v)' = Own(v) /\ Own(v) \subseteq Ids
    BY DEF Own
  <2>2. IsFiniteSet(Own(v))
    BY <1>1, <2>1, FS_Subset
  <2>3. bal \in BalanceTypes /\ bal' \in BalanceTypes
    BY DEF TypeOK
  <2> QED
    BY <1>1, <2>1, <2>2, <2>3 DEF BalanceTypes, Total
<1> HIDE DEF f, g, h, k
<1>9. ASSUME NEW v \in Users
      PROVE  /\ bal'[v][Coin].frozen = SumFunctionOnSet(h, Own(v))
             /\ Total(bal', v, Coin) + SumFunctionOnSet(k, Own(v)) = Total(Deposits, v, Coin)
  <2>1. /\ bal[v][Coin].frozen = SumFunctionOnSet(f, Own(v))
        /\ Total(bal, v, Coin) + SumFunctionOnSet(g, Own(v)) = Total(Deposits, v, Coin)
    BY DEF Booked, f, g
  <2>2. SumFunctionOnSet(g, Own(v)) \in Int /\ SumFunctionOnSet(f, Own(v)) \in Int
    BY <1>3, <1>8, SumType
  <2>3. \A x \in Own(v) : f[x] \in Int /\ g[x] \in Int /\ h[x] \in Int /\ k[x] \in Int
    BY <1>3, <1>6, <1>8
  <2>4. CASE v = u
    <3>1. w \in Own(v)
      BY <2>4 DEF Own
    <3>2. \A x \in Own(v) \ {w} : h[x] = f[x] /\ k[x] = g[x]
      BY <1>4, <1>8
    <3>3. SumFunctionOnSet(h, Own(v)) = SumFunctionOnSet(f, Own(v)) - f[w] + h[w]
      BY <1>8, <2>3, <3>1, <3>2, SumChange
    <3>4. SumFunctionOnSet(k, Own(v)) = SumFunctionOnSet(g, Own(v)) - g[w] + k[w]
      BY <1>8, <2>3, <3>1, <3>2, SumChange
    <3>5. /\ bal'[v][Coin].frozen - bal[v][Coin].frozen = h[w] - f[w]
          /\ Total(bal', v, Coin) - Total(bal, v, Coin) = g[w] - k[w]
          /\ bal[v][Coin].frozen \in Int /\ bal'[v][Coin].frozen \in Int
          /\ Total(bal, v, Coin) \in Int /\ Total(bal', v, Coin) \in Int
          /\ f[w] \in Int /\ g[w] \in Int /\ h[w] \in Int /\ k[w] \in Int
      BY <1>3, <1>6, <1>7, <1>8, <2>4
    <3>6. /\ bal'[v][Coin].frozen = SumFunctionOnSet(f, Own(v)) - f[w] + h[w]
          /\ Total(bal', v, Coin) = Total(bal, v, Coin) + g[w] - k[w]
      BY <2>1, <3>5
    <3>7. bal'[v][Coin].frozen = SumFunctionOnSet(h, Own(v))
      BY <3>3, <3>6
    <3>8. Total(bal', v, Coin) + SumFunctionOnSet(k, Own(v))
            = Total(bal, v, Coin) + SumFunctionOnSet(g, Own(v))
      <4> DEFINE s == SumFunctionOnSet(g, Own(v))
                 n == Total(bal, v, Coin)
      <4>1. /\ Total(bal', v, Coin) = n + g[w] - k[w] /\ SumFunctionOnSet(k, Own(v)) = s - g[w] + k[w]
            /\ s \in Int /\ n \in Int /\ g[w] \in Int /\ k[w] \in Int
        BY <2>2, <3>4, <3>5, <3>6
      <4> HIDE DEF s, n
      <4>2. (n + g[w] - k[w]) + (s - g[w] + k[w]) = n + s
        BY <4>1
      <4> QED
        BY <4>1, <4>2 DEF s, n
    <3> QED
      BY <2>1, <3>7, <3>8
  <2>5. CASE v # u
    <3>1. \A x \in Own(v) : h[x] = f[x] /\ k[x] = g[x]
      BY <1>4, <2>5 DEF Own
    <3>2. SumFunctionOnSet(h, Own(v)) = SumFunctionOnSet(f, Own(v))
      BY <1>8, <2>3, <3>1, SumSame
    <3>3. SumFunctionOnSet(k, Own(v)) = SumFunctionOnSet(g, Own(v))
      BY <1>8, <2>3, <3>1, SumSame
    <3>4. bal'[v] = bal[v]
      BY <2>5
    <3> QED
      BY <2>1, <3>2, <3>3, <3>4 DEF Total
  <2> QED
    BY <2>4, <2>5
<1>10. Supply(bal', Coin) + SumFunctionOnSet(k, Ids) = Supply(Deposits, Coin)
  <2> DEFINE m == Total(bal, u, Coin)
             n == Total(bal', u, Coin)
  <2>1. \A v \in Users \ {u} : Total(bal', v, Coin) = Total(bal, v, Coin)
    BY DEF Total
  <2>2. /\ Supply(bal, Coin) \in Int
        /\ Supply(bal', Coin) = Supply(bal, Coin) - m + n
    <3> u \in Users /\ IsFiniteSet(Users)
      BY <1>1
    <3> HIDE DEF u
    <3> QED
      BY <1>8, <2>1, SupplyChange
  <2>6. SumFunctionOnSet(k, Ids) = SumFunctionOnSet(g, Ids) - g[w] + k[w]
    <3>1. \A x \in Ids : g[x] \in Int /\ k[x] \in Int
      BY <1>3, <1>6
    <3>2. \A x \in Ids \ {w} : k[x] = g[x]
      BY <1>4
    <3>3. IsFiniteSet(Ids)
      BY <1>1
    <3> QED
      BY <3>1, <3>2, <3>3, SumChange
  <2>7. Supply(bal, Coin) + SumFunctionOnSet(g, Ids) = Supply(Deposits, Coin)
    BY DEF Booked, g
  <2>8. SumFunctionOnSet(g, Ids) \in Int
    BY <1>1, <1>3, SumType
  <2>9. /\ m \in Int /\ n \in Int /\ g[w] \in Int /\ k[w] \in Int
        /\ n - m = g[w] - k[w]
    BY <1>1, <1>3, <1>6, <1>7, <1>8
  <2>10. Supply(bal', Coin) + SumFunctionOnSet(k, Ids)
           = Supply(bal, Coin) + SumFunctionOnSet(g, Ids)
    <3> DEFINE s == SumFunctionOnSet(g, Ids)
               r == Supply(bal, Coin)
    <3>1. /\ Supply(bal', Coin) = r - m + n /\ SumFunctionOnSet(k, Ids) = s - g[w] + k[w]
          /\ s \in Int /\ r \in Int
      BY <2>2, <2>6, <2>8
    <3>2. (r - m + n) + (s - g[w] + k[w]) = r + s
      <4> HIDE DEF s, r, m, n
      <4> QED
        BY <2>9, <3>1
    <3> QED
      BY <3>1, <3>2
  <2> QED
    BY <2>7, <2>10
<1> QED
  BY <1>8, <1>9, <1>10 DEF Booked, h, k, Supply, Total

\* A step of one withdrawal keeps the others in order.
LEMMA OrderlyStep ==
  ASSUME Orderly, NEW w \in Ids, Only(w), OrderlyAt(w)'
  PROVE  Orderly'
  BY CostsKept DEF Orderly, Only

\* A step that leaves the balances alone.
LEMMA NothingMoves ==
  ASSUME TypeOK, TypeOK', Booked, NEW w \in Ids, Only(w), bal' = bal,
         Held(w)' = Held(w), Used(w)' = Used(w)
  PROVE  Booked'
<1>1. bal[Owner[w]][Coin].frozen \in Nat /\ Total(bal, Owner[w], Coin) \in Nat
  BY WithdrawalAssumption DEF TypeOK, BalanceTypes, Total
<1>2. Held(w) \in Nat /\ Used(w) \in Nat
  BY Costs
<1>3. /\ bal'[Owner[w]][Coin].frozen - bal[Owner[w]][Coin].frozen = Held(w)' - Held(w)
      /\ Total(bal', Owner[w], Coin) - Total(bal, Owner[w], Coin) = Used(w) - Used(w)'
  BY <1>1, <1>2
<1> QED
  BY <1>3, BookedStep

\* A step that freezes funds for a withdrawal.
LEMMA FundsFreeze ==
  ASSUME TypeOK, TypeOK', Booked, NEW w \in Ids, Only(w), NEW q \in Nat,
         CanFreeze(bal, Owner[w], Coin, q), bal' = AfterFreeze(bal, Owner[w], Coin, q),
         Held(w)' = Held(w) + q, Used(w)' = Used(w)
  PROVE  Booked'
<1>1. Owner[w] \in Users /\ Coin \in Assets /\ bal \in BalanceTypes
  BY WithdrawalAssumption DEF TypeOK
<1>2. Held(w) \in Nat /\ Used(w) \in Nat
  BY Costs
<1>3. /\ bal'[Owner[w]][Coin].frozen - bal[Owner[w]][Coin].frozen = q
      /\ Total(bal', Owner[w], Coin) - Total(bal, Owner[w], Coin) = 0
      /\ \A v \in Users \ {Owner[w]} : bal'[v] = bal[v]
  BY <1>1, Freezes
<1>4. Held(w)' - Held(w) = q /\ Used(w) - Used(w)' = 0
  BY <1>2
<1> QED
  BY <1>3, <1>4, BookedStep

\* A step that gives back funds that are frozen for a withdrawal.
LEMMA FundsReturn ==
  ASSUME TypeOK, TypeOK', Booked, NEW w \in Ids, Only(w), NEW q \in Nat,
         0 < q, q <= Held(w), bal' = Unfrozen(w, q),
         Held(w)' = Held(w) - q, Used(w)' = Used(w)
  PROVE  Booked'
<1>1. Owner[w] \in Users /\ Coin \in Assets /\ bal \in BalanceTypes
  BY WithdrawalAssumption DEF TypeOK
<1>2. Held(w) \in Nat /\ Used(w) \in Nat
  BY Costs
<1>3. CanRelease(bal, Owner[w], Coin, q)
  BY HeldCovered
<1>4. bal' = AfterUnfreeze(bal, Owner[w], Coin, q)
  BY <1>3 DEF Unfrozen
<1>5. /\ bal'[Owner[w]][Coin].frozen - bal[Owner[w]][Coin].frozen = -q
      /\ Total(bal', Owner[w], Coin) - Total(bal, Owner[w], Coin) = 0
      /\ \A v \in Users \ {Owner[w]} : bal'[v] = bal[v]
  BY <1>1, <1>3, <1>4, Unfreezes
<1>6. Held(w)' - Held(w) = -q /\ Used(w) - Used(w)' = 0
  BY <1>2
<1> QED
  BY <1>5, <1>6, BookedStep

\* A step that takes funds that are frozen for a withdrawal out of the books.
LEMMA FundsLeave ==
  ASSUME TypeOK, TypeOK', Booked, NEW w \in Ids, Only(w), NEW q \in Nat,
         0 < q, q <= Held(w), bal' = Consumed(w, q),
         Held(w)' = Held(w) - q, Used(w)' = Used(w) + q
  PROVE  Booked'
<1>1. Owner[w] \in Users /\ Coin \in Assets /\ bal \in BalanceTypes
  BY WithdrawalAssumption DEF TypeOK
<1>2. Held(w) \in Nat /\ Used(w) \in Nat
  BY Costs
<1>3. CanRelease(bal, Owner[w], Coin, q)
  BY HeldCovered
<1>4. bal' = AfterConsume(bal, Owner[w], Coin, q)
  BY <1>3 DEF Consumed
<1>5. /\ bal'[Owner[w]][Coin].frozen - bal[Owner[w]][Coin].frozen = -q
      /\ Total(bal', Owner[w], Coin) - Total(bal, Owner[w], Coin) = -q
      /\ \A v \in Users \ {Owner[w]} : bal'[v] = bal[v]
  BY <1>1, <1>3, <1>4, Consumes
<1>6. Held(w)' - Held(w) = -q /\ Used(w) - Used(w)' = -q
  BY <1>2
<1> QED
  BY <1>5, <1>6, BookedStep

\* While one caller is on its way, the other has not begun or has ended.
LEMMA Turn ==
  ASSUME TypeOK, Orderly, NEW w \in Ids, NEW c \in Callers,
         NEW from \in Places \ {"idle", "done"}, NEW to \in Places, Goto(w, c, from, to)
  PROVE  /\ OrderlyAt(w) /\ \A x \in Ids \ {w} : at'[x] = at[x]
         /\ \/ /\ c = "request" /\ at[w]["request"] = from /\ at'[w]["request"] = to
               /\ at[w]["reviewer"] = "idle" /\ at'[w]["reviewer"] = "idle"
            \/ /\ c = "reviewer" /\ at[w]["reviewer"] = from /\ at'[w]["reviewer"] = to
               /\ at[w]["request"] = "done" /\ at'[w]["request"] = "done"
<1>1. OrderlyAt(w)
  BY DEF Orderly
<1>2. /\ at[w][c] = from /\ at'[w][c] = to
      /\ \A d \in Callers \ {c} : at'[w][d] = at[w][d]
      /\ \A x \in Ids \ {w} : at'[x] = at[x]
  BY Gone
<1>3. at[w]["reviewer"] # "idle" => at[w]["request"] = "done"
  BY <1>1 DEF OrderlyAt
<1> QED
  BY <1>1, <1>2, <1>3 DEF Callers

\* The amount is frozen.
LEMMA FreezeAmountMoney ==
  ASSUME TypeOK, TypeOK', Orderly, Booked, NEW w \in Ids, NEW q \in Amounts, FreezeAmount(w, q)
  PROVE  Orderly' /\ Booked'
<1>1. q \in Nat /\ q > 0 /\ Fee \in Nat
  BY WithdrawalAssumption
<1> DEFINE to == IF Fee > 0 THEN "fee" ELSE "store"
<1>2. to \in Places
  BY DEF Places
<1>3. /\ at[w]["request"] = "idle" /\ at'[w]["request"] = to
      /\ at'[w]["reviewer"] = at[w]["reviewer"]
      /\ \A x \in Ids \ {w} : at'[x] = at[x]
  <2> "request" \in Callers /\ "reviewer" \in Callers \ {"request"}
    BY DEF Callers
  <2> QED
    BY <1>2, Gone DEF FreezeAmount
<1>4. /\ OrderlyAt(w) /\ at[w]["reviewer"] = "idle" /\ status[w] = "NONE"
  BY <1>3 DEF Orderly, OrderlyAt
<1>5. amount'[w] = q /\ status' = status /\ txHash' = txHash /\ Only(w)
  BY <1>3 DEF FreezeAmount, TypeOK, Only, sending
<1>6. OrderlyAt(w)'
  BY <1>1, <1>3, <1>4, <1>5 DEF OrderlyAt, In, Sent
<1>7. Held(w) = 0 /\ Used(w) = 0 /\ Used(w)' = 0
  BY <1>3, <1>4, <1>5 DEF Held, Used, In, Sent
<1>8. Held(w)' = q
  BY <1>1, <1>3, <1>4, <1>5 DEF Held, In, Charge
<1>9. /\ CanFreeze(bal, Owner[w], Coin, q) /\ bal' = AfterFreeze(bal, Owner[w], Coin, q)
      /\ Held(w)' = Held(w) + q /\ Used(w)' = Used(w)
  BY <1>1, <1>7, <1>8 DEF FreezeAmount
<1> QED
  BY <1>1, <1>5, <1>6, <1>9, OrderlyStep, FundsFreeze

\* The fee is frozen, or the request turns to giving the amount back.
LEMMA FreezeFeeMoney ==
  ASSUME TypeOK, TypeOK', Orderly, Booked, NEW w \in Ids, FreezeFee(w)
  PROVE  Orderly' /\ Booked'
<1>1. Fee \in Nat /\ amount[w] \in Nat
  BY Costs
<1>2. PICK to \in {"store", "rollback"} :
        /\ Goto(w, "request", "fee", to)
        /\ to = "store" => /\ CanFreeze(bal, Owner[w], Coin, Fee)
                           /\ bal' = AfterFreeze(bal, Owner[w], Coin, Fee)
        /\ to = "rollback" => bal' = bal
  BY DEF FreezeFee
<1>3. /\ OrderlyAt(w) /\ \A x \in Ids \ {w} : at'[x] = at[x]
      /\ at[w]["request"] = "fee" /\ at'[w]["request"] = to
      /\ at[w]["reviewer"] = "idle" /\ at'[w]["reviewer"] = "idle"
  <2> "request" \in Callers /\ "fee" \in Places \ {"idle", "done"} /\ to \in Places
    BY DEF Callers, Places
  <2> QED
    BY <1>2, Turn
<1>4. amount' = amount /\ status' = status /\ txHash' = txHash /\ Only(w)
  BY <1>3 DEF FreezeFee, Only, sending
<1>5. status[w] = "NONE" /\ amount[w] > 0 /\ Fee > 0
  BY <1>3 DEF OrderlyAt, In
<1>6. OrderlyAt(w)'
  BY <1>3, <1>4, <1>5 DEF OrderlyAt, In, Sent
<1>7. Used(w) = 0 /\ Used(w)' = 0 /\ Held(w) = amount[w]
  BY <1>3, <1>4, <1>5 DEF Held, Used, In, Sent
<1>8. CASE to = "store"
  <2>1. Held(w)' = amount[w] + Fee
    BY <1>3, <1>4, <1>5, <1>8 DEF Held, In, Charge
  <2>2. Held(w)' = Held(w) + Fee /\ Used(w)' = Used(w)
    BY <1>7, <2>1
  <2> QED
    BY <1>1, <1>2, <1>4, <1>6, <1>8, <2>2, OrderlyStep, FundsFreeze
<1>9. CASE to = "rollback"
  <2>1. Held(w)' = Held(w) /\ Used(w)' = Used(w)
    BY <1>3, <1>4, <1>5, <1>7, <1>9 DEF Held, In
  <2> QED
    BY <1>2, <1>4, <1>6, <1>9, <2>1, OrderlyStep, NothingMoves
<1> QED
  BY <1>8, <1>9

\* The amount is given back when the fee is refused.
LEMMA RollbackMoney ==
  ASSUME TypeOK, TypeOK', Orderly, Booked, NEW w \in Ids, Rollback(w)
  PROVE  Orderly' /\ Booked'
<1>1. amount[w] \in Nat
  BY Costs
<1>2. /\ OrderlyAt(w) /\ \A x \in Ids \ {w} : at'[x] = at[x]
      /\ at[w]["request"] = "rollback" /\ at'[w]["request"] = "done"
      /\ at[w]["reviewer"] = "idle" /\ at'[w]["reviewer"] = "idle"
  <2> "request" \in Callers /\ "rollback" \in Places \ {"idle", "done"} /\ "done" \in Places
    BY DEF Callers, Places
  <2> QED
    BY Turn DEF Rollback
<1>3. amount' = amount /\ status' = status /\ txHash' = txHash /\ Only(w)
  BY <1>2 DEF Rollback, Only, sending
<1>4. status[w] = "NONE" /\ amount[w] > 0 /\ Fee > 0
  BY <1>2 DEF OrderlyAt, In
<1>5. OrderlyAt(w)'
  BY <1>2, <1>3, <1>4 DEF OrderlyAt, In, Sent
<1>6. Used(w) = 0 /\ Used(w)' = 0 /\ Held(w) = amount[w] /\ Held(w)' = 0
  BY <1>2, <1>3, <1>4 DEF Held, Used, In, Sent
<1>7. /\ 0 < amount[w] /\ amount[w] <= Held(w) /\ bal' = Unfrozen(w, amount[w])
      /\ Held(w)' = Held(w) - amount[w] /\ Used(w)' = Used(w)
  BY <1>1, <1>4, <1>6 DEF Rollback
<1> QED
  BY <1>1, <1>3, <1>5, <1>7, OrderlyStep, FundsReturn

\* The withdrawal is stored: what was frozen for it stays frozen.
LEMMA StoreMoney ==
  ASSUME TypeOK, TypeOK', Orderly, Booked, NEW w \in Ids, Store(w)
  PROVE  Orderly' /\ Booked'
<1>1. /\ OrderlyAt(w) /\ \A x \in Ids \ {w} : at'[x] = at[x]
      /\ at[w]["request"] = "store" /\ at'[w]["request"] = "approve"
      /\ at[w]["reviewer"] = "idle" /\ at'[w]["reviewer"] = "idle"
  <2> "request" \in Callers /\ "store" \in Places \ {"idle", "done"} /\ "approve" \in Places
    BY DEF Callers, Places
  <2> QED
    BY Turn DEF Store
<1>2. amount' = amount /\ status'[w] = "PENDING" /\ txHash' = txHash /\ Only(w) /\ bal' = bal
  BY <1>1 DEF Store, Only, TypeOK, sending
<1>3. status[w] = "NONE" /\ amount[w] > 0
  BY <1>1 DEF OrderlyAt
<1>4. OrderlyAt(w)'
  BY <1>1, <1>2, <1>3 DEF OrderlyAt, In, Sent
<1>5. Held(w)' = Held(w) /\ Used(w)' = Used(w)
  BY <1>1, <1>2, <1>3 DEF Held, Used, In, Sent, Charge
<1> QED
  BY <1>2, <1>4, <1>5, OrderlyStep, NothingMoves

\* The steps of ApproveWithdrawal before a status is written: the funds stay frozen.
LEMMA BeforeSendingMoney ==
  ASSUME TypeOK, TypeOK', Orderly, Booked, NEW w \in Ids, NEW c \in Callers,
         \/ CheckPending(w, c) \/ SignFails(w, c) \/ BroadcastFails(w, c) \/ Broadcast(w, c)
         \/ \E price \in Prices : Sign(w, c, price)
  PROVE  Orderly' /\ Booked'
<1>1. PICK from \in {"approve", "sign", "broadcast"}, to \in {"sign", "broadcast", "sent", "done"} :
        /\ Goto(w, c, from, to)
        /\ to \in {"sign", "broadcast", "sent"} => status[w] = "PENDING"
  <2>1. CASE CheckPending(w, c)
    BY <2>1 DEF CheckPending
  <2>2. CASE SignFails(w, c) \/ BroadcastFails(w, c)
    BY <2>2 DEF SignFails, BroadcastFails
  <2>3. ASSUME NEW price \in Prices, Sign(w, c, price)
        PROVE  Goto(w, c, "sign", "broadcast") /\ status[w] = "PENDING"
    <3>1. Goto(w, c, "sign", "broadcast") /\ at[w][c] = "sign"
      BY <2>3 DEF Sign, Goto
    <3> QED
      BY <3>1 DEF Orderly, OrderlyAt, In, Callers
  <2>4. CASE Broadcast(w, c)
    <3>1. Goto(w, c, "broadcast", "sent") /\ at[w][c] = "broadcast"
      BY <2>4 DEF Broadcast, Goto
    <3>2. status[w] = "PENDING"
      BY <3>1 DEF Orderly, OrderlyAt, In, Callers
    <3> QED
      BY <3>1, <3>2
  <2> QED
    BY <2>1, <2>2, <2>3, <2>4
<1>2. /\ OrderlyAt(w) /\ \A x \in Ids \ {w} : at'[x] = at[x]
      /\ \/ /\ c = "request" /\ at[w]["request"] = from /\ at'[w]["request"] = to
            /\ at[w]["reviewer"] = "idle" /\ at'[w]["reviewer"] = "idle"
         \/ /\ c = "reviewer" /\ at[w]["reviewer"] = from /\ at'[w]["reviewer"] = to
            /\ at[w]["request"] = "done" /\ at'[w]["request"] = "done"
  <2> from \in Places \ {"idle", "done"} /\ to \in Places
    BY DEF Places
  <2> QED
    BY <1>1, Turn
<1>3. amount' = amount /\ status' = status /\ txHash' = txHash /\ bal' = bal
  BY DEF CheckPending, SignFails, BroadcastFails, Sign, Broadcast, sending
<1>4. Only(w)
  BY <1>2, <1>3 DEF Only
<1>5. OrderlyAt(w)'
  BY <1>1, <1>2, <1>3 DEF OrderlyAt, In, Sent
<1>6. Held(w)' = Held(w) /\ Used(w)' = Used(w)
  BY <1>2, <1>3 DEF Held, Used, In, Sent, Charge
<1> QED
  BY <1>3, <1>4, <1>5, <1>6, OrderlyStep, NothingMoves

\* The withdrawal is sent: what was frozen is there to be consumed.
LEMMA MarkSentMoney ==
  ASSUME TypeOK, TypeOK', Orderly, Booked, NEW w \in Ids, NEW c \in Callers, MarkSent(w, c)
  PROVE  Orderly' /\ Booked'
<1>1. /\ OrderlyAt(w) /\ \A x \in Ids \ {w} : at'[x] = at[x]
      /\ \/ /\ c = "request" /\ at[w]["request"] = "sent" /\ at'[w]["request"] = "hash"
            /\ at[w]["reviewer"] = "idle" /\ at'[w]["reviewer"] = "idle"
         \/ /\ c = "reviewer" /\ at[w]["reviewer"] = "sent" /\ at'[w]["reviewer"] = "hash"
            /\ at[w]["request"] = "done" /\ at'[w]["request"] = "done"
  <2> "sent" \in Places \ {"idle", "done"} /\ "hash" \in Places
    BY DEF Places
  <2> QED
    BY Turn DEF MarkSent
<1>2. amount' = amount /\ status'[w] = "BROADCAST" /\ txHash' = txHash /\ Only(w) /\ bal' = bal
  BY <1>1 DEF MarkSent, Only, TypeOK, sending
<1>3. status[w] = "PENDING"
  BY <1>1 DEF OrderlyAt, In
<1>4. OrderlyAt(w)'
  BY <1>1, <1>2, <1>3 DEF OrderlyAt, In, Sent
<1>5. Held(w) = Charge(w) /\ Held(w)' = Charge(w) /\ Charge(w) \in Nat /\ Charge(w)' = Charge(w)
  BY <1>1, <1>2, <1>3, Costs DEF Held, In, Charge
<1>6. Used(w) = 0 /\ Used(w)' = Charge(w)' - Held(w)'
  BY <1>2, <1>3 DEF Used, Sent
<1>7. Held(w)' = Held(w) /\ Used(w)' = Used(w)
  BY <1>5, <1>6
<1> QED
  BY <1>2, <1>4, <1>7, OrderlyStep, NothingMoves

\* Its hash is kept: the funds stay where they are.
LEMMA KeepHashMoney ==
  ASSUME TypeOK, TypeOK', Orderly, Booked, NEW w \in Ids, NEW c \in Callers, KeepHash(w, c)
  PROVE  Orderly' /\ Booked'
<1>1. /\ OrderlyAt(w) /\ \A x \in Ids \ {w} : at'[x] = at[x]
      /\ \/ /\ c = "request" /\ at[w]["request"] = "hash" /\ at'[w]["request"] = "consume"
            /\ at[w]["reviewer"] = "idle" /\ at'[w]["reviewer"] = "idle"
         \/ /\ c = "reviewer" /\ at[w]["reviewer"] = "hash" /\ at'[w]["reviewer"] = "consume"
            /\ at[w]["request"] = "done" /\ at'[w]["request"] = "done"
  <2> "hash" \in Places \ {"idle", "done"} /\ "consume" \in Places
    BY DEF Places
  <2> QED
    BY Turn DEF KeepHash
<1>2. amount' = amount /\ status' = status /\ Only(w) /\ bal' = bal
  BY <1>1 DEF KeepHash, Only, TypeOK
<1>3. status[w] \in Sent
  BY <1>1 DEF OrderlyAt, In
<1>4. OrderlyAt(w)'
  BY <1>1, <1>2, <1>3 DEF OrderlyAt, In, Sent
<1>5. Held(w)' = Held(w) /\ Used(w)' = Used(w)
  BY <1>1, <1>2 DEF Held, Used, In, Charge
<1> QED
  BY <1>2, <1>4, <1>5, OrderlyStep, NothingMoves

\* The amount is consumed, and the fee is left to be.
LEMMA ConsumeAmountMoney ==
  ASSUME TypeOK, TypeOK', Orderly, Booked, NEW w \in Ids, NEW c \in Callers, ConsumeAmount(w, c)
  PROVE  Orderly' /\ Booked'
<1> DEFINE to == IF Fee > 0 /\ CanRelease(bal, Owner[w], Coin, amount[w]) THEN "consumeFee" ELSE "done"
<1>1. /\ OrderlyAt(w) /\ \A x \in Ids \ {w} : at'[x] = at[x]
      /\ \/ /\ c = "request" /\ at[w]["request"] = "consume" /\ at'[w]["request"] = to
            /\ at[w]["reviewer"] = "idle" /\ at'[w]["reviewer"] = "idle"
         \/ /\ c = "reviewer" /\ at[w]["reviewer"] = "consume" /\ at'[w]["reviewer"] = to
            /\ at[w]["request"] = "done" /\ at'[w]["request"] = "done"
  <2>1. "consume" \in Places \ {"idle", "done"} /\ to \in Places
    BY DEF Places
  <2>2. Goto(w, c, "consume", to)
    BY DEF ConsumeAmount
  <2> HIDE DEF to
  <2> QED
    BY <2>1, <2>2, Turn
<1>2. /\ amount' = amount /\ status' = status /\ txHash' = txHash /\ Only(w)
      /\ bal' = Consumed(w, amount[w])
  BY <1>1 DEF ConsumeAmount, Only, sending
<1>3. /\ status[w] \in Sent /\ amount[w] > 0 /\ amount[w] \in Nat /\ Fee \in Nat
  <2>1. status[w] \in Sent /\ amount[w] > 0
    BY <1>1 DEF OrderlyAt, In
  <2> QED
    BY <2>1, Costs
<1>4. Held(w) = amount[w] + Fee /\ Used(w) = (amount[w] + Fee) - Held(w)
  BY <1>1, <1>3 DEF Held, Used, In, Charge
<1>5. CanRelease(bal, Owner[w], Coin, amount[w])
  <2>1. amount[w] <= Held(w)
    BY <1>3, <1>4
  <2> QED
    BY <1>3, <2>1, HeldCovered
<1>6. to = IF Fee > 0 THEN "consumeFee" ELSE "done"
  BY <1>5
<1> HIDE DEF to
<1>7. OrderlyAt(w)'
  BY <1>1, <1>2, <1>3, <1>6 DEF OrderlyAt, In, Sent
<1>8. Held(w)' = Fee /\ Used(w)' = (amount[w] + Fee) - Held(w)'
  BY <1>1, <1>2, <1>3, <1>6 DEF Held, Used, In, Charge, Sent
<1>9. /\ amount[w] <= Held(w) /\ Held(w)' = Held(w) - amount[w]
      /\ Used(w)' = Used(w) + amount[w]
  BY <1>3, <1>4, <1>8
<1> QED
  BY <1>2, <1>3, <1>7, <1>9, OrderlyStep, FundsLeave

\* The fee is consumed.
LEMMA ConsumeFeeMoney ==
  ASSUME TypeOK, TypeOK', Orderly, Booked, NEW w \in Ids, NEW c \in Callers, ConsumeFee(w, c)
  PROVE  Orderly' /\ Booked'
<1>1. /\ OrderlyAt(w) /\ \A x \in Ids \ {w} : at'[x] = at[x]
      /\ \/ /\ c = "request" /\ at[w]["request"] = "consumeFee" /\ at'[w]["request"] = "done"
            /\ at[w]["reviewer"] = "idle" /\ at'[w]["reviewer"] = "idle"
         \/ /\ c = "reviewer" /\ at[w]["reviewer"] = "consumeFee" /\ at'[w]["reviewer"] = "done"
            /\ at[w]["request"] = "done" /\ at'[w]["request"] = "done"
  <2> "consumeFee" \in Places \ {"idle", "done"} /\ "done" \in Places
    BY DEF Places
  <2> QED
    BY Turn DEF ConsumeFee
<1>2. /\ amount' = amount /\ status' = status /\ txHash' = txHash /\ Only(w)
      /\ bal' = Consumed(w, Fee)
  BY <1>1 DEF ConsumeFee, Only, sending
<1>3. status[w] \in Sent /\ amount[w] > 0 /\ Fee > 0 /\ amount[w] \in Nat /\ Fee \in Nat
  <2>1. status[w] \in Sent /\ amount[w] > 0 /\ Fee > 0
    BY <1>1 DEF OrderlyAt, In
  <2> QED
    BY <2>1, Costs
<1>4. OrderlyAt(w)'
  BY <1>1, <1>2, <1>3 DEF OrderlyAt, In, Sent
<1>5. Held(w) = Fee /\ Used(w) = (amount[w] + Fee) - Held(w)
  BY <1>1, <1>3 DEF Held, Used, In, Charge
<1>6. Held(w)' = 0 /\ Used(w)' = (amount[w] + Fee) - Held(w)'
  BY <1>1, <1>2, <1>3 DEF Held, Used, In, Charge, Sent
<1>7. Fee <= Held(w) /\ Held(w)' = Held(w) - Fee /\ Used(w)' = Used(w) + Fee
  BY <1>3, <1>5, <1>6
<1> QED
  BY <1>2, <1>3, <1>4, <1>7, OrderlyStep, FundsLeave

\* RejectWithdrawal gives the amount back, then the fee, then says so.
LEMMA RejectMoney ==
  ASSUME TypeOK, TypeOK', Orderly, Booked, NEW w \in Ids, Reject(w)
  PROVE  Orderly' /\ Booked'
<1>1. PICK from \in {"reject", "release", "releaseFee", "mark"},
           to \in {"release", "releaseFee", "mark", "done"} :
        /\ Goto(w, "reviewer", from, to)
        /\ \/ /\ from = "reject" /\ to = (IF status[w] = "PENDING" THEN "release" ELSE "done")
              /\ CheckRejectable(w)
           \/ from = "release" /\ to = (IF Fee > 0 THEN "releaseFee" ELSE "mark") /\ ReleaseAmount(w)
           \/ from = "releaseFee" /\ to = "mark" /\ ReleaseFee(w)
           \/ from = "mark" /\ to = "done" /\ MarkRejected(w)
  <2>1. CASE CheckRejectable(w)
    BY <2>1 DEF CheckRejectable
  <2>2. CASE ReleaseAmount(w)
    BY <2>2 DEF ReleaseAmount
  <2>3. CASE ReleaseFee(w)
    BY <2>3 DEF ReleaseFee
  <2>4. CASE MarkRejected(w)
    BY <2>4 DEF MarkRejected
  <2> QED
    BY <2>1, <2>2, <2>3, <2>4 DEF Reject
<1>2. /\ OrderlyAt(w) /\ \A x \in Ids \ {w} : at'[x] = at[x]
      /\ at[w]["reviewer"] = from /\ at'[w]["reviewer"] = to
      /\ at[w]["request"] = "done" /\ at'[w]["request"] = "done"
  <2> /\ from \in Places \ {"idle", "done"} /\ to \in Places
      /\ "reviewer" \in Callers /\ "reviewer" # "request"
    BY DEF Places, Callers
  <2> QED
    BY <1>1, Turn
<1>3. /\ amount' = amount /\ txHash' = txHash
      /\ from # "mark" => status' = status
      /\ from = "mark" => status'[w] = "REJECTED" /\ \A x \in Ids \ {w} : status'[x] = status[x]
  BY <1>1 DEF CheckRejectable, ReleaseAmount, ReleaseFee, MarkRejected, TypeOK, sending
<1>4. Only(w)
  BY <1>2, <1>3 DEF Only
<1>5. /\ amount[w] > 0 /\ amount[w] \in Nat /\ Fee \in Nat
      /\ from # "reject" => status[w] = "PENDING"
      /\ from = "releaseFee" => Fee > 0
  <2>1. /\ amount[w] > 0
        /\ from # "reject" => status[w] = "PENDING"
        /\ from = "releaseFee" => Fee > 0
    BY <1>2 DEF OrderlyAt, In
  <2> QED
    BY <2>1, Costs
<1>6. OrderlyAt(w)'
  BY <1>1, <1>2, <1>3, <1>5 DEF OrderlyAt, In, Sent
<1>7. CASE from = "reject"
  <2>1. bal' = bal
    BY <1>1, <1>7 DEF CheckRejectable
  <2>2. Held(w)' = Held(w) /\ Used(w)' = Used(w)
    BY <1>1, <1>2, <1>3, <1>7 DEF Held, Used, In, Sent, Charge
  <2> QED
    BY <1>4, <1>6, <2>1, <2>2, OrderlyStep, NothingMoves
<1>8. CASE from = "release"
  <2>1. bal' = Unfrozen(w, amount[w])
    BY <1>1, <1>8 DEF ReleaseAmount
  <2>2. Held(w) = amount[w] + Fee /\ Used(w) = 0 /\ Used(w)' = 0
    BY <1>1, <1>2, <1>3, <1>5, <1>8 DEF Held, Used, In, Sent, Charge
  <2>3. Held(w)' = Fee
    BY <1>1, <1>2, <1>3, <1>5, <1>8 DEF Held, In
  <2>4. /\ 0 < amount[w] /\ amount[w] <= Held(w)
        /\ Held(w)' = Held(w) - amount[w] /\ Used(w)' = Used(w)
    BY <1>5, <2>2, <2>3
  <2> QED
    BY <1>4, <1>5, <1>6, <2>1, <2>4, OrderlyStep, FundsReturn
<1>9. CASE from = "releaseFee"
  <2>1. bal' = Unfrozen(w, Fee)
    BY <1>1, <1>9 DEF ReleaseFee
  <2>2. Held(w) = Fee /\ Held(w)' = 0 /\ Used(w) = 0 /\ Used(w)' = 0
    BY <1>1, <1>2, <1>3, <1>5, <1>9 DEF Held, Used, In, Sent
  <2>3. 0 < Fee /\ Fee <= Held(w) /\ Held(w)' = Held(w) - Fee /\ Used(w)' = Used(w)
    BY <1>5, <1>9, <2>2
  <2> QED
    BY <1>4, <1>5, <1>6, <2>1, <2>3, OrderlyStep, FundsReturn
<1>10. CASE from = "mark"
  <2>1. bal' = bal
    BY <1>1, <1>10 DEF MarkRejected
  <2>2. Held(w)' = Held(w) /\ Used(w)' = Used(w)
    BY <1>1, <1>2, <1>3, <1>5, <1>10 DEF Held, Used, In, Sent
  <2> QED
    BY <1>4, <1>6, <2>1, <2>2, OrderlyStep, NothingMoves
<1> QED
  BY <1>1, <1>7, <1>8, <1>9, <1>10

\* The reviewer turns to a withdrawal whose request is done.
LEMMA ReviewMoney ==
  ASSUME ~Overlapping, TypeOK, TypeOK', Orderly, Booked, NEW w \in Ids,
         NEW what \in {"approve", "reject"}, Review(w, what)
  PROVE  Orderly' /\ Booked'
<1>1. /\ at[w]["request"] = "done" /\ at[w]["reviewer"] \in {"idle", "done"} /\ status[w] # "NONE"
      /\ bal' = bal /\ amount' = amount /\ status' = status /\ txHash' = txHash
  BY DEF Review, sending
<1>2. /\ at'[w]["request"] = "done" /\ at'[w]["reviewer"] = what
      /\ \A x \in Ids \ {w} : at'[x] = at[x]
  BY <1>1 DEF Review, TypeOK, Callers
<1>3. OrderlyAt(w)
  BY DEF Orderly
<1>4. Only(w) /\ OrderlyAt(w)'
  BY <1>1, <1>2, <1>3 DEF Only, OrderlyAt, In
<1>5. Held(w)' = Held(w) /\ Used(w)' = Used(w)
  BY <1>1, <1>2 DEF Held, Used, In, Charge
<1> QED
  BY <1>1, <1>4, <1>5, OrderlyStep, NothingMoves

\* What was sent becomes a success: that costs nothing more.
LEMMA ConfirmMoney ==
  ASSUME TypeOK, TypeOK', SentUnderway, Orderly, Booked, NEW w \in Ids, ConfirmWithdrawal(w)
  PROVE  Orderly' /\ Booked'
<1>1. bal' = bal /\ amount' = amount /\ at' = at /\ txHash' = txHash
  BY DEF ConfirmWithdrawal, AskConfirmations, WriteSuccess, NoConfirmation
<1>2. \/ status' = status
      \/ asking[w] # NoTx /\ status' = [status EXCEPT ![w] = "SUCCESS"]
  BY DEF ConfirmWithdrawal, AskConfirmations, WriteSuccess, NoConfirmation
<1>3. OrderlyAt(w)
  BY DEF Orderly
<1>4. \/ status'[w] = status[w]
      \/ status[w] \in Sent /\ status'[w] = "SUCCESS"
  BY <1>2, <1>3 DEF SentUnderway, OrderlyAt, TypeOK
<1>5. \A x \in Ids \ {w} : status'[x] = status[x]
  BY <1>2 DEF TypeOK
<1>6. Only(w) /\ OrderlyAt(w)'
  BY <1>1, <1>3, <1>4, <1>5 DEF Only, OrderlyAt, In, Sent
<1>7. Held(w)' = Held(w) /\ Used(w)' = Used(w)
  BY <1>1, <1>4 DEF Held, Used, In, Charge, Sent
<1> QED
  BY <1>1, <1>6, <1>7, OrderlyStep, NothingMoves

\* Nothing moves while nothing happens here.
LEMMA IdleMoney ==
  ASSUME Orderly, Booked, UNCHANGED <<bal, amount, status, at, txHash>>
  PROVE  Orderly' /\ Booked'
<1>1. Orderly'
  BY DEF Orderly, OrderlyAt, In
<1>2. HeldBy' = HeldBy /\ UsedBy' = UsedBy
  BY DEF HeldBy, UsedBy, Held, Used, In, Charge
<1>3. \A u \in Users : Own(u)' = Own(u) /\ Total(bal', u, Coin) = Total(bal, u, Coin)
  BY DEF Own, Total
<1> QED
  BY <1>1, <1>2, <1>3 DEF Booked, Supply, Total

\* The books and the places keep agreeing.
LEMMA MoneyNext ==
  ASSUME ~Overlapping, TypeOK, TypeOK', SentUnderway, Orderly, Booked, [Next]_vars
  PROVE  Orderly' /\ Booked'
<1>1. CASE UNCHANGED <<bal, amount, status, at, txHash>>
  BY <1>1, IdleMoney
<1>2. Mine \/ UNCHANGED vars => UNCHANGED <<bal, amount, status, at, txHash>>
  BY DEF Mine, vars, sending
<1>3. ASSUME NEW w \in Ids, Submit(w) \/ Reject(w) \/ ConfirmWithdrawal(w) PROVE Orderly' /\ Booked'
  <2>1. ASSUME NEW q \in Amounts, FreezeAmount(w, q) PROVE Orderly' /\ Booked'
    BY <2>1, FreezeAmountMoney
  <2> QED
    BY <1>3, <2>1, FreezeFeeMoney, RollbackMoney, StoreMoney, RejectMoney, ConfirmMoney DEF Submit
<1>4. ASSUME NEW w \in Ids, NEW c \in Callers, Approve(w, c) PROVE Orderly' /\ Booked'
  BY <1>4, BeforeSendingMoney, MarkSentMoney, KeepHashMoney, ConsumeAmountMoney, ConsumeFeeMoney
     DEF Approve
<1>5. ASSUME NEW w \in Ids, NEW what \in {"approve", "reject"}, Review(w, what)
      PROVE  Orderly' /\ Booked'
  BY <1>5, ReviewMoney
<1> QED
  BY <1>1, <1>2, <1>3, <1>4, <1>5 DEF Next

------------------------------------------------------------------------------
(***************************************************************************)
(* What becomes of a withdrawal                                            *)
(***************************************************************************)

\* What is stored stays stored, and what is sent stays sent.
LEMMA StatusKept ==
  ASSUME TypeOK, Orderly, [Next]_vars, NEW w \in Ids
  PROVE  /\ status[w] \in Sent => status'[w] \in Sent
         /\ status[w] # "NONE" => status'[w] # "NONE"
<1>1. OrderlyAt(w)
  BY DEF Orderly
<1> SUFFICES ASSUME status'[w] # status[w]
             PROVE  /\ status[w] \in Sent => status'[w] \in Sent
                    /\ status[w] # "NONE" => status'[w] # "NONE"
  OBVIOUS
<1>2. \E x \in Ids : \/ Store(x) \/ MarkRejected(x) \/ WriteSuccess(x)
                     \/ \E c \in Callers : MarkSent(x, c)
  <2>1. Mine \/ UNCHANGED vars => status' = status
    BY DEF Mine, vars
  <2>2. \A x \in Ids :
          /\ Submit(x) => Store(x) \/ status' = status
          /\ Reject(x) => MarkRejected(x) \/ status' = status
          /\ ConfirmWithdrawal(x) => WriteSuccess(x) \/ status' = status
          /\ \A what \in {"approve", "reject"} : Review(x, what) => status' = status
    BY DEF Submit, FreezeAmount, FreezeFee, Rollback, Reject, CheckRejectable, ReleaseAmount,
           ReleaseFee, Review, ConfirmWithdrawal, AskConfirmations, NoConfirmation
  <2>3. \A x \in Ids, c \in Callers : Approve(x, c) => MarkSent(x, c) \/ status' = status
    BY DEF Approve, CheckPending, SignFails, Sign, Broadcast, BroadcastFails, KeepHash,
           ConsumeAmount, ConsumeFee
  <2> QED
    BY <2>1, <2>2, <2>3 DEF Next
<1>3. ASSUME NEW x \in Ids, Store(x) PROVE status[w] = "NONE" /\ status'[w] = "PENDING"
  <2>1. x = w /\ at[w]["request"] = "store" /\ status'[w] = "PENDING"
    BY <1>3 DEF Store, Goto, TypeOK
  <2> QED
    BY <1>1, <2>1 DEF OrderlyAt
<1>4. ASSUME NEW x \in Ids, MarkRejected(x) PROVE status[w] = "PENDING" /\ status'[w] = "REJECTED"
  <2>1. x = w /\ at[w]["reviewer"] = "mark" /\ status'[w] = "REJECTED"
    BY <1>4 DEF MarkRejected, Goto, TypeOK
  <2> QED
    BY <1>1, <2>1 DEF OrderlyAt, In
<1>5. ASSUME NEW x \in Ids, WriteSuccess(x) \/ \E c \in Callers : MarkSent(x, c)
      PROVE  status'[w] \in Sent
  BY <1>5 DEF WriteSuccess, MarkSent, TypeOK, Sent
<1> QED
  BY <1>2, <1>3, <1>4, <1>5 DEF Sent

\* A caller that has its answer does not lose it.
LEMMA AnsweredKept ==
  ASSUME TypeOK, Orderly, [Next]_vars, NEW w \in Ids
  PROVE  /\ Answered(w) \in {0, 1} /\ Answered(w)' \in {0, 1}
         /\ Answered(w) = 0 \/ Answered(w)' = 1
<1>1. CASE status[w] \in Sent
  BY <1>1, StatusKept DEF Answered
<1>2. ASSUME NEW c \in Callers, at[w][c] = "sent", at'[w][c] # "sent"
      PROVE  status'[w] \in Sent
  <2>1. \E x \in Ids, d \in Callers : MarkSent(x, d) /\ x = w
    <3>1. Mine \/ UNCHANGED vars => at' = at
      BY DEF Mine, vars
    <3>2. \A x \in Ids : ~ConfirmWithdrawal(x)
      BY <1>2 DEF ConfirmWithdrawal, AskConfirmations, WriteSuccess, NoConfirmation
    <3>3. \A x \in Ids, what \in {"approve", "reject"} : ~Review(x, what)
      <4> SUFFICES ASSUME NEW x \in Ids, NEW what \in {"approve", "reject"}, Review(x, what)
                   PROVE  FALSE
        OBVIOUS
      <4>1. at[x]["reviewer"] # "sent" /\ at' = [at EXCEPT ![x]["reviewer"] = what]
        BY DEF Review
      <4>2. x # w \/ c # "reviewer" => at'[w][c] = at[w][c]
        BY <4>1 DEF TypeOK
      <4> QED
        BY <1>2, <4>1, <4>2
    <3>4. \A x \in Ids : \A d, from, to : Goto(x, d, from, to) => x = w /\ d = c /\ from = "sent"
      BY <1>2 DEF Goto, TypeOK
    <3>5. \A x \in Ids : ~Submit(x) /\ ~Reject(x)
      BY <3>4 DEF Submit, FreezeAmount, FreezeFee, Rollback, Store, Reject, CheckRejectable,
                  ReleaseAmount, ReleaseFee, MarkRejected
    <3>6. \A x \in Ids, d \in Callers : Approve(x, d) => MarkSent(x, d) /\ x = w
      BY <3>4 DEF Approve, CheckPending, SignFails, Sign, Broadcast, BroadcastFails, MarkSent,
                  KeepHash, ConsumeAmount, ConsumeFee
    <3> QED
      BY <1>2, <3>1, <3>2, <3>3, <3>5, <3>6 DEF Next
  <2> QED
    BY <2>1 DEF MarkSent, TypeOK, Sent
<1>3. CASE In(w, {"sent"})
  <2>1. PICK c \in Callers : at[w][c] = "sent"
    BY <1>3 DEF In, Callers
  <2>2. at'[w][c] = "sent" => In(w, {"sent"})'
    BY DEF In, Callers
  <2> QED
    BY <1>2, <2>1, <2>2 DEF Answered
<1> QED
  BY <1>1, <1>3 DEF Answered

\* A withdrawal is in finitely many transactions.
LEMMA TxsFinite ==
  ASSUME TypeOK, NEW w \in Ids
  PROVE  IsFiniteSet(TxsOf(w)) /\ Cardinality(TxsOf(w)) \in Nat
<1>1. Len(txs) \in Nat /\ DOMAIN txs = 1 .. Len(txs)
  BY DEF TypeOK
<1>2. IsFiniteSet(1 .. Len(txs))
  BY <1>1, FS_Interval
<1> QED
  BY <1>1, <1>2, FS_Subset, FS_CardinalityType DEF TxsOf

\* A transaction that the node takes adds at most one to those of the
\* withdrawal it is for, and none to those of another.
LEMMA CountsUp ==
  ASSUME TypeOK, Signed, NEW tx \in SignedTxs, tx # NoTx, Accept(tx), NEW w \in Ids
  PROVE  Cardinality(TxsOf(w)') <= Cardinality(TxsOf(w)) + (IF w = tx.id THEN 1 ELSE 0)
<1>1. PICK k \in DOMAIN txs' :
        /\ txs'[k] = tx
        /\ \A i \in DOMAIN txs' \ {k} : i \in DOMAIN txs /\ txs'[i] = txs[i]
  BY Accepted
<1>2. IsFiniteSet(TxsOf(w)) /\ Cardinality(TxsOf(w)) \in Nat
  BY TxsFinite
<1>3. CASE w = tx.id
  <2>1. TxsOf(w)' \subseteq TxsOf(w) \cup {k}
    BY <1>1 DEF TxsOf
  <2>2. /\ IsFiniteSet(TxsOf(w) \cup {k})
        /\ Cardinality(TxsOf(w) \cup {k}) \in {Cardinality(TxsOf(w)), Cardinality(TxsOf(w)) + 1}
    BY <1>2, FS_AddElement
  <2>3. Cardinality(TxsOf(w)') <= Cardinality(TxsOf(w) \cup {k})
    BY <2>1, <2>2, FS_Subset
  <2>4. Cardinality(TxsOf(w)') \in Nat
    BY <2>1, <2>2, FS_Subset, FS_CardinalityType
  <2> QED
    BY <1>2, <1>3, <2>2, <2>3, <2>4
<1>4. CASE w # tx.id
  <2>1. TxsOf(w)' \subseteq TxsOf(w)
    BY <1>1, <1>4 DEF TxsOf
  <2>2. Cardinality(TxsOf(w)') <= Cardinality(TxsOf(w)) /\ Cardinality(TxsOf(w)') \in Nat
    BY <1>2, <2>1, FS_Subset, FS_CardinalityType
  <2> QED
    BY <1>2, <1>4, <2>2
<1> QED
  BY <1>3, <1>4

\* Every transaction is accounted for by an answer: one that came, or one that
\* was lost.
LEMMA CountedNext ==
  ASSUME TypeOK, TypeOK', Signed, Orderly, Counted, [Next]_vars
  PROVE  Counted'
<1>1. \A w \in Ids : status[w] # "NONE" => status'[w] # "NONE"
  BY StatusKept
<1>2. \A w \in Ids : lost[w] \in Nat /\ lost'[w] \in Nat /\ Cardinality(TxsOf(w)) \in Nat
  BY TxsFinite DEF TypeOK
<1>3. CASE UNCHANGED <<txs, lost>>
  <2>1. \A w \in Ids : TxsOf(w)' = TxsOf(w)
    BY <1>3 DEF TxsOf
  <2>2. ASSUME NEW w \in Ids
        PROVE  /\ Cardinality(TxsOf(w)') <= lost'[w] + Answered(w)'
               /\ status'[w] = "NONE" => lost'[w] = 0
    <3>1. Cardinality(TxsOf(w)') = Cardinality(TxsOf(w)) /\ lost'[w] = lost[w]
      BY <1>3, <2>1
    <3>2. /\ Cardinality(TxsOf(w)) <= lost[w] + Answered(w)
          /\ status[w] = "NONE" => lost[w] = 0
      BY DEF Counted
    <3>3. Cardinality(TxsOf(w)) <= lost[w] + Answered(w)'
      BY <1>2, <3>2, AnsweredKept
    <3> QED
      BY <1>1, <3>1, <3>2, <3>3
  <2> QED
    BY <2>2 DEF Counted
<1>4. ASSUME NEW w \in Ids, NEW c \in Callers, at[w][c] = "broadcast", Accept(draft[w][c]),
             \A x \in Ids \ {w} : lost'[x] = lost[x],
             \/ lost'[w] = lost[w] /\ at'[w][c] = "sent"
             \/ lost'[w] = lost[w] + 1
      PROVE  Counted'
  <2>1. draft[w][c] \in SignedTxs /\ draft[w][c] # NoTx /\ draft[w][c].id = w
    BY <1>4 DEF TypeOK, Signed, Sending
  <2>2. status[w] = "PENDING" /\ ~In(w, {"sent"})
    BY <1>4 DEF Orderly, OrderlyAt, In, Callers
  <2>3. \A x \in Ids : Cardinality(TxsOf(x)') <= Cardinality(TxsOf(x)) + (IF x = w THEN 1 ELSE 0)
    BY <1>4, <2>1, CountsUp
  <2>4. \A x \in Ids : TxsOf(x)' = {i \in DOMAIN txs' : txs'[i].id = x}
    BY DEF TxsOf
  <2>5. \A x \in Ids : Cardinality(TxsOf(x)') \in Nat
    <3>1. txs' \in Seq(SignedTxs \ {NoTx})
      BY <1>4, <2>1, Accepted
    <3>2. IsFiniteSet(DOMAIN txs')
      BY <3>1, FS_Interval
    <3> QED
      BY <2>4, <3>2, FS_Subset, FS_CardinalityType
  <2>6. ASSUME NEW x \in Ids \ {w}
        PROVE  /\ Cardinality(TxsOf(x)') <= lost'[x] + Answered(x)'
               /\ status'[x] = "NONE" => lost'[x] = 0
    <3>1. Cardinality(TxsOf(x)') <= Cardinality(TxsOf(x)) /\ lost'[x] = lost[x]
      BY <1>2, <1>4, <2>3, <2>6
    <3>2. /\ Cardinality(TxsOf(x)) <= lost[x] + Answered(x)
          /\ status[x] = "NONE" => lost[x] = 0
      BY DEF Counted
    <3>3. Cardinality(TxsOf(x)') \in Nat /\ Cardinality(TxsOf(x)) \in Nat /\ lost[x] \in Nat
      BY <1>2, <2>5
    <3>4. Cardinality(TxsOf(x)) <= lost[x] + Answered(x)'
      BY <3>2, <3>3, AnsweredKept
    <3>5. Answered(x)' \in {0, 1}
      BY AnsweredKept
    <3> QED
      BY <1>1, <3>1, <3>2, <3>3, <3>4, <3>5
  <2>7. /\ Cardinality(TxsOf(w)') <= lost'[w] + Answered(w)'
        /\ status'[w] = "NONE" => lost'[w] = 0
    <3>1. Cardinality(TxsOf(w)') <= Cardinality(TxsOf(w)) + 1
      BY <2>3
    <3>2. Answered(w) = 0 /\ Cardinality(TxsOf(w)) <= lost[w] + Answered(w)
      <4>1. Answered(w) = 0
        BY <2>2 DEF Answered, Sent
      <4> QED
        BY <4>1 DEF Counted
    <3>3. status'[w] # "NONE"
      <4>1. status[w] # "NONE"
        BY <2>2
      <4> QED
        BY <1>1, <4>1
    <3>4. Cardinality(TxsOf(w)') <= lost[w] + 1
      BY <1>2, <2>5, <3>1, <3>2
    <3>5. at'[w][c] = "sent" => Answered(w)' = 1
      BY DEF Answered, In, Callers
    <3>6. Answered(w)' \in {0, 1}
      BY AnsweredKept
    <3>7. Cardinality(TxsOf(w)') <= lost'[w] + Answered(w)'
      BY <1>2, <1>4, <2>5, <3>4, <3>5, <3>6
    <3> QED
      BY <3>3, <3>7
  <2> QED
    BY <2>6, <2>7 DEF Counted
<1>5. ASSUME NEW w \in Ids, NEW c \in Callers, Approve(w, c) PROVE Counted'
  <2>1. CASE Broadcast(w, c)
    <3>1. at[w][c] = "broadcast" /\ at'[w][c] = "sent" /\ lost' = lost /\ Accept(draft[w][c])
      BY <2>1 DEF Broadcast, Goto, TypeOK
    <3> QED
      BY <1>4, <3>1
  <2>2. CASE BroadcastFails(w, c)
    <3>1. at[w][c] = "broadcast" /\ Unanswered(w, c)
      BY <2>2 DEF BroadcastFails, Goto
    <3>2. CASE UNCHANGED <<lost, node>>
      BY <1>3, <3>2 DEF node
    <3>3. CASE Accept(draft[w][c]) /\ lost' = [lost EXCEPT ![w] = @ + 1]
      BY <1>4, <3>1, <3>3 DEF TypeOK
    <3> QED
      BY <3>1, <3>2, <3>3 DEF Unanswered
  <2>3. CASE CheckPending(w, c) \/ MarkSent(w, c) \/ ConsumeAmount(w, c) \/ ConsumeFee(w, c)
    BY <1>3, <2>3 DEF CheckPending, MarkSent, ConsumeAmount, ConsumeFee, sending, node
  <2>4. CASE SignFails(w, c) \/ KeepHash(w, c) \/ \E price \in Prices : Sign(w, c, price)
    BY <1>3, <2>4 DEF SignFails, KeepHash, Sign, sending, node
  <2> QED
    BY <1>5, <2>1, <2>2, <2>3, <2>4 DEF Approve
<1>6. ASSUME NEW w \in Ids, Submit(w) \/ Reject(w) \/ ConfirmWithdrawal(w) PROVE Counted'
  <2>1. UNCHANGED <<txs, lost>>
    BY <1>6 DEF Submit, FreezeAmount, FreezeFee, Rollback, Store, Reject, CheckRejectable,
       ReleaseAmount, ReleaseFee, MarkRejected, ConfirmWithdrawal, AskConfirmations, WriteSuccess,
       NoConfirmation, sending, node
  <2> QED
    BY <1>3, <2>1
<1>7. ASSUME NEW w \in Ids, NEW what \in {"approve", "reject"}, Review(w, what) PROVE Counted'
  BY <1>3, <1>7 DEF Review, sending, node
<1>8. CASE Mine \/ UNCHANGED vars
  <2>1. UNCHANGED <<txs, lost>>
    BY <1>8 DEF Mine, MineTx, vars, sending, node
  <2> QED
    BY <1>3, <2>1
<1> QED
  BY <1>5, <1>6, <1>7, <1>8 DEF Next

------------------------------------------------------------------------------
(***************************************************************************)
(* What callers that do not overlap can rely on                            *)
(***************************************************************************)

\* At first nothing is frozen and nothing is asked for.
LEMMA OneByOneInit == Init => OneByOne
<1> SUFFICES ASSUME Init PROVE OneByOne
  OBVIOUS
<1>1. \A w \in Ids : /\ at[w]["request"] = "idle" /\ at[w]["reviewer"] = "idle"
                    /\ status[w] = "NONE" /\ lost[w] = 0 /\ txHash[w] = NoTx
  BY DEF Init, Callers
<1>2. Orderly
  BY <1>1 DEF Orderly, OrderlyAt, In
<1>3. Booked
  <2>1. \A w \in Ids : HeldBy[w] = 0 /\ UsedBy[w] = 0
    BY <1>1 DEF HeldBy, UsedBy, Held, Used, In, Sent
  <2>2. IsFiniteSet(Ids) /\ IsFiniteSet({}) /\ SumFunctionOnSet(HeldBy, {}) = 0
    BY WithdrawalAssumption, FS_EmptySet, SumEmpty
  <2>3. ASSUME NEW S \in SUBSET Ids
        PROVE  SumFunctionOnSet(HeldBy, S) = 0 /\ SumFunctionOnSet(UsedBy, S) = 0
    <3>1. IsFiniteSet(S) /\ {} \subseteq S
      BY <2>2, FS_Subset
    <3>2. \A x \in S \ {} : HeldBy[x] = 0 /\ UsedBy[x] = 0
      BY <2>1
    <3>3. \A x \in {} : HeldBy[x] \in Int
      OBVIOUS
    <3>4. SumFunctionOnSet(HeldBy, S) = SumFunctionOnSet(HeldBy, {})
      BY <3>1, <3>2, <3>3, SumOfPart
    <3>5. \A x \in S : HeldBy[x] \in Int /\ UsedBy[x] = HeldBy[x]
      BY <2>1
    <3>6. SumFunctionOnSet(UsedBy, S) = SumFunctionOnSet(HeldBy, S)
      BY <3>1, <3>5, SumSame
    <3> QED
      BY <2>2, <3>4, <3>6
  <2>4. bal = Deposits /\ \A u \in Users : Own(u) \subseteq Ids /\ Total(bal, u, Coin) \in Int
    BY WithdrawalAssumption DEF Init, Own, Total, BalanceTypes
  <2>5. \A u \in Users : bal[u][Coin].frozen = 0
    BY <2>4, WithdrawalAssumption
  <2>6. Supply(bal, Coin) \in Int
    <3>1. IsFiniteSet(Users)
      BY WithdrawalAssumption
    <3> DEFINE f == [u \in Users |-> Total(bal, u, Coin)]
    <3>2. \A u \in Users : f[u] \in Int
      BY <2>4
    <3>3. Supply(bal, Coin) = SumFunctionOnSet(f, Users)
      BY DEF Supply
    <3> HIDE DEF f
    <3> QED
      BY <3>1, <3>2, <3>3, SumType
  <2>7. \A u \in Users : /\ SumFunctionOnSet(HeldBy, Own(u)) = 0
                        /\ SumFunctionOnSet(UsedBy, Own(u)) = 0
    BY <2>3, <2>4
  <2>8. SumFunctionOnSet(UsedBy, Ids) = 0
    BY <2>3
  <2> QED
    BY <2>4, <2>5, <2>6, <2>7, <2>8 DEF Booked
<1>4. Counted
  <2>1. \A w \in Ids : TxsOf(w) = {}
    BY DEF Init, NodeInit, TxsOf
  <2>2. \A w \in Ids : Answered(w) = 0
    BY <1>1 DEF Answered, In, Sent
  <2>3. \A w \in Ids : Cardinality(TxsOf(w)) = 0
    BY <2>1, FS_EmptySet
  <2> QED
    BY <1>1, <2>2, <2>3 DEF Counted
<1> QED
  BY <1>2, <1>3, <1>4 DEF OneByOne

\* As long as the calls for one withdrawal do not overlap, the books agree with
\* the places of the callers, and every transaction with an answer.
THEOREM OneByOneInvariance ==
  ASSUME ~Overlapping
  PROVE  Spec => []OneByOne
<1>1. Always /\ OneByOne /\ [Next]_vars => OneByOne'
  <2> SUFFICES ASSUME Always, OneByOne, [Next]_vars PROVE OneByOne'
    OBVIOUS
  <2>1. TypeOK /\ Signed /\ SentUnderway /\ TypeOK'
    BY AlwaysNext DEF Always
  <2> QED
    BY <2>1, MoneyNext, CountedNext DEF OneByOne
<1> QED
  BY <1>1, OneByOneInit, Invariance, PTL DEF Spec

\* Between calls, what is frozen is what pending withdrawals will cost: no path
\* of SubmitWithdrawal, ApproveWithdrawal or RejectWithdrawal that ends early
\* keeps or gives back too much.
THEOREM FrozenBacksPendingSafe ==
  ASSUME ~Overlapping
  PROVE  Spec => []FrozenBacksPending
<1>1. Always /\ OneByOne => FrozenBacksPending
  <2> SUFFICES ASSUME Always, OneByOne, \A w \in Ids : Quiet(w), NEW u \in Users
               PROVE  bal[u][Coin].frozen = Charges({w \in With({"PENDING"}) : Owner[w] = u})
    BY DEF FrozenBacksPending, Quietly
  <2> DEFINE P == {w \in With({"PENDING"}) : Owner[w] = u}
             f == [w \in Ids |-> Charge(w)]
  <2>1. bal[u][Coin].frozen = SumFunctionOnSet(HeldBy, Own(u))
    BY DEF OneByOne, Booked
  <2>2. P \subseteq Own(u) /\ IsFiniteSet(Own(u)) /\ P \subseteq Ids
    BY WithdrawalAssumption, FS_Subset DEF With, Own
  <2>3. \A w \in Ids : /\ at[w]["request"] \in {"idle", "done"}
                      /\ at[w]["reviewer"] \in {"idle", "done"}
    BY DEF Quiet, Callers
  <2>4. \A w \in Ids : Charge(w) \in Int
    BY Costs DEF Always, Charge
  <2>5. \A w \in P : f[w] \in Int /\ HeldBy[w] = f[w]
    BY <2>3, <2>4 DEF With, HeldBy, Held, In
  <2>6. \A w \in Own(u) \ P : HeldBy[w] = 0
    BY <2>3 DEF With, Own, HeldBy, Held, In
  <2>7. Charges(P) = SumFunctionOnSet(f, P)
    BY DEF Charges
  <2> HIDE DEF P, f
  <2>8. SumFunctionOnSet(HeldBy, Own(u)) = SumFunctionOnSet(f, P)
    BY <2>2, <2>5, <2>6, SumOfPart
  <2> QED
    BY <2>1, <2>7, <2>8 DEF P
<1> QED
  BY <1>1, Invariance, OneByOneInvariance, PTL

\* Between calls, what was sent out is under way and has been charged for, each
\* withdrawal once and with its fee, and nothing else has left the books.
THEOREM BooksMatchStatusSafe ==
  ASSUME ~Overlapping
  PROVE  Spec => []BooksMatchStatus
<1>1. Always /\ OneByOne => BooksMatchStatus
  <2> DEFINE P == With({"BROADCAST", "SUCCESS"})
             f == [w \in Ids |-> Charge(w)]
  <2> SUFFICES ASSUME Always, OneByOne, \A w \in Ids : Quiet(w)
               PROVE  /\ \A w \in P : Underway(w)
                      /\ Supply(Deposits, Coin) - Supply(bal, Coin) = Charges(P)
    BY DEF BooksMatchStatus, Quietly
  <2>1. \A w \in P : Underway(w)
    <3>1. \A w \in P, c \in Callers : w \in Ids /\ status[w] \in Sent /\ at[w][c] # "hash"
      <4>1. \A w \in P : w \in Ids /\ status[w] \in Sent
        BY DEF With, Sent
      <4> QED
        BY <4>1 DEF Quiet
    <3>2. \A w \in P : w \in Ids /\ txHash[w] # NoTx
      <4>1. \E c \in Callers : TRUE
        BY DEF Callers
      <4> QED
        BY <3>1, <4>1 DEF Always, SentUnderway
    <3> QED
      BY <3>2 DEF Always, SentUnderway, Underway
  <2>2. Supply(bal, Coin) + SumFunctionOnSet(UsedBy, Ids) = Supply(Deposits, Coin)
    BY DEF OneByOne, Booked
  <2>3. P \subseteq Ids /\ IsFiniteSet(Ids)
    BY WithdrawalAssumption DEF With
  <2>4. \A w \in Ids : /\ at[w]["request"] \in {"idle", "done"}
                      /\ at[w]["reviewer"] \in {"idle", "done"}
    BY DEF Quiet, Callers
  <2>5. \A w \in Ids : Charge(w) \in Int
    BY Costs DEF Always, Charge
  <2>6. \A w \in P : f[w] \in Int /\ UsedBy[w] = f[w]
    <3> SUFFICES ASSUME NEW w \in P PROVE Charge(w) \in Int /\ Used(w) = Charge(w)
      BY <2>3 DEF UsedBy
    <3>1. Held(w) = 0 /\ status[w] \in Sent
      BY <2>4 DEF With, Held, In, Sent
    <3> QED
      BY <2>3, <2>5, <3>1 DEF Used
  <2>7. \A w \in Ids \ P : UsedBy[w] = 0
    BY DEF With, UsedBy, Used, Sent
  <2>8. Charges(P) = SumFunctionOnSet(f, P)
    BY DEF Charges
  <2>9. \A v \in Users : Total(bal, v, Coin) \in Int
    BY WithdrawalAssumption DEF Always, TypeOK, BalanceTypes, Total
  <2>10. Supply(bal, Coin) \in Int
    <3> DEFINE g == [v \in Users |-> Total(bal, v, Coin)]
    <3>1. \A v \in Users : g[v] \in Int
      BY <2>9
    <3>2. Supply(bal, Coin) = SumFunctionOnSet(g, Users) /\ IsFiniteSet(Users)
      BY WithdrawalAssumption DEF Supply
    <3> HIDE DEF g
    <3> QED
      BY <3>1, <3>2, SumType
  <2> HIDE DEF P, f
  <2>11. SumFunctionOnSet(UsedBy, Ids) = SumFunctionOnSet(f, P)
    BY <2>3, <2>6, <2>7, SumOfPart
  <2>12. \A w \in Ids : UsedBy[w] \in Int
    <3>1. \A w \in Ids : Used(w) \in Nat
      BY Costs DEF Always
    <3> QED
      BY <3>1 DEF UsedBy
  <2>13. SumFunctionOnSet(UsedBy, Ids) \in Int
    BY <2>3, <2>12, SumType
  <2>14. Supply(Deposits, Coin) - Supply(bal, Coin) = Charges(P)
    BY <2>2, <2>8, <2>10, <2>11, <2>13
  <2> QED
    BY <2>1, <2>14
<1> QED
  BY <1>1, Invariance, OneByOneInvariance, PTL

\* What RejectWithdrawal gives back has not been sent out, from the first unit
\* given back, unless the node's answer was lost.
THEOREM RejectedIsUnsentSafe ==
  ASSUME ~Overlapping
  PROVE  Spec => []RejectedIsUnsent
<1>1. Always /\ OneByOne => RejectedIsUnsent
  <2> SUFFICES ASSUME Always, OneByOne, NEW w \in Ids, Released(w), lost[w] = 0
               PROVE  TxsOf(w) = {}
    BY DEF RejectedIsUnsent
  <2>1. OrderlyAt(w) /\ Cardinality(TxsOf(w)) <= lost[w] + Answered(w)
    BY DEF OneByOne, Orderly, Counted
  <2>2. status[w] \in {"PENDING", "REJECTED"} /\ ~In(w, {"sent"})
    BY <2>1 DEF Released, OrderlyAt, In
  <2>3. Answered(w) = 0
    BY <2>2 DEF Answered, Sent
  <2>4. IsFiniteSet(TxsOf(w)) /\ Cardinality(TxsOf(w)) \in Nat
    BY TxsFinite DEF Always
  <2>5. Cardinality(TxsOf(w)) = 0
    BY <2>1, <2>3, <2>4
  <2> QED
    BY <2>4, <2>5, FS_EmptySet
<1> QED
  BY <1>1, Invariance, OneByOneInvariance, PTL

\* What leaves the hot wallet for a withdrawal is at most its amount, once, and
\* once more for each answer of the node that was lost: not so for TRX, whose
\* amounts BuildSignedTx converts the wrong way.
THEOREM PaidWithinAmountSafe ==
  ASSUME ~Overlapping, "trx" \notin Kinds
  PROVE  Spec => []PaidWithinAmount
<1>1. Always /\ OneByOne => PaidWithinAmount
  <2> SUFFICES ASSUME Always, OneByOne, NEW w \in Ids
               PROVE  Cardinality(TxsOf(w)) * ChainAmount(amount[w]) * Scale[kind].coarser
                        <= (1 + lost[w]) * amount[w] * Scale[kind].finer
    BY DEF PaidWithinAmount
  <2> DEFINE n == Cardinality(TxsOf(w))
             x == ChainAmount(amount[w])
             b == Scale[kind].coarser
             a == Scale[kind].finer
             q == amount[w]
  <2>1. n \in Nat /\ lost[w] \in Nat /\ q \in Nat
    BY TxsFinite, Costs DEF Always, TypeOK
  <2>2. kind \in Kinds /\ kind # "trx"
    BY DEF Always, TypeOK
  <2>3. b \in Nat \ {0} /\ a \in Nat \ {0}
    BY <2>2, HotWalletAssumption DEF Scales
  <2>4. x = (q * a) \div b
    BY <2>2 DEF ChainAmount, FromUnits
  <2>5. n <= 1 + lost[w]
    <3>1. n <= lost[w] + Answered(w) /\ Answered(w) \in {0, 1}
      BY DEF OneByOne, Counted, Answered
    <3> QED
      BY <2>1, <3>1
  <2> HIDE DEF n, x, a, b, q
  <2>6. q * a \in Nat
    BY <2>1, <2>3
  <2>7. x * b <= q * a /\ x \in Nat
    BY <2>3, <2>4, <2>6, DivBounds, DivNat
  <2>8. x * b \in Nat
    BY <2>3, <2>7
  <2>9. n * (x * b) <= (1 + lost[w]) * (q * a)
    <3> DEFINE y == x * b
               z == q * a
               m == 1 + lost[w]
    <3>1. y \in Nat /\ z \in Nat /\ m \in Nat /\ n \in Nat /\ n <= m /\ y <= z
      BY <2>1, <2>5, <2>6, <2>7, <2>8
    <3> HIDE DEF y, z, m
    <3>2. n * y <= m * y /\ m * y <= m * z
      BY <3>1, MulMono
    <3>3. n * y \in Int /\ m * y \in Int /\ m * z \in Int
      BY <3>1
    <3> QED
      BY <3>2, <3>3 DEF y, z, m
  <2>10. n * x * b = n * (x * b) /\ (1 + lost[w]) * q * a = (1 + lost[w]) * (q * a)
    BY <2>1, <2>3, <2>7
  <2> QED
    BY <2>9, <2>10 DEF n, x, a, b, q
<1> QED
  BY <1>1, Invariance, OneByOneInvariance, PTL

\* Not even between two steps can a user spend what has been sent out for that
\* user, whatever the node's answer was.
THEOREM NothingForFreeSafe ==
  ASSUME ~Overlapping
  PROVE  Spec => []NothingForFree
<1>1. Always /\ OneByOne => NothingForFree
  <2> SUFFICES ASSUME Always, OneByOne, NEW u \in Users
               PROVE  bal[u][Coin].available
                        + Charges({w \in Ids : Owner[w] = u /\ TxsOf(w) # {} /\ ~Released(w)})
                      <= Total(Deposits, u, Coin)
    BY DEF NothingForFree
  <2> DEFINE P == {w \in Ids : Owner[w] = u /\ TxsOf(w) # {} /\ ~Released(w)}
             f == [w \in Ids |-> Charge(w)]
             g == [w \in Ids |-> Held(w) + Used(w)]
  <2>1. /\ bal[u][Coin].frozen = SumFunctionOnSet(HeldBy, Own(u))
        /\ Total(bal, u, Coin) + SumFunctionOnSet(UsedBy, Own(u)) = Total(Deposits, u, Coin)
    BY DEF OneByOne, Booked
  <2>2. P \subseteq Own(u) /\ IsFiniteSet(Own(u)) /\ Own(u) \subseteq Ids
    BY WithdrawalAssumption, FS_Subset DEF Own
  <2>3. \A w \in Ids : /\ Held(w) \in Nat /\ Used(w) \in Nat /\ Charge(w) \in Nat
                      /\ HeldBy[w] = Held(w) /\ UsedBy[w] = Used(w)
                      /\ g[w] = Held(w) + Used(w) /\ f[w] = Charge(w)
    BY Costs DEF Always, Charge, HeldBy, UsedBy
  <2>4. ASSUME NEW w \in P PROVE Charge(w) = Held(w) + Used(w)
    <3>1. w \in Ids /\ TxsOf(w) # {} /\ ~Released(w) /\ OrderlyAt(w)
      BY DEF OneByOne, Orderly
    <3>2. status[w] # "NONE"
      <4>1. Cardinality(TxsOf(w)) # 0
        BY <3>1, TxsFinite, FS_EmptySet DEF Always
      <4>2. /\ Cardinality(TxsOf(w)) <= lost[w] + Answered(w)
            /\ status[w] = "NONE" => lost[w] = 0 /\ Answered(w) = 0
        <5>1. status[w] = "NONE" => Answered(w) = 0
          BY <3>1 DEF OrderlyAt, Answered, In, Sent
        <5> QED
          BY <3>1, <5>1 DEF OneByOne, Counted
      <4>3. Cardinality(TxsOf(w)) \in Nat
        BY <3>1, TxsFinite DEF Always
      <4> QED
        BY <4>1, <4>2, <4>3 DEF Sent
    <3>3. /\ status[w] \in {"PENDING", "BROADCAST", "SUCCESS"}
          /\ at[w]["reviewer"] \notin {"releaseFee", "mark"}
      BY <3>1, <3>2 DEF Released, Always, TypeOK
    <3>4. CASE status[w] = "PENDING"
      <4>1. ~In(w, {"fee", "rollback", "consumeFee", "releaseFee", "mark"})
        BY <3>1, <3>3, <3>4 DEF OrderlyAt, In, Sent
      <4>2. Held(w) = Charge(w) /\ Used(w) = 0
        BY <3>4, <4>1 DEF Held, Used, In, Sent
      <4> QED
        BY <2>3, <3>1, <4>2
    <3>5. CASE status[w] \in Sent
      BY <2>3, <3>1, <3>5 DEF Used
    <3> QED
      BY <3>3, <3>4, <3>5 DEF Sent
  <2>5. Charges(P) = SumFunctionOnSet(f, P)
    BY DEF Charges
  <2>6. \A w \in P : f[w] \in Int /\ f[w] <= g[w]
    BY <2>2, <2>3, <2>4
  <2>7. bal[u][Coin].available \in Nat /\ bal[u][Coin].frozen \in Nat
    BY WithdrawalAssumption DEF Always, TypeOK, BalanceTypes
  <2>8. Total(bal, u, Coin) = bal[u][Coin].available + bal[u][Coin].frozen
    BY DEF Total
  <2>9. \A w \in Own(u) : /\ HeldBy[w] \in Int /\ UsedBy[w] \in Int
                         /\ g[w] = HeldBy[w] + UsedBy[w] /\ g[w] \in Nat
    BY <2>2, <2>3
  <2> HIDE DEF P, f, g
  <2>10. SumFunctionOnSet(f, P) <= SumFunctionOnSet(g, Own(u))
    BY <2>2, <2>6, <2>9, SumWithin
  <2>11. SumFunctionOnSet(g, Own(u))
           = SumFunctionOnSet(HeldBy, Own(u)) + SumFunctionOnSet(UsedBy, Own(u))
    BY <2>2, <2>9, SumAdd
  <2>12. /\ SumFunctionOnSet(f, P) \in Int
         /\ SumFunctionOnSet(HeldBy, Own(u)) \in Int /\ SumFunctionOnSet(UsedBy, Own(u)) \in Int
    <3>1. IsFiniteSet(P)
      BY <2>2, FS_Subset
    <3> QED
      BY <2>2, <2>6, <2>9, <3>1, SumType
  <2>13. bal[u][Coin].available + SumFunctionOnSet(f, P) <= Total(Deposits, u, Coin)
    BY <2>1, <2>7, <2>8, <2>10, <2>11, <2>12
  <2> QED
    BY <2>5, <2>13 DEF P
<1> QED
  BY <1>1, Invariance, OneByOneInvariance, PTL
===============================================================================

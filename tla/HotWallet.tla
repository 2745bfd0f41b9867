------------------------------- MODULE HotWallet -------------------------------
(***************************************************************************)
(* How withdrawals leave the hot wallet: BuildSignedTx and Broadcast of the *)
(* adapters in evm.go and tron.go, and what the node makes of the          *)
(* transactions it is given.  Signing asks the node for the next nonce and  *)
(* the price of the moment; nothing holds the nonce until the transaction   *)
(* is broadcast.  TRON transactions have no nonce.                         *)
(***************************************************************************)
EXTENDS ChainUnits, Sequences, FiniteSets

CONSTANTS
  Kinds,     \* what may be sent: "evm" (coin or token), "trc20", "trx"
  Scale,     \* kind -> scale of the asset
  Prices,    \* gas prices the node may suggest
  MaxTxs     \* bound: places among the node's transactions

ASSUME HotWalletAssumption ==
  /\ Kinds \subseteq {"evm", "trc20", "trx"} /\ Scale \in [Kinds -> Scales]
  /\ Prices \subseteq Nat
  /\ MaxTxs \in Nat \ {0}

VARIABLES
  kind,    \* what is sent
  txs,     \* transactions of the hot wallet the node has, the i-th with nonce i - 1
  mined    \* which of them are in the chain

node == <<kind, txs, mined>>

NodeInit == kind \in Kinds /\ txs = <<>> /\ mined = {}

\* BuildSignedTx for w.  PendingNonceAt counts the waiting transactions too.
\* (For TRON, the nonce stands for the block that the transaction refers to.)
SignedTx(w, price) == [id |-> w, nonce |-> Len(txs), price |-> price]

\* The amount in the transaction.  A TRX amount goes through the conversion
\* for deposits.
ChainAmount(units) ==
  IF kind = "trx" THEN ToUnitsInternal(units, Scale[kind]) ELSE FromUnits(units, Scale[kind])

\* Is tx the next one?
IsNext(tx) == kind # "evm" \/ tx.nonce = Len(txs)

\* Does tx take the place of one that waits, with the same nonce?
Outbids(tx) ==
  kind = "evm" /\ tx.nonce + 1 \in DOMAIN txs \ mined /\ tx.price > txs[tx.nonce + 1].price

Acceptable(tx) == (IsNext(tx) /\ Len(txs) < MaxTxs) \/ Outbids(tx)

\* The node takes tx (not part of the program).
Accept(tx) ==
  /\ Acceptable(tx)
  /\ txs' = IF IsNext(tx) THEN Append(txs, tx) ELSE [txs EXCEPT ![tx.nonce + 1] = tx]
  /\ UNCHANGED <<kind, mined>>

\* The chain confirms a transaction, by nonce if it has one (not part of the
\* program).
MineTx(i) ==
  /\ i \in DOMAIN txs \ mined
  /\ kind = "evm" => i = Cardinality(mined) + 1
  /\ mined' = mined \cup {i}
  /\ UNCHANGED <<kind, txs>>

\* The transactions for w.
TxsOf(w) == {i \in DOMAIN txs : txs[i].id = w}
===============================================================================

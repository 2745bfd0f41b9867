------------------------------ MODULE Withdrawal ------------------------------
(***************************************************************************)
(* Withdrawals (internal/wallet/service.go) of one asset, between the      *)
(* balances and the hot wallet.  A request submits a withdrawal and        *)
(* approves it at once; a reviewer may approve or reject one that is still *)
(* pending, and one that was sent may be confirmed.  Every call of the     *)
(* asset service, every request to the node and every write of a status is *)
(* a step of its own: none of them happens under a lock.                   *)
(***************************************************************************)
EXTENDS Balances, HotWallet

CONSTANTS
  Ids,          \* withdrawals, each submitted at most once
  Owner,        \* withdrawal -> the user who asks for it
  Coin,         \* the asset
  Amounts,      \* amounts that may be asked for
  Fee,          \* FeeUnits of the asset; may be 0
  Deposits,     \* balances: what everybody starts with
  Reviewed,     \* is there a reviewer?
  Overlapping,  \* may the reviewer act while the request is being processed?
  Failures      \* how the node may fail: "refused", or the answer is "lost"

ASSUME WithdrawalAssumption ==
  /\ IsFiniteSet(Ids) /\ IsFiniteSet(Users) /\ "none" \notin Ids
  /\ Owner \in [Ids -> Users] /\ Coin \in Assets
  /\ Amounts \subseteq Nat \ {0} /\ Fee \in Nat
  /\ Deposits \in BalanceTypes /\ \A u \in Users : Deposits[u][Coin].frozen = 0
  /\ {Reviewed, Overlapping} \subseteq BOOLEAN
  /\ Failures \subseteq {"refused", "lost"}

VARIABLES
  bal,      \* the asset service
  amount,   \* AmountUnits
  status,   \* Status; "NONE" before the withdrawal is stored
  at,       \* at[w].request, at[w].reviewer: where these two callers stand
  draft,    \* draft[w][c]: the transaction the caller has signed, or NoTx
  txHash,   \* TxHash: the transaction it was sent out with, or NoTx
  asking,   \* the transaction ConfirmWithdrawal is asking about, or NoTx
  lost      \* how many answers about it have been lost
sending == <<draft, txHash, asking, lost, node>>
vars    == <<bal, amount, status, at, sending>>

NoTx == [id |-> "none", nonce |-> 0, price |-> 0]

Callers == {"request", "reviewer"}

Init ==
  /\ bal = Deposits
  /\ amount = [w \in Ids |-> 0]
  /\ status = [w \in Ids |-> "NONE"]
  /\ at = [w \in Ids |-> [c \in Callers |-> "idle"]]
  /\ draft = [w \in Ids |-> [c \in Callers |-> NoTx]]
  /\ txHash = [w \in Ids |-> NoTx]
  /\ asking = [w \in Ids |-> NoTx]
  /\ lost = [w \in Ids |-> 0]
  /\ NodeInit

\* Caller c of withdrawal w goes from one place to another.
Goto(w, c, from, to) == at[w][c] = from /\ at' = [at EXCEPT ![w][c] = to]

\* Calls that do nothing if the balances do not allow them.
Unfrozen(w, q) ==
  IF CanRelease(bal, Owner[w], Coin, q) THEN AfterUnfreeze(bal, Owner[w], Coin, q) ELSE bal
Consumed(w, q) ==
  IF CanRelease(bal, Owner[w], Coin, q) THEN AfterConsume(bal, Owner[w], Coin, q) ELSE bal

------------------------------------------------------------------------------
\* SubmitWithdrawal: the amount is frozen, then the fee.

FreezeAmount(w, q) ==
  /\ CanFreeze(bal, Owner[w], Coin, q)
  /\ Goto(w, "request", "idle", IF Fee > 0 THEN "fee" ELSE "store")
  /\ bal' = AfterFreeze(bal, Owner[w], Coin, q)
  /\ amount' = [amount EXCEPT ![w] = q]
  /\ UNCHANGED <<status, sending>>

FreezeFee(w) ==
  /\ \/ /\ CanFreeze(bal, Owner[w], Coin, Fee)
        /\ Goto(w, "request", "fee", "store")
        /\ bal' = AfterFreeze(bal, Owner[w], Coin, Fee)
     \/ /\ ~CanFreeze(bal, Owner[w], Coin, Fee)
        /\ Goto(w, "request", "fee", "rollback")
        /\ UNCHANGED bal
  /\ UNCHANGED <<amount, status, sending>>

\* Faulty variant: an amount whose fee cannot be frozen stays frozen.
RollbackForgotten(w) ==
  /\ Goto(w, "request", "rollback", "done")
  /\ UNCHANGED <<bal, amount, status, sending>>

Rollback(w) ==
  /\ Goto(w, "request", "rollback", "done")
  /\ bal' = Unfrozen(w, amount[w])
  /\ UNCHANGED <<amount, status, sending>>

Store(w) ==
  /\ Goto(w, "request", "store", "approve")
  /\ status' = [status EXCEPT ![w] = "PENDING"]
  /\ UNCHANGED <<bal, amount, sending>>

------------------------------------------------------------------------------
\* ApproveWithdrawal

CheckPending(w, c) ==
  /\ Goto(w, c, "approve", IF status[w] = "PENDING" THEN "sign" ELSE "done")
  /\ UNCHANGED <<bal, amount, status, sending>>

\* The transaction is signed; the node tells nonce and price.
Sign(w, c, price) ==
  /\ Goto(w, c, "sign", "broadcast")
  /\ draft' = [draft EXCEPT ![w][c] = SignedTx(w, price)]
  /\ UNCHANGED <<bal, amount, status, txHash, asking, lost, node>>

SignFails(w, c) ==
  /\ "refused" \in Failures
  /\ Goto(w, c, "sign", "done")
  /\ UNCHANGED <<bal, amount, status, sending>>

\* The node takes the transaction and answers ...
Broadcast(w, c) ==
  /\ Goto(w, c, "broadcast", "sent")
  /\ Accept(draft[w][c])
  /\ UNCHANGED <<bal, amount, status, draft, txHash, asking, lost>>

\* ... the status follows ...
MarkSent(w, c) ==
  /\ Goto(w, c, "sent", "hash")
  /\ status' = [status EXCEPT ![w] = "BROADCAST"]
  /\ UNCHANGED <<bal, amount, sending>>

\* ... and then the hash.
KeepHash(w, c) ==
  /\ Goto(w, c, "hash", "consume")
  /\ txHash' = [txHash EXCEPT ![w] = draft[w][c]]
  /\ draft' = [draft EXCEPT ![w][c] = NoTx]
  /\ UNCHANGED <<bal, amount, status, asking, lost, node>>

\* The node refuses the transaction, or takes it and its answer is lost.
Unanswered(w, c) ==
  /\ \/ /\ "refused" \in Failures \/ ~Acceptable(draft[w][c])
        /\ UNCHANGED <<lost, node>>
     \/ /\ "lost" \in Failures /\ Accept(draft[w][c])
        /\ lost' = [lost EXCEPT ![w] = @ + 1]
  /\ draft' = [draft EXCEPT ![w][c] = NoTx]

\* Faulty variant: when the node reports an error, the amount is given back.
BroadcastFailsRefunds(w, c) ==
  /\ Goto(w, c, "broadcast", "done")
  /\ Unanswered(w, c)
  /\ bal' = Unfrozen(w, amount[w])
  /\ UNCHANGED <<amount, status, txHash, asking>>

\* Faulty variant: an error of the node is taken for the end of the matter.
BroadcastFailsSent(w, c) ==
  /\ Goto(w, c, "broadcast", "consume")
  /\ Unanswered(w, c)
  /\ status' = [status EXCEPT ![w] = "BROADCAST"]
  /\ txHash' = [txHash EXCEPT ![w] = draft[w][c]]
  /\ UNCHANGED <<bal, amount, asking>>

\* An error of the node ends the call and changes nothing here.
BroadcastFails(w, c) ==
  /\ Goto(w, c, "broadcast", "done")
  /\ Unanswered(w, c)
  /\ UNCHANGED <<bal, amount, status, txHash, asking>>

\* What was frozen is gone for good, first the amount, then the fee.
ConsumeAmount(w, c) ==
  /\ Goto(w, c, "consume",
          IF Fee > 0 /\ CanRelease(bal, Owner[w], Coin, amount[w]) THEN "consumeFee" ELSE "done")
  /\ bal' = Consumed(w, amount[w])
  /\ UNCHANGED <<amount, status, sending>>

ConsumeFee(w, c) ==
  /\ Goto(w, c, "consumeFee", "done")
  /\ bal' = Consumed(w, Fee)
  /\ UNCHANGED <<amount, status, sending>>

Approve(w, c) ==
  \/ CheckPending(w, c) \/ SignFails(w, c) \/ \E price \in Prices : Sign(w, c, price)
  \/ Broadcast(w, c) \/ BroadcastFails(w, c) \/ MarkSent(w, c) \/ KeepHash(w, c)
  \/ ConsumeAmount(w, c) \/ ConsumeFee(w, c)

------------------------------------------------------------------------------
\* The reviewer turns to a stored withdrawal, and may come back to it.

Review(w, what) ==
  /\ Reviewed /\ status[w] # "NONE"
  /\ Overlapping \/ at[w].request = "done"
  /\ at[w].reviewer \in {"idle", "done"}
  /\ at' = [at EXCEPT ![w]["reviewer"] = what]
  /\ UNCHANGED <<bal, amount, status, sending>>

\* Faulty variant: anything can be rejected.
CheckNothing(w) ==
  /\ Goto(w, "reviewer", "reject", "release")
  /\ UNCHANGED <<bal, amount, status, sending>>

\* RejectWithdrawal: the funds go back before the status says so.
CheckRejectable(w) ==
  /\ Goto(w, "reviewer", "reject", IF status[w] = "PENDING" THEN "release" ELSE "done")
  /\ UNCHANGED <<bal, amount, status, sending>>

ReleaseAmount(w) ==
  /\ Goto(w, "reviewer", "release", IF Fee > 0 THEN "releaseFee" ELSE "mark")
  /\ bal' = Unfrozen(w, amount[w])
  /\ UNCHANGED <<amount, status, sending>>

ReleaseFee(w) ==
  /\ Goto(w, "reviewer", "releaseFee", "mark")
  /\ bal' = Unfrozen(w, Fee)
  /\ UNCHANGED <<amount, status, sending>>

MarkRejected(w) ==
  /\ Goto(w, "reviewer", "mark", "done")
  /\ status' = [status EXCEPT ![w] = "REJECTED"]
  /\ UNCHANGED <<bal, amount, sending>>

Reject(w) == CheckRejectable(w) \/ ReleaseAmount(w) \/ ReleaseFee(w) \/ MarkRejected(w)

------------------------------------------------------------------------------
Mine ==
  /\ \E i \in 1 .. MaxTxs : MineTx(i)
  /\ UNCHANGED <<bal, amount, status, at, draft, txHash, asking, lost>>

\* ConfirmWithdrawal: the status and the hash are tested, the node is asked ...
AskConfirmations(w) ==
  /\ status[w] = "BROADCAST" /\ txHash[w] # NoTx /\ asking[w] = NoTx
  /\ asking' = [asking EXCEPT ![w] = txHash[w]]
  /\ UNCHANGED <<bal, amount, status, at, draft, txHash, lost, node>>

\* ... and if it finds the transaction in the chain, the status is written,
\* whatever it is by then.  (What the chain has, it still has when the answer
\* arrives.)
WriteSuccess(w) ==
  /\ asking[w] # NoTx
  /\ \E i \in mined : txs[i] = asking[w]
  /\ status' = [status EXCEPT ![w] = "SUCCESS"]
  /\ asking' = [asking EXCEPT ![w] = NoTx]
  /\ UNCHANGED <<bal, amount, at, draft, txHash, lost, node>>

\* No confirmation yet, or no answer: nothing is written.
NoConfirmation(w) ==
  /\ asking[w] # NoTx
  /\ "lost" \in Failures \/ ~\E i \in mined : txs[i] = asking[w]
  /\ asking' = [asking EXCEPT ![w] = NoTx]
  /\ UNCHANGED <<bal, amount, status, at, draft, txHash, lost, node>>

ConfirmWithdrawal(w) == AskConfirmations(w) \/ WriteSuccess(w) \/ NoConfirmation(w)

------------------------------------------------------------------------------
Submit(w) ==
  (\E q \in Amounts : FreezeAmount(w, q)) \/ FreezeFee(w) \/ Rollback(w) \/ Store(w)

Proceed(w) ==
  \/ FreezeFee(w) \/ Rollback(w) \/ Store(w) \/ Reject(w)
  \/ \E c \in Callers : Approve(w, c)

Next ==
  \/ Mine
  \/ \E w \in Ids :
    \/ Submit(w) \/ Reject(w) \/ ConfirmWithdrawal(w)
    \/ \E c \in Callers : Approve(w, c)
    \/ \E what \in {"approve", "reject"} : Review(w, what)

Spec == Init /\ [][Next]_vars

\* A call that has begun goes on, and the chain confirms what it was sent.
\* Nothing in the program calls ConfirmWithdrawal, so nothing is assumed of it.
FairSpec == Spec /\ WF_vars(Mine) /\ \A w \in Ids : WF_vars(Proceed(w))

------------------------------------------------------------------------------
(***************************************************************************)
(* Properties                                                              *)
(***************************************************************************)

Places ==
  {"idle", "fee", "rollback", "store", "approve", "sign", "broadcast", "sent", "hash",
   "consume", "consumeFee", "reject", "release", "releaseFee", "mark", "done"}

SignedTxs == {NoTx} \cup [id: Ids, nonce: 0 .. MaxTxs, price: Prices]

TypeOK ==
  /\ bal \in BalanceTypes
  /\ amount \in [Ids -> {0} \cup Amounts]
  /\ status \in [Ids -> {"NONE", "PENDING", "REJECTED", "BROADCAST", "SUCCESS"}]
  /\ at \in [Ids -> [Callers -> Places]]
  /\ draft \in [Ids -> [Callers -> SignedTxs]]
  /\ {txHash, asking} \subseteq [Ids -> SignedTxs]
  /\ lost \in [Ids -> Nat]
  /\ kind \in Kinds /\ txs \in Seq(SignedTxs \ {NoTx}) /\ mined \subseteq DOMAIN txs

Quiet(w) == \A c \in Callers : at[w][c] \in {"idle", "done"}
Quietly(P) == (\A w \in Ids : Quiet(w)) => P

With(S) == {w \in Ids : status[w] \in S}
Charge(w) == amount[w] + Fee
Charges(S) == SumFunctionOnSet([w \in Ids |-> Charge(w)], S)

\* Between calls, what a user has frozen is what the user's pending
\* withdrawals will cost: a refused fee or a rejection gives everything back,
\* and two withdrawals of one user do not live on each other's funds.
FrozenBacksPending ==
  Quietly(\A u \in Users :
    bal[u][Coin].frozen = Charges({w \in With({"PENDING"}) : Owner[w] = u}))

\* tx is among the transactions s, unless it has been outbid by one that was
\* signed with the same nonce.
Among(s, tx) ==
  \E i \in DOMAIN s : s[i] = tx \/ (s[i].nonce = tx.nonce /\ s[i].price > tx.price)

\* What w was sent out with is on the chain or waits, or has been outbid.
Underway(w) == Among(txs, txHash[w])

\* Between calls, the books have lost what the withdrawals sent out cost, each
\* once and with its fee, and nothing else; and each of those is under way, or
\* has lost its nonce to another that was signed at the same time.
BooksMatchStatus ==
  Quietly(LET out == With({"BROADCAST", "SUCCESS"}) IN
    /\ \A w \in out : Underway(w)
    /\ Supply(Deposits, Coin) - Supply(bal, Coin) = Charges(out))

\* What the hot wallet sends out for a withdrawal is at most its amount, less
\* what is too small for the chain, however its requests end, and once again
\* at most for each answer that was lost.
PaidWithinAmount ==
  \A w \in Ids :
    Cardinality(TxsOf(w)) * ChainAmount(amount[w]) * Scale[kind].coarser
      <= (1 + lost[w]) * amount[w] * Scale[kind].finer

\* Not even between two steps, and not even if the node's answer was lost, can
\* a user spend what has been sent out for that user, unless a reviewer has
\* rejected it.
Released(w) == status[w] = "REJECTED" \/ at[w].reviewer \in {"releaseFee", "mark"}

NothingForFree ==
  \A u \in Users :
    bal[u][Coin].available
      + Charges({w \in Ids : Owner[w] = u /\ TxsOf(w) # {} /\ ~Released(w)})
    <= Total(Deposits, u, Coin)

\* Money that a rejection gives back has not been sent out, at any step, unless
\* the node's answer was lost: the test for a pending withdrawal, made before
\* the node was asked or the balances were touched, still tells the truth when
\* it is acted upon.
RejectedIsUnsent == \A w \in Ids : Released(w) /\ lost[w] = 0 => TxsOf(w) = {}

------------------------------------------------------------------------------
(***************************************************************************)
(* Statements of the repository that the code does not keep (see README).  *)
(***************************************************************************)

\* A withdrawal is decided: its request does not end with it still pending.
Decided == \A w \in Ids : at[w].request = "done" => status[w] # "PENDING"

\* A withdrawal whose transaction is confirmed becomes a success.
SuccessFollows == \A w \in Ids : (mined \cap TxsOf(w) # {}) ~> status[w] = "SUCCESS"

\* What has been charged for has been sent: nothing outbids it.
StaysUnderway ==
  Quietly(\A w \in With({"BROADCAST", "SUCCESS"}) : TxsOf(w) # {})

\* TRX leave in sun, a hundredth of the unit of the books: PaidWithinAmount,
\* with kind "trx".
===============================================================================

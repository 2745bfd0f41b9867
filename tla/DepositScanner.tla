---------------------------- MODULE DepositScanner ----------------------------
(***************************************************************************)
(* The deposit scanner of internal/wallet on one chain, which evm.go,      *)
(* tron.go or btc.go adapts to it.  The scanner is one goroutine: each     *)
(* round it asks the node for the height, reads the blocks that are new to *)
(* it and credits the transfers to deposit addresses that have enough      *)
(* confirmations.  Every request to the node is a step, and the chain      *)
(* moves on between them.                                                  *)
(***************************************************************************)
EXTENDS ChainUnits, FiniteSetsExt

CONSTANTS
  Adapters,      \* kinds of chain: "evm", "tron", "btc"
  Scale,         \* kind -> scale of the asset
  Transfers,     \* transfers that name a deposit address of one asset
  TxOf,          \* transfer -> the transaction that makes it
  Stated,        \* transfer -> the units it states to move
  Brought,       \* transfer -> units of the asset it brings: none if it moves
                 \* another coin or token, or if its transaction failed
  Confirmations, \* confirmations the asset requires
  MaxReorg,      \* blocks a reorganisation may replace
  NodeFails,     \* may requests to the node fail?
  MaxMisled,     \* bound: errors of the node that are taken for answers
  FirstHeight,   \* height of the chain when the scanner starts
  StartHeight,   \* StartHeight of the configuration; 0 if there is none
  MaxHeight      \* bound: the chain stops growing here

ASSUME ScannerAssumption ==
  /\ Adapters \subseteq {"evm", "tron", "btc"} /\ Scale \in [Adapters -> Scales]
  /\ {Stated, Brought} \subseteq [Transfers -> Nat]
  /\ \A x \in Transfers : Brought[x] <= Stated[x]
  /\ Confirmations \in Nat \ {0}
  /\ {MaxReorg, MaxMisled} \subseteq Nat
  /\ NodeFails \in BOOLEAN
  /\ FirstHeight \in Nat \ {0} /\ MaxHeight \in Nat /\ FirstHeight < MaxHeight
  /\ StartHeight \in 0 .. FirstHeight

Txs == {TxOf[x] : x \in Transfers}
None == 0

VARIABLES
  adapter,    \* the kind of chain
  \* The chain, as the node sees it.
  height,     \* its height
  peak,       \* the greatest height it has had
  block,      \* transaction -> height of the block it is in, or None
  \* The scanner.
  phase,      \* "idle", "block" (reading), "tx" (looking at a transfer)
  chainFrom,  \* chainFrom: where the next round starts
  latest, h,  \* the height this round goes to, and the block it is at
  todo,       \* transfers of the block not looked at yet
  receipt,    \* <<transfer, block in its receipt>>, between two requests, or <<>>
  credited,   \* credited: transactions that have been credited
  deposited,  \* transfer -> what the balance has been increased by for it
  \* History.
  scanned,    \* heights of the blocks that have been read
  moved,      \* has the chain given up a block since the receipt?
  misled      \* how many errors have been taken for answers

chain   == <<height, peak, block>>
scanner == <<phase, chainFrom, latest, h, todo, receipt, credited, deposited, scanned, misled>>
vars    == <<adapter, chain, scanner, moved>>

Init ==
  /\ adapter \in Adapters
  /\ height = FirstHeight /\ peak = FirstHeight
  /\ block = [tx \in Txs |-> None]
  /\ phase = "idle" /\ chainFrom = StartHeight /\ latest = 0 /\ h = 0
  /\ todo = {} /\ receipt = <<>>
  /\ credited = {} /\ deposited = [x \in Transfers |-> 0]
  /\ scanned = {} /\ moved = FALSE /\ misled = 0

------------------------------------------------------------------------------
\* The chain (not part of the program).

Mine(txs) ==
  /\ height < MaxHeight
  /\ \A tx \in txs : block[tx] = None
  /\ height' = height + 1
  /\ peak' = IF height' > peak THEN height' ELSE peak
  /\ block' = [tx \in Txs |-> IF tx \in txs THEN height' ELSE block[tx]]
  /\ UNCHANGED <<adapter, scanner, moved>>

\* The last block is given up; what was in it may be mined again later.
Reorganise ==
  /\ height > FirstHeight /\ height > peak - MaxReorg
  /\ height' = height - 1
  /\ block' = [tx \in Txs |-> IF block[tx] = height THEN None ELSE block[tx]]
  /\ moved' = (receipt # <<>>)
  /\ UNCHANGED <<adapter, peak, scanner>>

\* The TRON adapter does not look at the status of an answer: an error, decoded
\* into what was expected, is a height or a block without anything in it.
Misled == adapter = "tron" /\ NodeFails /\ misled < MaxMisled /\ misled' = misled + 1

------------------------------------------------------------------------------
\* scanOnce

\* Faulty variant: the round starts one block too far.
FromNext(told) ==
  IF chainFrom # 0 /\ chainFrom <= told THEN chainFrom + 1
  ELSE IF told > 2 THEN told - 2 ELSE 0

\* Where a round starts: a scanner without a usable position steps back two
\* blocks from the end of the chain.
From(told) ==
  IF chainFrom # 0 /\ chainFrom <= told THEN chainFrom
  ELSE IF told > 2 THEN told - 2 ELSE 0

\* The ticker fires and the node tells its height.  (If it does not, nothing
\* happens in this round.)
StartRound ==
  /\ phase = "idle"
  /\ latest' = height
  /\ IF From(height) < height
     THEN phase' = "block" /\ h' = From(height) + 1 /\ UNCHANGED chainFrom
     ELSE chainFrom' = height /\ UNCHANGED <<phase, h>>
  /\ UNCHANGED <<adapter, todo, receipt, credited, deposited, scanned, misled, chain, moved>>

\* An error is taken for the height 0, and there is nothing to read.
StartRoundMisled ==
  /\ phase = "idle" /\ Misled
  /\ latest' = 0 /\ chainFrom' = 0
  /\ UNCHANGED <<adapter, phase, h, todo, receipt, credited, deposited, scanned, chain, moved>>

\* Faulty variant: the position is not moved.
EndRoundInPlace == phase' = "idle" /\ UNCHANGED chainFrom

\* The round ends: wherever it stopped, the next one starts after latest.
EndRound == phase' = "idle" /\ chainFrom' = latest

\* Whatever names a deposit address is read and will be credited alike: nobody
\* looks at the coin or contract it moves, or whether the transaction failed.
\* A transaction whose receipt cannot be had is left out of an EVM block.
ReadBlock(missed) ==
  /\ phase = "block" /\ h <= height
  /\ missed = {} \/ (NodeFails /\ adapter = "evm")
  /\ todo' = {x \in Transfers : block[TxOf[x]] = h /\ TxOf[x] \notin missed}
  /\ scanned' = scanned \cup {h}
  /\ phase' = "tx"
  /\ UNCHANGED <<adapter, chainFrom, latest, h, receipt, credited, deposited, misled, chain, moved>>

\* A block that is gone, or an error, is an empty block.
ReadNothing ==
  /\ phase = "block"
  /\ Misled \/ (adapter = "tron" /\ h > height /\ UNCHANGED misled)
  /\ phase' = "tx"
  /\ UNCHANGED <<adapter, chainFrom, latest, h, todo, receipt, credited, deposited, scanned, chain, moved>>

\* The block is gone, or the node does not answer: the round is given up.
ReadBlockFails ==
  /\ phase = "block"
  /\ (h > height /\ adapter # "tron") \/ NodeFails
  /\ EndRound
  /\ UNCHANGED <<adapter, latest, h, todo, receipt, credited, deposited, scanned, misled, chain, moved>>

NextBlock ==
  /\ phase = "tx" /\ todo = {}
  /\ IF h < latest THEN phase' = "block" /\ h' = h + 1 /\ UNCHANGED chainFrom
                   ELSE EndRound /\ UNCHANGED h
  /\ UNCHANGED <<adapter, latest, todo, receipt, credited, deposited, scanned, misled, chain, moved>>

------------------------------------------------------------------------------
\* The transfers of a block.

\* A Bitcoin block is read without its amounts; elsewhere it is the amount
\* stated, cut to 64 bits, whatever has been brought.
AmountUnits(x) == IF adapter = "btc" THEN 0 ELSE ToInt64(Stated[x])

\* The same in the books, as an amount of the address's asset.
Amount(x) == ToUnitsInternal(AmountUnits(x), Scale[adapter])

\* The scanner is done with x, and nothing remembers it.
PassOver(x) ==
  /\ todo' = todo \ {x} /\ receipt' = <<>>
  /\ UNCHANGED <<adapter, phase, chainFrom, latest, h, credited, deposited, scanned, misled, chain, moved>>

Skip(x) == phase = "tx" /\ x \in todo /\ receipt = <<>> /\ Amount(x) <= 0 /\ PassOver(x)

\* A block says nothing of confirmations, so each transfer costs two requests:
\* for the receipt, and for the height.
AskReceipt(x) ==
  /\ phase = "tx" /\ x \in todo /\ receipt = <<>> /\ Amount(x) > 0
  /\ block[TxOf[x]] # None
  /\ receipt' = <<x, block[TxOf[x]]>> /\ moved' = FALSE
  /\ UNCHANGED <<adapter, phase, chainFrom, latest, h, todo, credited, deposited, scanned, misled, chain>>

\* No receipt means no confirmations.
NoReceipt(x) ==
  /\ phase = "tx" /\ x \in todo /\ receipt = <<>> /\ Amount(x) > 0
  /\ block[TxOf[x]] = None \/ NodeFails
  /\ PassOver(x)

\* Faulty variant: one confirmation too many.
TxConfirmationsAhead(b, told) == IF told < b THEN 0 ELSE told - b + 2

\* TxConfirmations, for a receipt of block b and a height told.  The TRON
\* adapter subtracts unsigned numbers without a test.
TxConfirmations(b, told) ==
  IF adapter = "tron" THEN (told - b + 1) % Width
  ELSE IF told < b THEN 0 ELSE told - b + 1

TooFew(x) ==
  /\ receipt # <<>> /\ receipt[1] = x
  /\ TxConfirmations(receipt[2], height) < Confirmations \/ NodeFails
  /\ PassOver(x)

\* Faulty variant: nothing remembers what was credited.
CreditAgain(x) ==
  /\ deposited' = [deposited EXCEPT ![x] = @ + Amount(x)]
  /\ UNCHANGED credited

\* CreditDeposit: once per transaction and asset.
CreditDeposit(x) ==
  /\ credited' = credited \cup {TxOf[x]}
  /\ deposited' = [deposited EXCEPT ![x] = IF TxOf[x] \in credited THEN @ ELSE @ + Amount(x)]

\* Enough confirmations, by the height of the chain or by an error taken for 0.
Enough(x) ==
  /\ receipt # <<>> /\ receipt[1] = x
  /\ \/ TxConfirmations(receipt[2], height) >= Confirmations /\ UNCHANGED misled
     \/ TxConfirmations(receipt[2], 0) >= Confirmations /\ Misled
  /\ CreditDeposit(x)
  /\ todo' = todo \ {x} /\ receipt' = <<>>
  /\ UNCHANGED <<adapter, phase, chainFrom, latest, h, scanned, chain, moved>>

------------------------------------------------------------------------------
LookAt(x) == Skip(x) \/ AskReceipt(x) \/ NoReceipt(x) \/ TooFew(x) \/ Enough(x)

Scan ==
  \/ StartRound \/ ReadNothing \/ ReadBlockFails \/ NextBlock
  \/ \E missed \in SUBSET Txs : ReadBlock(missed)
  \/ \E x \in Transfers : LookAt(x)

Next ==
  \/ Scan \/ StartRoundMisled
  \/ Reorganise \/ \E txs \in SUBSET Txs : Mine(txs)

Spec == Init /\ [][Next]_vars

\* The scanner's goroutine keeps running, and the node does not refuse to tell
\* its height for ever; nothing is assumed of the chain.
FairSpec == Spec /\ WF_vars(Scan)

------------------------------------------------------------------------------
(***************************************************************************)
(* Properties                                                              *)
(***************************************************************************)

TypeOK ==
  /\ adapter \in Adapters
  /\ height \in FirstHeight .. MaxHeight /\ peak \in height .. MaxHeight
  /\ block \in [Txs -> {None} \cup FirstHeight + 1 .. height]
  /\ phase \in {"idle", "block", "tx"}
  /\ {chainFrom, latest, h} \subseteq 0 .. MaxHeight
  /\ todo \subseteq Transfers
  /\ receipt # <<>> => receipt \in todo \X (1 .. MaxHeight)
  /\ credited \subseteq Txs
  /\ deposited \in [Transfers -> Nat]
  /\ scanned \subseteq 1 .. MaxHeight
  /\ moved \in BOOLEAN /\ misled \in 0 .. MaxMisled

\* However often rounds overlap in blocks, and wherever reorganisations move
\* a transaction, no transaction is ever paid into a balance twice.
CreditedOnce ==
  /\ \A x \in Transfers : deposited[x] \in {0, Amount(x)}
  /\ \A x, y \in Transfers : x # y /\ TxOf[x] = TxOf[y] => 0 \in {deposited[x], deposited[y]}

\* What is paid in is never more than the units that the transfer states,
\* however they are cut to 64 bits and rounded on their way into the books.
\* (For a transfer that brings what it states, never more than what arrived;
\* for others see OnlyArrivedCredited.)
CreditedWithinStated ==
  \A x \in Transfers :
    deposited[x] * Scale[adapter].finer <= Stated[x] * Scale[adapter].coarser

\* Nothing is paid in before the transaction has, in the chain of that moment,
\* the confirmations the asset requires, unless the chain gave up a block
\* between the two requests or an error was taken for its height.
CreditedWhenConfirmed ==
  [][\A x \in Transfers : deposited'[x] > deposited[x] =>
       \/ moved \/ misled' # misled
       \/ block[TxOf[x]] # None /\ height - block[TxOf[x]] + 1 >= Confirmations]_vars

\* A round that is not given up has read every block it set out to read: those
\* after the position it started from, or, if there is none or the chain has
\* fallen behind it, the last two.  (For TRON, a block that is gone is read as
\* an empty one.)
RoundReadsAll ==
  [][phase = "tx" /\ phase' = "idle" /\ adapter # "tron" =>
       LET start == IF chainFrom \in 1 .. latest THEN chainFrom ELSE Max({latest - 2, 0})
       IN  start + 1 .. latest \subseteq scanned]_vars

\* However rounds end, and wherever the chain is cut back to, once it rests and
\* the node tells its height, the scanner's position comes to its end and stays
\* there.
CatchesUp == <>[][FALSE]_chain => <>[](chainFrom = height)

------------------------------------------------------------------------------
(***************************************************************************)
(* Statements of the repository that the code does not keep (see README).  *)
(***************************************************************************)

\* One asset is one coin or contract on one chain: no more of it is paid in than
\* has arrived.
OnlyArrivedCredited ==
  \A x \in Transfers :
    deposited[x] * Scale[adapter].finer <= Brought[x] * Scale[adapter].coarser

\* The position is never ahead of the reading: once the scanner has a place to
\* start from, it reads every block up to its position, none left out.
NoBlockSkipped ==
  \A b \in 2 .. chainFrom :
    b - 1 \in scanned \cup ({StartHeight} \ {0}) => b \in scanned

\* A transfer that has all the confirmations it needs is paid in, some day.
CreditedEventually ==
  \A x \in Transfers :
    (block[TxOf[x]] # None /\ height - block[TxOf[x]] + 1 >= Confirmations)
      ~> deposited[x] > 0

\* Only what is confirmed is paid in, without an exception.
OnlyConfirmed ==
  [][\A x \in Transfers : deposited'[x] > deposited[x] =>
       block[TxOf[x]] # None /\ height - block[TxOf[x]] + 1 >= Confirmations]_vars
===============================================================================

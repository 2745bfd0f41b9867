------------------------- MODULE DepositScannerProofs -------------------------
(***************************************************************************)
(* What the deposit scanner promises on chains of every kind, for any      *)
(* transfers, amounts, confirmations and depth of reorganisations.         *)
(***************************************************************************)
EXTENDS DepositScanner, Arithmetic

\* Between blocks there is nothing left to do, and a round knows where it is.
RoundShape ==
  /\ phase # "tx" => todo = {}
  /\ phase # "idle" => h \in 1 .. latest

\* A receipt belongs to a transfer worth crediting, and as long as the chain
\* gives up nothing it tells the truth.
ReceiptTrue ==
  receipt # <<>> =>
    /\ Amount(receipt[1]) > 0
    /\ ~moved => block[TxOf[receipt[1]]] = receipt[2]

\* What has been paid in is remembered by its transaction.
Remembered == \A x \in Transfers : deposited[x] # 0 => TxOf[x] \in credited

\* A round has read the blocks behind it.
ReadBehind ==
  adapter # "tron" /\ phase # "idle" =>
    /\ From(latest) + 1 .. h - 1 \subseteq scanned
    /\ phase = "tx" => h \in scanned

\* The inductive invariant.
IInv == TypeOK /\ RoundShape /\ ReceiptTrue /\ Remembered /\ CreditedOnce /\ ReadBehind

------------------------------------------------------------------------------
(***************************************************************************)
(* Amounts                                                                 *)
(***************************************************************************)

\* Cutting a natural number to 64 bits gives an integer, and makes none greater.
LEMMA ToInt64Bounds ==
  ASSUME NEW n \in Nat
  PROVE  ToInt64(n) \in Int /\ ToInt64(n) <= n
<1>1. Width \in Nat \ {0}
  BY MaxIntAssumption DEF Width
<1>2. n + MaxInt + 1 \in Nat
  BY MaxIntAssumption
<1> DEFINE m == n + MaxInt + 1
<1> HIDE DEF m
<1>3. m % Width \in Int /\ m % Width <= m
  BY <1>1, <1>2 DEF m
<1> QED
  BY <1>2, <1>3, MaxIntAssumption DEF ToInt64, m

\* The conversion into units of the books never gains.
LEMMA UnitsBounds ==
  ASSUME NEW n \in Int, NEW s \in Scales
  PROVE  /\ ToUnitsInternal(n, s) \in Int
         /\ n >= 0 => ToUnitsInternal(n, s) * s.finer <= n * s.coarser
         /\ n <= 0 => ToUnitsInternal(n, s) <= 0
<1> DEFINE c == s.coarser
           d == s.finer
           u == (n * c) \div d
<1>1. c \in Nat \ {0} /\ d \in Nat \ {0}
  BY DEF Scales
<1> HIDE DEF c, d
<1>2. n * c \in Int
  BY <1>1
<1>3. u \in Int /\ d * u <= n * c
  BY <1>1, <1>2, DivBounds
<1>4. n >= 0 => n * c >= 0
  BY <1>1
<1>5. n <= 0 => u <= 0
  <2>1. SUFFICES ASSUME n <= 0, u >= 1 PROVE FALSE
    BY <1>3
  <2>2. n * c <= 0
    BY <1>1, <2>1
  <2> HIDE DEF u
  <2>3. d * u >= 1
    BY <1>1, <1>3, <2>1
  <2>4. d * u \in Int
    BY <1>1, <1>3
  <2> QED
    BY <1>2, <1>3, <2>2, <2>3, <2>4
<1>6. ToUnitsInternal(n, s) = IF IsInt64(u) THEN u ELSE 0
  BY DEF ToUnitsInternal, c, d
<1> HIDE DEF u
<1>7. u * d = d * u
  BY <1>1, <1>3
<1>8. 0 * d = 0
  BY <1>1
<1> QED
  BY <1>1, <1>2, <1>3, <1>4, <1>5, <1>6, <1>7, <1>8 DEF c, d

\* The amount of a transfer is an integer, and no more than the transfer states.
LEMMA AmountBounds ==
  ASSUME NEW x \in Transfers, adapter \in Adapters
  PROVE  /\ Amount(x) \in Int
         /\ Amount(x) * Scale[adapter].finer <= Stated[x] * Scale[adapter].coarser
<1> DEFINE s == Scale[adapter]
           n == AmountUnits(x)
<1>1. s \in Scales /\ Stated[x] \in Nat
  BY ScannerAssumption
<1>2. s.finer \in Nat \ {0} /\ s.coarser \in Nat \ {0}
  BY <1>1 DEF Scales
<1>3. n \in Int /\ n <= Stated[x]
  BY <1>1, ToInt64Bounds DEF AmountUnits
<1> HIDE DEF n, s
<1>4. Amount(x) = ToUnitsInternal(n, s)
  BY DEF Amount, n, s
<1>5. /\ ToUnitsInternal(n, s) \in Int
      /\ n >= 0 => ToUnitsInternal(n, s) * s.finer <= n * s.coarser
      /\ n <= 0 => ToUnitsInternal(n, s) <= 0
  BY <1>1, <1>3, UnitsBounds
<1>6. n * s.coarser <= Stated[x] * s.coarser
  BY <1>1, <1>2, <1>3, MulMono
<1>7. CASE n >= 0
  BY <1>1, <1>2, <1>3, <1>4, <1>5, <1>6, <1>7 DEF s
<1>8. CASE n <= 0
  <2>1. ToUnitsInternal(n, s) * s.finer <= 0 * s.finer
    BY <1>2, <1>5, <1>8, MulMono
  <2>2. 0 <= Stated[x] * s.coarser
    BY <1>1, <1>2
  <2> QED
    BY <1>1, <1>2, <1>4, <1>5, <2>1, <2>2 DEF s
<1> QED
  BY <1>3, <1>7, <1>8

------------------------------------------------------------------------------
(***************************************************************************)
(* The invariant is kept                                                   *)
(***************************************************************************)

\* Nothing has been read or paid in when the scanner starts.
LEMMA InitInv == Init => IInv
<1> SUFFICES ASSUME Init PROVE IInv
  OBVIOUS
<1>1. TypeOK
  <2>1. /\ block \in [Txs -> {None} \cup FirstHeight + 1 .. height]
        /\ deposited \in [Transfers -> Nat]
    BY DEF Init
  <2>2. /\ height \in FirstHeight .. MaxHeight /\ peak \in height .. MaxHeight
        /\ chainFrom \in 0 .. MaxHeight /\ latest \in 0 .. MaxHeight /\ h \in 0 .. MaxHeight
        /\ misled \in 0 .. MaxMisled
    BY ScannerAssumption DEF Init
  <2> QED
    BY <2>1, <2>2 DEF Init, TypeOK
<1>2. RoundShape /\ ReceiptTrue /\ Remembered /\ CreditedOnce /\ ReadBehind
  BY DEF Init, RoundShape, ReceiptTrue, Remembered, CreditedOnce, ReadBehind
<1> QED
  BY <1>1, <1>2 DEF IInv

\* The amount of a transfer depends on the kind of chain only.
LEMMA AmountKept == UNCHANGED adapter => \A x \in Transfers : Amount(x)' = Amount(x)
  BY DEF Amount, AmountUnits

\* The chain grows: what is in a block stays there.
LEMMA MineInv ==
  ASSUME IInv, NEW txs \in SUBSET Txs, Mine(txs)
  PROVE  IInv'
<1> USE DEF Mine, scanner
<1>1. TypeOK'
  BY ScannerAssumption DEF IInv, TypeOK, None
<1>2. ReceiptTrue'
  <2>1. SUFFICES ASSUME receipt # <<>>
                 PROVE  /\ Amount(receipt[1])' > 0
                        /\ ~moved => block'[TxOf[receipt[1]]] = receipt[2]
    BY DEF ReceiptTrue
  <2>2. receipt[1] \in Transfers /\ receipt[2] \in 1 .. MaxHeight /\ TxOf[receipt[1]] \in Txs
    BY <2>1 DEF IInv, TypeOK, Txs
  <2>3. Amount(receipt[1])' > 0
    BY <2>1, <2>2 DEF IInv, ReceiptTrue, Amount, AmountUnits
  <2>4. ASSUME ~moved PROVE block'[TxOf[receipt[1]]] = receipt[2]
    <3>1. block[TxOf[receipt[1]]] = receipt[2]
      BY <2>1, <2>4 DEF IInv, ReceiptTrue
    <3>2. TxOf[receipt[1]] \notin txs
      BY <2>2, <3>1 DEF None
    <3> QED
      BY <2>2, <3>1, <3>2
  <2> QED
    BY <2>3, <2>4
<1>3. CreditedOnce'
  BY AmountKept DEF IInv, CreditedOnce
<1>4. RoundShape' /\ Remembered' /\ ReadBehind'
  BY DEF IInv, RoundShape, Remembered, ReadBehind, From
<1> QED
  BY <1>1, <1>2, <1>3, <1>4 DEF IInv

\* The chain is cut back, which a receipt does not survive unnoticed.
LEMMA ReorganiseInv == IInv /\ Reorganise => IInv'
<1> SUFFICES ASSUME IInv, Reorganise PROVE IInv'
  OBVIOUS
<1> USE DEF Reorganise, scanner
<1>1. TypeOK'
  BY ScannerAssumption DEF IInv, TypeOK, None
<1>2. ReceiptTrue'
  <2>1. receipt # <<>> => receipt[1] \in Transfers
    BY DEF IInv, TypeOK
  <2> QED
    BY <2>1 DEF IInv, ReceiptTrue, Amount, AmountUnits
<1>3. CreditedOnce'
  BY AmountKept DEF IInv, CreditedOnce
<1>4. RoundShape' /\ Remembered' /\ ReadBehind'
  BY DEF IInv, RoundShape, Remembered, ReadBehind, From
<1> QED
  BY <1>1, <1>2, <1>3, <1>4 DEF IInv

\* Where a round starts is below the height that the node told.
LEMMA FromBounds ==
  ASSUME TypeOK, NEW told \in 0 .. MaxHeight
  PROVE  From(told) \in 0 .. told
  BY ScannerAssumption DEF TypeOK, From

\* A round begins with nothing behind it, or is over at once.
LEMMA StartInv == IInv /\ (StartRound \/ StartRoundMisled) => IInv'
<1> SUFFICES ASSUME IInv, StartRound \/ StartRoundMisled PROVE IInv'
  OBVIOUS
<1>1. /\ phase = "idle" /\ receipt = <<>>
      /\ UNCHANGED <<adapter, todo, receipt, credited, deposited, scanned, chain, moved>>
  BY DEF StartRound, StartRoundMisled, IInv, RoundShape, TypeOK
<1>2. height \in 0 .. MaxHeight
  BY ScannerAssumption DEF IInv, TypeOK
<1>3. TypeOK' /\ RoundShape' /\ ReadBehind'
  <2>1. CASE StartRound
    <3>1. From(height) \in 0 .. height
      BY <1>2, FromBounds DEF IInv
    <3>2. CASE From(height) < height
      <4>1. /\ phase' = "block" /\ h' = From(height) + 1 /\ latest' = height
            /\ UNCHANGED <<chainFrom, misled>>
        BY <2>1, <3>2 DEF StartRound
      <4>2. From(latest)' = From(height)
        BY <4>1 DEF From
      <4> HIDE DEF From
      <4>3. TypeOK'
        <5>1. h' \in 0 .. MaxHeight /\ latest' \in 0 .. MaxHeight
          BY <1>2, <3>1, <3>2, <4>1, ScannerAssumption DEF IInv, TypeOK
        <5> QED
          BY <1>1, <4>1, <5>1 DEF IInv, TypeOK, chain
      <4>4. RoundShape' /\ ReadBehind'
        BY <1>1, <1>2, <3>1, <3>2, <4>1, <4>2 DEF IInv, RoundShape, ReadBehind
      <4> QED
        BY <4>3, <4>4
    <3>3. CASE ~(From(height) < height)
      <4>1. chainFrom' = height /\ latest' = height /\ UNCHANGED <<phase, h, misled>>
        BY <2>1, <3>3 DEF StartRound
      <4> QED
        BY <1>1, <1>2, <4>1 DEF IInv, TypeOK, RoundShape, ReadBehind, chain
    <3> QED
      BY <3>2, <3>3
  <2>2. CASE StartRoundMisled
    <3>1. /\ latest' = 0 /\ chainFrom' = 0 /\ UNCHANGED <<phase, h>>
          /\ misled < MaxMisled /\ misled' = misled + 1
      BY <2>2 DEF StartRoundMisled, Misled
    <3> QED
      BY <1>1, <1>2, <3>1, ScannerAssumption
         DEF IInv, TypeOK, RoundShape, ReadBehind, chain
  <2> QED
    BY <2>1, <2>2
<1>4. CreditedOnce'
  BY <1>1, AmountKept DEF IInv, CreditedOnce
<1>5. ReceiptTrue' /\ Remembered'
  BY <1>1 DEF IInv, ReceiptTrue, Remembered
<1> QED
  BY <1>3, <1>4, <1>5 DEF IInv

\* A block is read, as it is or as an empty one.
LEMMA ReadInv ==
  ASSUME IInv, ReadNothing \/ \E missed \in SUBSET Txs : ReadBlock(missed)
  PROVE  IInv'
<1>1. /\ phase = "block" /\ phase' = "tx" /\ receipt = <<>> /\ todo = {}
      /\ UNCHANGED <<adapter, chainFrom, latest, h, receipt, credited, deposited, chain, moved>>
  BY DEF ReadNothing, ReadBlock, IInv, RoundShape, TypeOK
<1>2. /\ todo' \subseteq Transfers
      /\ \/ scanned' = scanned /\ adapter = "tron"
         \/ scanned' = scanned \cup {h} /\ h <= height
      /\ misled' = misled \/ (misled < MaxMisled /\ misled' = misled + 1)
  BY <1>1 DEF ReadNothing, ReadBlock, Misled
<1>3. TypeOK'
  <2>1. h \in 1 .. MaxHeight \/ ~(h <= height)
    BY <1>1, ScannerAssumption DEF IInv, TypeOK, RoundShape
  <2>2. scanned' \subseteq 1 .. MaxHeight
    <3>1. h <= height => h \in 1 .. MaxHeight
      BY <2>1
    <3> QED
      BY <1>2, <3>1 DEF IInv, TypeOK
  <2>3. misled' \in 0 .. MaxMisled
    BY <1>2, ScannerAssumption DEF IInv, TypeOK
  <2> QED
    BY <1>1, <1>2, <2>2, <2>3 DEF IInv, TypeOK, chain
<1>4. ReadBehind'
  BY <1>1, <1>2 DEF IInv, ReadBehind, From
<1>5. CreditedOnce'
  BY <1>1, AmountKept DEF IInv, CreditedOnce
<1>6. RoundShape' /\ ReceiptTrue' /\ Remembered'
  BY <1>1 DEF IInv, RoundShape, ReceiptTrue, Remembered
<1> QED
  BY <1>3, <1>4, <1>5, <1>6 DEF IInv

\* A round goes on to the next block, or ends.
LEMMA GoOnInv == IInv /\ (NextBlock \/ ReadBlockFails) => IInv'
<1> SUFFICES ASSUME IInv, NextBlock \/ ReadBlockFails PROVE IInv'
  OBVIOUS
<1>1. /\ todo = {} /\ receipt = <<>>
      /\ UNCHANGED <<adapter, latest, todo, receipt, credited, deposited, scanned, misled,
                     chain, moved>>
  BY DEF NextBlock, ReadBlockFails, IInv, RoundShape, TypeOK
<1>2. \/ /\ phase = "tx" /\ h < latest /\ phase' = "block" /\ h' = h + 1
         /\ UNCHANGED chainFrom
      \/ phase' = "idle" /\ chainFrom' = latest /\ UNCHANGED h
  BY DEF NextBlock, ReadBlockFails, EndRound
<1>3. TypeOK' /\ RoundShape'
  BY <1>1, <1>2, ScannerAssumption DEF IInv, TypeOK, RoundShape, chain
<1>4. ReadBehind'
  BY <1>1, <1>2 DEF IInv, TypeOK, ReadBehind, RoundShape, From
<1>5. CreditedOnce'
  BY <1>1, AmountKept DEF IInv, CreditedOnce
<1>6. ReceiptTrue' /\ Remembered'
  BY <1>1 DEF IInv, ReceiptTrue, Remembered
<1> QED
  BY <1>3, <1>4, <1>5, <1>6 DEF IInv

\* A transfer is passed over.
LEMMA PassOverInv ==
  ASSUME IInv, NEW x \in Transfers, phase = "tx", PassOver(x)
  PROVE  IInv'
<1> USE DEF PassOver
<1>1. TypeOK' /\ RoundShape' /\ ReceiptTrue'
  BY DEF IInv, TypeOK, RoundShape, ReceiptTrue, chain
<1>2. CreditedOnce'
  BY AmountKept DEF IInv, CreditedOnce
<1>3. Remembered' /\ ReadBehind'
  BY DEF IInv, Remembered, ReadBehind, From
<1> QED
  BY <1>1, <1>2, <1>3 DEF IInv

\* A receipt is true when it is given.
LEMMA AskReceiptInv ==
  ASSUME IInv, NEW x \in Transfers, AskReceipt(x)
  PROVE  IInv'
<1> USE DEF AskReceipt
<1>0. FirstHeight \in Nat /\ MaxHeight \in Nat
  BY ScannerAssumption
<1>1. receipt' = <<x, block[TxOf[x]]>> /\ TxOf[x] \in Txs /\ block[TxOf[x]] \in 1 .. MaxHeight
  BY <1>0 DEF IInv, TypeOK, Txs, None
<1>2. TypeOK'
  <2>1. <<x, block[TxOf[x]]>> \in todo \X (1 .. MaxHeight)
    BY <1>1
  <2>2. receipt' \in todo' \X (1 .. MaxHeight)
    BY <1>1, <2>1
  <2> QED
    BY <2>2 DEF IInv, TypeOK, chain
<1>3. ReceiptTrue'
  BY <1>1, AmountKept DEF ReceiptTrue, chain
<1>4. CreditedOnce'
  BY AmountKept DEF IInv, CreditedOnce
<1>5. RoundShape' /\ Remembered' /\ ReadBehind'
  BY DEF IInv, RoundShape, Remembered, ReadBehind, From
<1> QED
  BY <1>2, <1>3, <1>4, <1>5 DEF IInv

\* What is paid in is paid in for the first time, and remembered.
LEMMA EnoughInv ==
  ASSUME IInv, NEW x \in Transfers, Enough(x)
  PROVE  IInv'
<1>1. /\ receipt # <<>> /\ receipt[1] = x /\ phase = "tx" /\ x \in todo
      /\ todo' = todo \ {x} /\ receipt' = <<>>
      /\ UNCHANGED <<adapter, phase, chainFrom, latest, h, scanned, chain, moved>>
      /\ misled' = misled \/ (misled < MaxMisled /\ misled' = misled + 1)
  BY DEF Enough, Misled, IInv, TypeOK, RoundShape
<1>2. /\ credited' = credited \cup {TxOf[x]}
      /\ deposited' = [deposited EXCEPT ![x] =
                         IF TxOf[x] \in credited THEN @ ELSE @ + Amount(x)]
  BY DEF Enough, CreditDeposit
<1>3. Amount(x) \in Nat /\ Amount(x) > 0
  BY <1>1, AmountBounds DEF IInv, TypeOK, ReceiptTrue
<1>4. deposited \in [Transfers -> Nat] /\ TxOf[x] \in Txs
  BY DEF IInv, TypeOK, Txs
<1>5. TypeOK'
  <2>1. deposited' \in [Transfers -> Nat]
    BY <1>2, <1>3, <1>4
  <2>2. misled' \in 0 .. MaxMisled
    BY <1>1, ScannerAssumption DEF IInv, TypeOK
  <2> QED
    BY <1>1, <1>2, <1>4, <2>1, <2>2 DEF IInv, TypeOK, chain
<1>6. Remembered'
  BY <1>2, <1>4 DEF IInv, Remembered
<1>7. CreditedOnce'
  <2>1. \A y \in Transfers : y # x => deposited'[y] = deposited[y]
    BY <1>2, <1>4
  <2>2. TxOf[x] \in credited => deposited'[x] = deposited[x]
    BY <1>2, <1>4
  <2>3. TxOf[x] \notin credited =>
          /\ deposited'[x] = Amount(x)
          /\ \A y \in Transfers : TxOf[y] = TxOf[x] => deposited[y] = 0
    BY <1>2, <1>3, <1>4 DEF IInv, Remembered
  <2>4. \A y \in Transfers : deposited'[y] \in {0, Amount(y)}
    BY <2>1, <2>2, <2>3 DEF IInv, CreditedOnce
  <2>5. \A y, z \in Transfers :
          y # z /\ TxOf[y] = TxOf[z] => 0 \in {deposited'[y], deposited'[z]}
    BY <2>1, <2>2, <2>3 DEF IInv, CreditedOnce
  <2> QED
    BY <1>1, <2>4, <2>5, AmountKept DEF CreditedOnce
<1>8. RoundShape' /\ ReceiptTrue' /\ ReadBehind'
  BY <1>1 DEF IInv, RoundShape, ReceiptTrue, ReadBehind, From
<1> QED
  BY <1>5, <1>6, <1>7, <1>8 DEF IInv

\* Every step keeps the invariant.
LEMMA NextInv == IInv /\ [Next]_vars => IInv'
<1> SUFFICES ASSUME IInv, [Next]_vars PROVE IInv'
  OBVIOUS
<1>1. CASE UNCHANGED vars
  <2>1. CreditedOnce' /\ ReceiptTrue'
    <3>1. receipt # <<>> => receipt[1] \in Transfers
      BY DEF IInv, TypeOK
    <3> QED
      BY <1>1, <3>1, AmountKept DEF vars, chain, scanner, IInv, CreditedOnce, ReceiptTrue
  <2>2. TypeOK' /\ RoundShape' /\ Remembered' /\ ReadBehind'
    BY <1>1 DEF vars, chain, scanner, IInv, TypeOK, RoundShape, Remembered, ReadBehind, From
  <2> QED
    BY <2>1, <2>2 DEF IInv
<1>2. CASE StartRound \/ StartRoundMisled
  BY <1>2, StartInv
<1>3. CASE ReadNothing \/ \E missed \in SUBSET Txs : ReadBlock(missed)
  BY <1>3, ReadInv
<1>4. CASE ReadBlockFails \/ NextBlock
  BY <1>4, GoOnInv
<1>5. ASSUME NEW x \in Transfers, LookAt(x) PROVE IInv'
  <2>1. CASE Skip(x) \/ NoReceipt(x) \/ TooFew(x)
    <3>1. phase = "tx" /\ PassOver(x)
      BY <2>1 DEF Skip, NoReceipt, TooFew, IInv, TypeOK, RoundShape
    <3> QED
      BY <3>1, PassOverInv
  <2>2. CASE AskReceipt(x)
    BY <2>2, AskReceiptInv
  <2>3. CASE Enough(x)
    BY <2>3, EnoughInv
  <2> QED
    BY <1>5, <2>1, <2>2, <2>3 DEF LookAt
<1>6. CASE Reorganise
  BY <1>6, ReorganiseInv
<1>7. CASE \E txs \in SUBSET Txs : Mine(txs)
  BY <1>7, MineInv
<1> QED
  BY <1>1, <1>2, <1>3, <1>4, <1>5, <1>6, <1>7 DEF Next, Scan

------------------------------------------------------------------------------
(***************************************************************************)
(* The theorems                                                            *)
(***************************************************************************)

\* The invariant holds in every state of every behaviour, whatever the chain
\* and the node do to scanOnce.
THEOREM Invariance == Spec => []IInv
<1>1. Init => IInv
  BY InitInv
<1>2. IInv /\ [Next]_vars => IInv'
  BY NextInv
<1> QED
  BY <1>1, <1>2, PTL DEF Spec

\* The scanner's position, round and books have their types: chainFrom and the
\* block being read stay within the heights a chain has had.
THEOREM TypeSafe == Spec => []TypeOK
<1>1. IInv => TypeOK
  BY DEF IInv
<1> QED
  BY <1>1, Invariance, PTL

\* CreditDeposit pays each transaction in once at the most, however rounds
\* overlap and wherever a reorganisation moves it.
THEOREM CreditedOnceSafe == Spec => []CreditedOnce
<1>1. IInv => CreditedOnce
  BY DEF IInv
<1> QED
  BY <1>1, Invariance, PTL

\* The cut to 64 bits and ToUnitsInternal never make more of an amount than the
\* transfer states, at every width of the integers and number of decimals.
THEOREM CreditedWithinStatedSafe == Spec => []CreditedWithinStated
<1>1. IInv => CreditedWithinStated
  <2>1. SUFFICES ASSUME IInv, NEW x \in Transfers
                 PROVE  deposited[x] * Scale[adapter].finer <= Stated[x] * Scale[adapter].coarser
    BY DEF CreditedWithinStated
  <2>2. adapter \in Adapters /\ deposited[x] \in {0, Amount(x)}
    BY <2>1 DEF IInv, TypeOK, CreditedOnce
  <2>3. CASE deposited[x] = Amount(x)
    BY <2>2, <2>3, AmountBounds
  <2>4. CASE deposited[x] = 0
    <3>1. /\ Scale[adapter].finer \in Nat /\ Scale[adapter].coarser \in Nat
          /\ Stated[x] \in Nat
      BY <2>2, ScannerAssumption DEF Scales
    <3>2. Stated[x] * Scale[adapter].coarser \in Nat
      BY <3>1
    <3> QED
      BY <2>4, <3>1, <3>2
  <2> QED
    BY <2>2, <2>3, <2>4
<1> QED
  BY <1>1, Invariance, PTL

\* A remainder is no greater than the natural number it is taken of.
LEMMA RemainderWithin ==
  ASSUME NEW n \in Nat
  PROVE  n % Width <= n
<1>1. Width \in Nat \ {0}
  BY MaxIntAssumption DEF Width
<1> QED
  BY <1>1

\* A receipt that counts for enough confirmations at the height of the chain
\* has them.
LEMMA ConfirmationsTrue ==
  ASSUME NEW b \in Nat, NEW told \in Nat, b <= told,
         TxConfirmations(b, told) >= Confirmations
  PROVE  told - b + 1 >= Confirmations
<1>1. told - b + 1 \in Nat
  OBVIOUS
<1>2. (told - b + 1) % Width <= told - b + 1 /\ (told - b + 1) % Width \in Int
  <2>1. Width \in Nat \ {0}
    BY MaxIntAssumption DEF Width
  <2> QED
    BY <1>1, <2>1, RemainderWithin
<1>3. CASE adapter = "tron"
  <2>1. (told - b + 1) % Width >= Confirmations
    BY <1>3 DEF TxConfirmations
  <2> QED
    BY <1>1, <1>2, <2>1, ScannerAssumption
<1>4. CASE adapter # "tron"
  <2>1. (IF told < b THEN 0 ELSE told - b + 1) >= Confirmations
    BY <1>4 DEF TxConfirmations
  <2> QED
    BY <2>1
<1> QED
  BY <1>3, <1>4

\* Only Enough pays in, on the strength of a receipt that is true as long as
\* the chain gave up no block and the height was not an error.
THEOREM CreditedWhenConfirmedSafe == Spec => CreditedWhenConfirmed
<1> DEFINE Confirmed ==
             \A x \in Transfers : deposited'[x] > deposited[x] =>
               \/ moved \/ misled' # misled
               \/ block[TxOf[x]] # None /\ height - block[TxOf[x]] + 1 >= Confirmations
<1>1. IInv /\ [Next]_vars => [Confirmed]_vars
  <2>1. SUFFICES ASSUME IInv, [Next]_vars, NEW x \in Transfers, deposited'[x] > deposited[x],
                        ~moved, misled' = misled
                 PROVE  block[TxOf[x]] # None /\ height - block[TxOf[x]] + 1 >= Confirmations
    OBVIOUS
  <2>2. deposited[x] \in Nat
    BY <2>1 DEF IInv, TypeOK
  <2>3. deposited' # deposited
    BY <2>1, <2>2
  <2>4. PICK y \in Transfers : Enough(y)
    BY <2>1, <2>3
       DEF Next, Scan, StartRound, StartRoundMisled, ReadNothing, ReadBlockFails, NextBlock,
           ReadBlock, LookAt, Skip, AskReceipt, NoReceipt, TooFew, PassOver, Reorganise, Mine,
           vars, chain, scanner
  <2>5. x = y
    BY <2>1, <2>2, <2>4 DEF Enough, CreditDeposit, IInv, TypeOK
  <2>6. receipt # <<>> /\ receipt[1] = x /\ block[TxOf[x]] = receipt[2]
    BY <2>1, <2>4, <2>5 DEF Enough, IInv, ReceiptTrue
  <2>7. /\ receipt[2] \in 1 .. MaxHeight /\ TxOf[x] \in Txs
        /\ block[TxOf[x]] \in {None} \cup FirstHeight + 1 .. height
        /\ height \in FirstHeight .. MaxHeight
    BY <2>1, <2>6 DEF IInv, TypeOK, Txs
  <2>8. TxConfirmations(receipt[2], height) >= Confirmations
    BY <2>1, <2>4, <2>5 DEF Enough, Misled, IInv, TypeOK
  <2>9. receipt[2] \in Nat /\ height \in Nat /\ receipt[2] <= height
    BY <2>6, <2>7, ScannerAssumption DEF None
  <2>10. height - receipt[2] + 1 >= Confirmations
    BY <2>8, <2>9, ConfirmationsTrue
  <2> QED
    BY <2>6, <2>9, <2>7, <2>10 DEF None
<1>2. Spec => [][Confirmed]_vars
  BY <1>1, Invariance, PTL DEF Spec
<1> QED
  BY <1>2 DEF CreditedWhenConfirmed

\* The place a round sets out from, in the words of the property.
LEMMA StartIsFrom ==
  ASSUME TypeOK
  PROVE  (IF chainFrom \in 1 .. latest THEN chainFrom ELSE Max({latest - 2, 0})) = From(latest)
<1>1. chainFrom \in Nat /\ latest \in Nat
  BY DEF TypeOK
<1>2. Max({latest - 2, 0}) = IF latest > 2 THEN latest - 2 ELSE 0
  <2>1. \E m \in {latest - 2, 0} : \A y \in {latest - 2, 0} : m >= y
    BY <1>1
  <2>2. /\ Max({latest - 2, 0}) \in {latest - 2, 0}
        /\ \A y \in {latest - 2, 0} : Max({latest - 2, 0}) >= y
    BY <2>1 DEF Max
  <2> QED
    BY <1>1, <2>2
<1> QED
  BY <1>1, <1>2 DEF From

\* scanOnce reaches the end of its loop only past the last block it set out to
\* read.
THEOREM RoundReadsAllSafe == Spec => RoundReadsAll
<1> DEFINE Start == IF chainFrom \in 1 .. latest THEN chainFrom ELSE Max({latest - 2, 0})
           ReadsAll == phase = "tx" /\ phase' = "idle" /\ adapter # "tron" =>
                         Start + 1 .. latest \subseteq scanned
<1>1. IInv /\ [Next]_vars => [ReadsAll]_vars
  <2>1. SUFFICES ASSUME IInv, [Next]_vars, phase = "tx", phase' = "idle", adapter # "tron"
                 PROVE  Start + 1 .. latest \subseteq scanned
    OBVIOUS
  <2>2. Start = From(latest)
    BY <2>1, StartIsFrom DEF IInv
  <2> HIDE DEF Start
  <2>3. h >= latest
    BY <2>1
       DEF Next, Scan, StartRound, StartRoundMisled, ReadNothing, ReadBlockFails, NextBlock,
           ReadBlock, LookAt, Skip, AskReceipt, NoReceipt, TooFew, PassOver, Enough, Reorganise,
           Mine, vars, chain, scanner, IInv, TypeOK
  <2>4. h = latest /\ h \in Nat
    BY <2>1, <2>3 DEF IInv, TypeOK, RoundShape
  <2>5. From(latest) + 1 .. h - 1 \subseteq scanned /\ h \in scanned
    BY <2>1 DEF IInv, ReadBehind
  <2>6. From(latest) \in Nat
    BY <2>1, FromBounds DEF IInv, TypeOK
  <2> HIDE DEF From
  <2> QED
    BY <2>2, <2>4, <2>5, <2>6
<1>2. Spec => [][ReadsAll]_vars
  BY <1>1, Invariance, PTL DEF Spec
<1> QED
  BY <1>2 DEF RoundReadsAll
===============================================================================

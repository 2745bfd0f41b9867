--------------------------- MODULE MCDepositScanner ---------------------------
\* DepositScanner for a few transfers on a short chain.
EXTENDS DepositScanner

\* Every transfer is a transaction of its own.
OneEach == [x \in Transfers |-> x]

\* One transaction makes the first two transfers, as a contract can.
TwoInOne == [x \in Transfers |-> IF x \in {"a", "b"} THEN "ab" ELSE x]

\* More decimals than the books have, fewer, and as many.
MCScale == [k \in Adapters |->
  [finer |-> IF k = "evm" THEN 4 ELSE 1, coarser |-> IF k = "tron" THEN 4 ELSE 1]]

\* Amounts that leave dust, and that do not fit into MaxInt = 63 chain units.
MCStated == [x \in Transfers |-> CASE x = "a" -> 6 [] x = "b" -> 14 [] OTHER -> 137]

\* One transfer is of another token, or its transaction failed.
MCBrought == [x \in Transfers |-> IF x = "a" THEN 0 ELSE MCStated[x]]
===============================================================================

----------------------------- MODULE MCWithdrawal -----------------------------
\* Withdrawal for a few withdrawals of two users.
EXTENDS Withdrawal

\* The first two withdrawals are of one user, who can pay for both only if
\* they are small.
Owners == [w \in Ids |-> IF w \in {"w1", "w2"} THEN "alice" ELSE "bob"]

Funds == [u \in Users |-> [a \in Assets |-> [available |-> 4, frozen |-> 0]]]

\* A coin with more decimals than the books have, and tokens with fewer.
MCScale == [k \in Kinds |->
  IF k = "evm" THEN [finer |-> 2, coarser |-> 1] ELSE [finer |-> 1, coarser |-> 2]]
===============================================================================

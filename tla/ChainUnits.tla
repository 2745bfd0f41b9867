------------------------------ MODULE ChainUnits ------------------------------
(***************************************************************************)
(* Amounts on a chain and amounts in the books (internal/wallet).  A chain *)
(* counts an asset in units of its own, as many to a coin as it has        *)
(* decimals; the books have eight decimals for everything and keep amounts *)
(* in an int64.  A scale says how the two relate: with more than eight     *)
(* decimals `finer' chain units make one unit of the books, with less than *)
(* eight one chain unit makes `coarser' of them.                           *)
(***************************************************************************)
EXTENDS Int64

Scales == {s \in [finer: Nat \ {0}, coarser: Nat \ {0}] : s.finer = 1 \/ s.coarser = 1}

\* Faulty variant: the dust is rounded up.
ToUnitsInternalUp(n, scale) ==
  LET units == (n * scale.coarser + scale.finer - 1) \div scale.finer
  IN  IF IsInt64(units) THEN units ELSE 0

\* Chain units, already an int64, in units of the books.  What does not fit is 0.
ToUnitsInternal(n, scale) ==
  LET units == (n * scale.coarser) \div scale.finer
  IN  IF IsInt64(units) THEN units ELSE 0

\* Faulty variant: a rest too small for the chain is rounded up.
FromUnitsUp(units, scale) == (units * scale.finer + scale.coarser - 1) \div scale.coarser

\* Units of the books in chain units, as a big.Int.
FromUnits(units, scale) == (units * scale.finer) \div scale.coarser
===============================================================================

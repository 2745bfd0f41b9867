-------------------------------- MODULE Int64 --------------------------------
(***************************************************************************)
(* The int64 of Go, and what big.Int.Int64 makes of numbers that do not    *)
(* fit into it: their low bits.                                            *)
(***************************************************************************)
EXTENDS Integers

CONSTANT MaxInt   \* the greatest int64

ASSUME MaxIntAssumption == MaxInt \in Nat \ {0}

\* How many values the 64-bit types have.
Width == 2 * (MaxInt + 1)

IsInt64(n) == -MaxInt - 1 <= n /\ n <= MaxInt

ToInt64(n) == ((n + MaxInt + 1) % Width) - (MaxInt + 1)
===============================================================================

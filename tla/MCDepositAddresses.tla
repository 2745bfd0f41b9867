-------------------------- MODULE MCDepositAddresses --------------------------
\* DepositAddresses for interchangeable people and calls.
EXTENDS DepositAddresses, TLC

MCSymmetry == Permutations(Calls) \cup Permutations(People)
===============================================================================

---------------------------- MODULE MCAssetLedger ----------------------------
\* AssetLedger for two interchangeable users and one trade.
EXTENDS AssetLedger

UserSymmetry == Permutations(Users)
==============================================================================

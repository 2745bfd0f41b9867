----------------------------- MODULE MCOrderEntry -----------------------------
\* OrderEntry for TLC.  Base is small so that most products round, and so is
\* MaxInt, so that some numbers of a request do not fit.
EXTENDS OrderEntry

MCPrices     == {1, 3, 5, 7}
MCQuantities == {1, 4, 5, 7, 8}
MCAmounts    == {1, 4, 7}

\* Among them one that becomes negative, and two that become small.
MCAsked == {0, 1, 4, 5, 7, 8, 20, Width + 1, Width + 5}
===============================================================================

---------------------------- MODULE MCTradeClient ----------------------------
(* Small instances of TradeClient.                                          *)
EXTENDS TradeClient, TLC

CONSTANTS FIX42, FIX44, FIX43x

MCThreads == HTTP \cup FIX
\* A version both factories know, one only NewOrderSingle knows, one neither.
MCBeginStrings == {FIX42, FIX44, FIX43x}
MCBoth == {FIX42}
MCTwo == {FIX42, FIX44}
MCHTTPSymmetry == Permutations(HTTP)
=============================================================================

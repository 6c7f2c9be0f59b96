---------------------------- MODULE MCTradesByTx ----------------------------
(* TradesByTx with two orderbooks and two requests at a time, of either kind. *)
EXTENDS TradesByTx, TLC
CONSTANTS ob1, ob2, r1, r2
MCOrderbooks == {ob1, ob2}
MCRequests == {r1, r2}
Symmetry == Permutations(MCRequests) \cup Permutations(MCOrderbooks)
=============================================================================

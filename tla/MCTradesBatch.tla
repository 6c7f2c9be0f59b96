--------------------------- MODULE MCTradesBatch ---------------------------
(* TradesBatch with two orders and two concurrent requests.                   *)
EXTENDS TradesBatch, TLC
CONSTANTS h1, h2, r1, r2, slot
MCHashes == {h1, h2}
MCRequests == {r1, r2}
\* Two orders of one orderbook, or of two; takes may have unreadable rows.
MCOneOrderbook == MCHashes
MCTwoOrderbooks == {h1}
MCGarbled == {"take"}
MCNone == {}
\* Owners who give every order a nonce of its own, and one who reuses a nonce.
MCSlotOwn == [h \in MCHashes |-> h]
MCSlotReused == [h \in MCHashes |-> slot]
\* The database is empty at first; or one order has been taken and both are there.
MCNoHistory == {<<>>}
Add(h) == [kind |-> "add", order |-> h, bob |-> h, readable |-> TRUE]
Take(h) == [Add(h) EXCEPT !.kind = "take"]
MCHistories == {<<Add(h1), Take(h1), Add(h2)>>, <<Add(h2), Take(h2), Add(h1)>>}
Symmetry == Permutations(MCRequests) \cup Permutations(MCHashes)
RequestSymmetry == Permutations(MCRequests)
=============================================================================

----------------------------- MODULE MCRegistry -----------------------------
(* Registry with two PUTs and two handlers, one URL that never loads.       *)
EXTENDS Registry, TLC
CONSTANTS good1, good2, bad, a1, a2, h1, h2
MCUrls == {good1, good2, bad}
MCLoadable == {good1, good2}
MCAdmins == {a1, a2}
MCHandlers == {h1, h2}
=============================================================================

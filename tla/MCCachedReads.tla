---------------------------- MODULE MCCachedReads ----------------------------
(* CachedReads with two PUTs, a request that keeps the guard, one by taker    *)
(* (which keeps it over two cache calls), one whose fetch takes the guard,    *)
(* and one registry URL: the generation, not the URL, tells providers apart.  *)
EXTENDS CachedReads, TLC
CONSTANTS good, a1, a2, o1, t1, i1
MCUrls == {good}
MCAdmins == {a1, a2}
MCTakers == {t1}
MCOutside == {o1} \cup MCTakers
MCInside == {i1}
MCHandlers == MCOutside \cup MCInside


\* Start-ups that cannot save their URL are left to the runs of Registry.
StartUpSaves == ~unsaved
==============================================================================

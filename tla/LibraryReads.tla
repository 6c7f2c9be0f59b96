---------------------------- MODULE LibraryReads ----------------------------
(***************************************************************************)
(* The requests that read the library's listing, together: the scans and   *)
(* lists of OrderPages, a single order, a swap, and the pages of a taker,  *)
(* over one listing to which orders and trades are added at any moment.    *)
(*                                                                         *)
(* One request at a time: they share only the listing, which none of them  *)
(* writes, and the caches, which CachedReads has.                          *)
(***************************************************************************)
EXTENDS SingleOrder, SwapRoutes, TakerPages

Quiet == request.pc = "idle" /\ single.pc = "idle" /\ swap.pc = "idle" /\ taker.pc = "idle"

ReadsInit == Init /\ SingleInit /\ SwapInit /\ TakerInit

ReadsNext ==
    \/ Moves /\ UNCHANGED <<single, swap, taker>>
    \/ /\ (Quiet /\ Begins) \/ Serves
       /\ UNCHANGED <<single, swap, taker>>
    \/ /\ (Quiet /\ SingleBegins) \/ SingleServes
       /\ UNCHANGED <<swap, taker>>
    \/ /\ (Quiet /\ SwapBegins) \/ SwapServes
       /\ UNCHANGED <<single, taker>>
    \/ /\ (Quiet /\ TakerBegins) \/ TakerServes
       /\ UNCHANGED <<single, swap>>

ReadsSpec == ReadsInit /\ [][ReadsNext]_<<vars, single, swap, taker>>

-----------------------------------------------------------------------------
\* Types, of every request, and one request at a time.
ReadsTypeOK ==
    /\ TypeOK /\ SingleTypeOK /\ SwapTypeOK /\ TakerTypeOK
    /\ Cardinality({pc \in {<<1, request.pc>>, <<2, single.pc>>, <<3, swap.pc>>, <<4, taker.pc>>} :
            pc[2] # "idle"}) <= 1
=============================================================================

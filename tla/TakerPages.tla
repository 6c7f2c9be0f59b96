----------------------------- MODULE TakerPages -----------------------------
(***************************************************************************)
(* A client that reads GET /v1/trades/taker/{address} page after page until *)
(* has_more is false.  Its pages come from a list of transactions that is  *)
(* cached as a whole for 15 s (taker_tx_cache): each request finds the list *)
(* of an earlier one, of this client or another, or reads it again, with   *)
(* the transactions that were indexed meanwhile at its front.              *)
(*                                                                         *)
(* The taker's transactions are the numbers from 1, as they are indexed;   *)
(* OrderPages has the paging, and its listing is not read here.  How       *)
(* requests share a fetch, and how a transaction is resolved, is           *)
(* TradesByTx's.                                                           *)
(***************************************************************************)
EXTENDS OrderPages

CONSTANT MaxTransactions    \* bound on the taker's transactions
ASSUME TransactionsAssumption == MaxTransactions \in Nat

VARIABLE taker

\* `indexed` is the number of the taker's transactions in the database, `cached` the
\* list in the cache, `list` the one this page is cut from, `slice` what is left of
\* the page, `got` and `skipped` the transactions the client received, and those its
\* pages left out because they did not resolve.  History: `first`, the list its first
\* page was cut from.
IdleTaker ==
    [pc |-> "idle", size |-> 1, page |-> 1, indexed |-> 0, cached |-> <<>>, list |-> <<>>,
     slice |-> <<>>, got |-> {}, skipped |-> {}, first |-> {}]

TakerAt(pc) == taker.pc = pc

\* fetch_taker_tx_hashes after n transactions: newest first, no limit.
Listed(n) == [i \in 1..n |-> n + 1 - i]

\* The first request; another client may have filled the cache a while ago, when
\* n transactions were indexed.
StartTaker(size, indexed, n) ==
    /\ TakerAt("idle") /\ n <= indexed
    /\ taker' = [IdleTaker EXCEPT !.pc = "list", !.size = size, !.indexed = indexed,
                                  !.cached = Listed(n)]
    /\ UNCHANGED vars

\* The indexer: one more transaction of the taker.
Index ==
    /\ ~TakerAt("idle") /\ taker.indexed < MaxTransactions
    /\ taker' = [taker EXCEPT !.indexed = @ + 1]
    /\ UNCHANGED vars

\* Step 1 and 2 of process_get_taker_trades: the list, as it is in the cache or, once
\* that has expired, as the database had it when another client's request or, at last,
\* this one read it again; and its page.
ListTaker ==
    /\ TakerAt("list")
    /\ \E n \in Len(taker.cached)..taker.indexed :
        LET list == Listed(n) IN
        taker' = [taker EXCEPT !.pc = "resolve", !.cached = list, !.list = list,
                    !.slice = Slice(list, taker.page, taker.size),
                    !.first = IF taker.page = 1 THEN ToSet(list) ELSE @]
    /\ UNCHANGED vars

\* The query fails, and the request: the client gives up.
ListTakerFails ==
    /\ TakerAt("list")
    /\ taker' = IdleTaker
    /\ UNCHANGED vars

\* Mutant: the page ends with the first transaction that does not resolve.
ResolveUpToError ==
    /\ TakerAt("resolve") /\ taker.slice # <<>>
    /\ LET tx == Head(taker.slice) IN
       \/ taker' = [taker EXCEPT !.slice = Tail(@), !.got = @ \cup {tx}]
       \/ taker' = [taker EXCEPT !.slice = <<>>, !.skipped = @ \cup {tx}]
    /\ UNCHANGED vars

\* Step 3: get_cached_trades_by_tx for one after the other; an error is skipped.
Resolve ==
    /\ TakerAt("resolve") /\ taker.slice # <<>>
    /\ LET tx == Head(taker.slice) IN
       \/ taker' = [taker EXCEPT !.slice = Tail(@), !.got = @ \cup {tx}]
       \/ taker' = [taker EXCEPT !.slice = Tail(@), !.skipped = @ \cup {tx}]
    /\ UNCHANGED vars

\* The page leaves; has_more sends the client to the next.
AnswerPage ==
    /\ TakerAt("resolve") /\ taker.slice = <<>>
    /\ taker' = IF HasMore(Len(taker.list), taker.page, taker.size)
                THEN [taker EXCEPT !.pc = "list", !.page = @ + 1, !.list = <<>>]
                ELSE [taker EXCEPT !.pc = "done"]
    /\ UNCHANGED vars

Leave ==
    /\ TakerAt("done")
    /\ taker' = IdleTaker
    /\ UNCHANGED vars

TakerInit == taker = IdleTaker
TakerBegins ==
    \E size \in Sizes \ {0}, indexed, n \in 0..MaxTransactions : StartTaker(size, indexed, n)
TakerServes == Index \/ ListTaker \/ ListTakerFails \/ Resolve \/ AnswerPage \/ Leave

-----------------------------------------------------------------------------
TakerTypeOK ==
    LET transactions == 1..taker.indexed
    IN  /\ taker.pc \in {"idle", "list", "resolve", "done"} /\ taker.indexed \in Nat
        /\ taker.size \in Nat \ {0} /\ taker.page \in Nat \ {0}
        /\ {taker.cached, taker.list, taker.slice} \subseteq Seq(transactions)
        /\ taker.got \cup taker.skipped \cup taker.first \subseteq transactions

\* However often the list expires and grows between two pages, a client that
\* follows has_more to the end has received every transaction of the list it began
\* with, but for those that did not resolve: new ones push the rest back, so a page
\* may repeat some but never leaps over one.
PagingMissesNothing ==
    TakerAt("done") => taker.first \subseteq taker.got \cup taker.skipped
=============================================================================

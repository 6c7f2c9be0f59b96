----------------------------- MODULE TradesByTx -----------------------------
(***************************************************************************)
(* GET /v1/trades/tx/{tx_hash} and GET /v1/trades/taker/{address} for one  *)
(* transaction and its sender: the two caches (try_get_with: misses of a   *)
(* key share one fetch), the lookup of the transaction's trades in every   *)
(* orderbook, the index check that tells "no trades" from "not yet", and   *)
(* the taker list that resolves its transactions through the same cache,   *)
(* while each orderbook's indexer reaches the transaction in its own time. *)
(*                                                                         *)
(* Trades are stood for by the orderbook they are in.  A transaction may   *)
(* touch an orderbook without trading there (a deposit, a new order).  The *)
(* registry does not change here: CachedReads is about that.               *)
(***************************************************************************)
EXTENDS Integers, FiniteSets

CONSTANTS
    Orderbooks,     \* the orderbooks of the registry
    Requests,       \* request tasks
    NoFetcher,      \* start-up built no DirectTradesFetcher
    Empty           \* no cache entry

ASSUME OrderbooksAssumption == Orderbooks # {} /\ NoFetcher \notin Orderbooks
ASSUME EmptyAssumption ==
    Empty \notin [status : STRING, trades : SUBSET Orderbooks, began : SUBSET Orderbooks]

VARIABLES
    touched,        \* the orderbooks the transaction touches
    trades,         \* those in which it has trades, takes of its sender
    indexed,        \* the orderbooks whose indexer has passed the transaction
    home,           \* the orderbook of the DirectTradesFetcher
    cache,          \* the entries of trades_by_tx_cache and taker_tx_cache
    request

chain == <<touched, trades, home>>
vars == <<chain, indexed, cache, request>>

Keys == {"tx", "list"}

\* The outcome of a fetch; `began` (history) is what was indexed when it began.
Outcome(status, found, began) == [status |-> status, trades |-> found, began |-> began]

\* `key` is the cache a request is at, `left` the orderbooks still to be asked,
\* `found` the trades so far, `failed` whether some orderbook gave an error.
IdleRequest ==
    [pc |-> "idle", kind |-> "tx", key |-> "tx", left |-> {}, found |-> {}, failed |-> FALSE,
     began |-> {}, reply |-> Empty]

Fetching == {"query", "trades", "check"}
Leaders(key) == {r \in Requests : request[r].key = key /\ request[r].pc \in Fetching}
Joiners(key) == {r \in Requests : request[r].key = key /\ request[r].pc = "join"}

At(r, pc) == request[r].pc = pc

-----------------------------------------------------------------------------
\* What a request does with the outcome of the fetch it asked for.  A taker whose
\* transaction is not in the list has an empty page; otherwise it looks the
\* transaction up, and leaves it out of the page whatever the error.
Received(r, outcome) ==
    IF request[r].key = "list" /\ outcome.status = "200" /\ outcome.trades # {}
    THEN [request[r] EXCEPT !.pc = "lookup", !.key = "tx"]
    ELSE [request[r] EXCEPT !.pc = "reply", !.reply = outcome]

\* try_get_with keeps the value of a fetch that succeeded.
Caches(outcome) == outcome.status = "200"

\* The fetch is over, for its leader and for everyone who joined it.
Finish(r, status, found) ==
    LET key     == request[r].key
        outcome == Outcome(status, found, request[r].began)
    IN  /\ request' = [q \in Requests |->
                IF q = r \/ q \in Joiners(key) THEN Received(q, outcome) ELSE request[q]]
        /\ cache' = IF Caches(outcome) THEN [cache EXCEPT ![key] = outcome] ELSE cache

-----------------------------------------------------------------------------
\* get_trades_by_tx, get_taker_trades: without a fetcher a taker's page is empty.
Start(r, kind) ==
    /\ At(r, "idle")
    /\ request' = [request EXCEPT ![r] =
            IF kind = "taker" /\ home = NoFetcher
            THEN [IdleRequest EXCEPT !.pc = "reply", !.kind = kind, !.key = "list",
                                     !.reply = Outcome("200", {}, {})]
            ELSE [IdleRequest EXCEPT !.pc = "lookup", !.kind = kind,
                                     !.key = IF kind = "taker" THEN "list" ELSE "tx"]]
    /\ UNCHANGED <<chain, indexed, cache>>

\* Mutant: get, then fetch and insert, as the batch does: misses are not shared.
LookupUnshared(r) ==
    LET key == request[r].key
    IN  /\ At(r, "lookup")
        /\ request' = [request EXCEPT ![r] =
                IF cache[key] # Empty THEN Received(r, cache[key])
                ELSE [@ EXCEPT !.pc = IF key = "list" THEN "query" ELSE "trades",
                               !.began = indexed, !.left = Orderbooks]]
        /\ UNCHANGED <<chain, indexed, cache>>

\* get_or_try_insert: a hit, a wait for the fetch under way, or a fetch.
Lookup(r) ==
    LET key == request[r].key
    IN  /\ At(r, "lookup")
        /\ request' = [request EXCEPT ![r] =
                IF cache[key] # Empty THEN Received(r, cache[key])
                ELSE IF Leaders(key) # {} THEN [@ EXCEPT !.pc = "join"]
                ELSE [@ EXCEPT !.pc = IF key = "list" THEN "query" ELSE "trades",
                               !.began = indexed, !.left = Orderbooks]]
        /\ UNCHANGED <<chain, indexed, cache>>

\* fetch_taker_tx_hashes over the fetcher's own orderbook.
ListTransactions(r) ==
    /\ At(r, "query")
    /\ Finish(r, "200", {home} \cap trades \cap indexed) \/ Finish(r, "500", {})
    /\ UNCHANGED <<chain, indexed>>

\* One of the concurrent get_transaction_trades of the lookup returns.
FindTrades(r, orderbook) ==
    /\ At(r, "trades") /\ orderbook \in request[r].left
    /\ \/ request' = [request EXCEPT ![r].left = @ \ {orderbook},
                                     ![r].found = @ \cup ({orderbook} \cap trades \cap indexed)]
       \/ request' = [request EXCEPT ![r].left = @ \ {orderbook}, ![r].failed = TRUE]
    /\ UNCHANGED <<chain, indexed, cache>>

\* Ratios, order hashes and totals are computed from every trade; one that cannot
\* be (arithmetic, a malformed hash, a number too large) fails them all.
Convert(r) == Finish(r, "200", request[r].found) \/ Finish(r, "500", {})

\* Mutant: an orderbook that failed is passed over.
GatherWhatCame(r) ==
    /\ At(r, "trades") /\ request[r].left = {}
    /\ IF request[r].found # {} THEN Convert(r)
       ELSE /\ request' = [request EXCEPT ![r].pc = "check", ![r].left = Orderbooks]
            /\ UNCHANGED cache
    /\ UNCHANGED <<chain, indexed>>

\* All have returned: one error fails the lookup, and without trades the index
\* is asked.
Gather(r) ==
    /\ At(r, "trades") /\ request[r].left = {}
    /\ IF request[r].failed THEN Finish(r, "500", {})
       ELSE IF request[r].found # {} THEN Convert(r)
       ELSE /\ request' = [request EXCEPT ![r].pc = "check", ![r].left = Orderbooks]
            /\ UNCHANGED cache
    /\ UNCHANGED <<chain, indexed>>

\* Mutant: the first timeout settles it.
TimedOutAtOnce(r, orderbook) == Finish(r, "202", {})

\* The transaction is not in this orderbook's index; the last one settles it.
TimedOut(r, orderbook) ==
    IF request[r].left = {orderbook} THEN Finish(r, "202", {})
    ELSE request' = [request EXCEPT ![r].left = @ \ {orderbook}] /\ UNCHANGED cache

\* check_tx_index_state: one orderbook after the other (of a HashMap, in any
\* order) until one knows the transaction or fails.
CheckIndex(r, orderbook) ==
    /\ At(r, "check") /\ orderbook \in request[r].left
    /\ \/ orderbook \in touched \cap indexed /\ Finish(r, "404", {})
       \/ orderbook \notin touched \cap indexed /\ TimedOut(r, orderbook)
       \/ Finish(r, "500", {})
    /\ UNCHANGED <<chain, indexed>>

Reply(r) ==
    /\ At(r, "reply")
    /\ request' = [request EXCEPT ![r] = IdleRequest]
    /\ UNCHANGED <<chain, indexed, cache>>

\* An indexer passes the transaction's block.
Index(orderbook) ==
    /\ orderbook \notin indexed
    /\ indexed' = indexed \cup {orderbook}
    /\ UNCHANGED <<chain, cache, request>>

\* Time to live or capacity.
Expire(key) ==
    /\ cache[key] # Empty
    /\ cache' = [cache EXCEPT ![key] = Empty]
    /\ UNCHANGED <<chain, indexed, request>>

Init ==
    /\ touched \in SUBSET Orderbooks /\ trades \in SUBSET touched
    /\ indexed = {}
    /\ home \in Orderbooks \cup {NoFetcher}
    /\ cache = [key \in Keys |-> Empty]
    /\ request = [r \in Requests |-> IdleRequest]

Next ==
    \/ \E r \in Requests :
        \/ \E kind \in {"tx", "taker"} : Start(r, kind)
        \/ Lookup(r) \/ ListTransactions(r)
        \/ \E orderbook \in Orderbooks : FindTrades(r, orderbook) \/ CheckIndex(r, orderbook)
        \/ Gather(r) \/ Reply(r)
    \/ \E orderbook \in Orderbooks : Index(orderbook)
    \/ \E key \in Keys : Expire(key)

Spec == Init /\ [][Next]_vars

-----------------------------------------------------------------------------
Outcomes ==
    [status : {"200", "202", "404", "500"}, trades : SUBSET Orderbooks, began : SUBSET Orderbooks]

\* Types; one fetch per key, which everyone who waits for the key waits for.
TypeOK ==
    /\ trades \subseteq touched /\ touched \subseteq Orderbooks /\ indexed \subseteq Orderbooks
    /\ cache \in [Keys -> Outcomes \cup {Empty}]
    /\ request \in [Requests ->
            [pc : Fetching \cup {"idle", "lookup", "join", "reply"}, kind : {"tx", "taker"},
             key : Keys, left : SUBSET Orderbooks, found : SUBSET Orderbooks, failed : BOOLEAN,
             began : SUBSET Orderbooks, reply : Outcomes \cup {Empty}]]
    /\ \A key \in Keys : /\ Cardinality(Leaders(key)) <= 1
                         /\ Joiners(key) # {} => Leaders(key) # {}

\* The transaction's trades that one may count on: indexed before the fetch began.
Known(outcome) == trades \cap outcome.began

\* An answer holds the transaction's trades, at least those indexed when its fetch
\* began, and so does the cache: no failed orderbook and no error passes for an
\* answer, to whoever asked, joined or found it in the cache.
Covers(outcome) ==
    /\ outcome.status = "200" /\ outcome.trades # {}
    /\ Known(outcome) \subseteq outcome.trades /\ outcome.trades \subseteq trades \cap indexed

LookedUp == {r \in Requests : At(r, "reply") /\ request[r].key = "tx"}

AnswersCover ==
    /\ \A r \in LookedUp : request[r].reply.status = "200" => Covers(request[r].reply)
    /\ cache["tx"] # Empty => Covers(cache["tx"])

\* "Not yet indexed" and "no trades" are never said of a transaction whose trades
\* were indexed when the fetch began, and "not yet indexed" of none that any
\* orderbook knew then.
DenialsAreHonest ==
    \A r \in LookedUp :
        LET outcome == request[r].reply
        IN  /\ outcome.status \in {"202", "404"} => Known(outcome) = {}
            /\ outcome.status = "202" => touched \cap outcome.began = {}
            /\ outcome.status = "404" => touched \cap indexed # {}

\* "transaction has no associated trades" (trades.rs:392) is said only of
\* transactions that have none.
NotFoundMeansNoTrades ==
    \A r \in LookedUp : request[r].reply.status = "404" => trades = {}
=============================================================================

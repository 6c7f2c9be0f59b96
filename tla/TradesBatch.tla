---------------------------- MODULE TradesBatch ----------------------------
(***************************************************************************)
(* POST /v1/trades/batch: process_trades_batch over its cache of trades by *)
(* order hash, the direct SQL query of DirectTradesFetcher, and the slower *)
(* per-order library calls it falls back to, with several requests at work *)
(* on the same cache (plain get and insert: misses are not shared) while   *)
(* the indexer appends events to the database.                             *)
(*                                                                         *)
(* The database is the sequence of events in block and log order.  A trade *)
(* is the index of its event.  A take carries no order hash, only the      *)
(* owner and the nonce of its order, here Slot[hash].                      *)
(***************************************************************************)
EXTENDS Integers, Sequences, FiniteSets, SequencesExt

CONSTANTS
    Hashes,         \* order hashes
    Slot,           \* the owner and nonce of each order
    AtHome,         \* the orders on the orderbook of the DirectTradesFetcher
    Garbled,        \* the kinds of events whose row the fetcher may be unable to read
    Direct,         \* whether start-up built a DirectTradesFetcher
    Requests,       \* request tasks
    MaxHashes,      \* TRADES_BATCH_MAX_HASHES
    Histories,      \* what may be in the database when the service starts
    MaxEvents,      \* bound on the events in the database
    Empty,          \* no cache entry
    Pending,        \* no result yet
    Failed,         \* an error
    Masked          \* an empty list because the lookup of the order failed

\* None of them is a list of trades.
ASSUME AnswerAssumption ==
    /\ Cardinality({Empty, Pending, Failed, Masked}) = 4
    /\ \A trades \in SUBSET (1..MaxEvents) : trades \notin {Empty, Pending, Failed, Masked}
ASSUME SlotAssumption == DOMAIN Slot = Hashes
ASSUME FetcherAssumption == AtHome \subseteq Hashes /\ Garbled \subseteq {"take", "clear"}
ASSUME BoundsAssumption ==
    Direct \in BOOLEAN /\ MaxHashes \in Nat \ {0} /\ MaxEvents \in Nat

Events == [kind : {"add", "take", "clear"}, order : Hashes, bob : Hashes, readable : BOOLEAN]
\* A clear, and only a clear, is between two orders, of one orderbook.
EventInputs ==
    {e \in Events : /\ e.kind = "clear" <=> e.bob # e.order
                    /\ e.order \in AtHome <=> e.bob \in AtHome
                    /\ e.readable \/ e.kind \in Garbled}

\* Orders are taken or cleared once they have been added; an order can be
\* removed and added again.
Possible(history) ==
    \A i \in DOMAIN history : history[i].kind # "add" =>
        \A hash \in {history[i].order, history[i].bob} :
            \E j \in 1..(i - 1) : history[j].kind = "add" /\ history[j].order = hash

ASSUME HistoriesAssumption ==
    \A history \in Histories :
        history \in Seq(EventInputs) /\ Len(history) <= MaxEvents /\ Possible(history)

VARIABLES
    events,         \* order_events, take_orders, clear_v3_events, in order
    cache,          \* trades_by_order_hash_cache
    batch           \* per request: its step and its local variables

vars == <<events, cache, batch>>

\* An answer is a set of trades, or Failed or Masked, which look like an empty list.
\* `fresh` (history): the hashes it has read (all of their entries) and
\* nothing was indexed since.
IdleBatch == [pc |-> "idle", hashes |-> <<>>, next |-> 1, uncached |-> <<>>,
              results |-> <<>>, map |-> <<>>, fresh |-> {}]

-----------------------------------------------------------------------------
\* The query, for the requested hashes, on the fetcher's orderbook.

Added(hash, i) == \E j \in 1..i : events[j].kind = "add" /\ events[j].order = hash

\* order_add_events: the additions of requested orders that a take could be of.
Additions(requested, i) ==
    {j \in 1..i : /\ events[j].kind = "add" /\ events[j].order \in requested
                  /\ Slot[events[j].order] = Slot[events[i].order]}

\* take_trades: the latest of them gets the take.
TakesOf(hash, requested) ==
    {i \in DOMAIN events :
        /\ events[i].kind = "take"
        /\ \E j \in Additions(requested, i) :
            /\ events[j].order = hash
            /\ \A newer \in Additions(requested, i) : newer <= j}

\* Mutant: clear_bob forgotten.
ClearsOfAlice(hash) ==
    {i \in DOMAIN events :
        events[i].kind = "clear" /\ hash = events[i].order /\ Added(hash, i)}

\* clear_alice and clear_bob: found by their own order hashes.
ClearsOf(hash) ==
    {i \in DOMAIN events :
        /\ events[i].kind = "clear" /\ hash \in {events[i].order, events[i].bob}
        /\ Added(hash, i)}

\* convert_raw_trade: a row that cannot be read is left out, with a warning.
Converted(rows) == {i \in rows : events[i].readable}

Query(hash, requested) ==
    IF hash \in AtHome
    THEN Converted(TakesOf(hash, requested \cap AtHome) \cup ClearsOf(hash))
    ELSE {}

\* What the library answers for one order: the same query for that order alone, on
\* the order's own orderbook (find_order_by_hash asks them all).
Library(hash) == TakesOf(hash, {hash}) \cup ClearsOf(hash)

-----------------------------------------------------------------------------
\* The indexer appends an event.
Index(event) ==
    /\ Len(events) < MaxEvents
    /\ Possible(Append(events, event))
    /\ events' = Append(events, event)
    /\ batch' = [r \in Requests |-> [batch[r] EXCEPT !.fresh = {}]]
    /\ UNCHANGED cache

\* An empty list and one that is too long are answered at once.
Start(r, hashes) ==
    /\ batch[r].pc = "idle"
    /\ 0 < Len(hashes) /\ Len(hashes) <= MaxHashes
    /\ batch' = [batch EXCEPT ![r].pc = "lookup", ![r].hashes = hashes]
    /\ UNCHANGED <<events, cache>>

With(map, hash, answer) ==
    [h \in DOMAIN map \cup {hash} |-> IF h = hash THEN answer ELSE map[h]]

\* One cache.get after the other; after the last, the way the misses are fetched.
LookUp(r) ==
    LET b    == batch[r]
        hash == b.hashes[b.next]
        hit  == cache[hash] # Empty
        missing == IF hit THEN b.uncached ELSE Append(b.uncached, hash)
        last == b.next = Len(b.hashes)
    IN  /\ b.pc = "lookup"
        /\ batch' = [batch EXCEPT ![r] =
            [b EXCEPT !.map = IF hit THEN With(@, hash, cache[hash]) ELSE @,
                      !.uncached = missing,
                      !.next = IF last THEN 1 ELSE @ + 1,
                      !.results = IF last THEN [i \in DOMAIN missing |-> Pending] ELSE @,
                      !.pc = IF ~last THEN @
                             ELSE IF missing = <<>> THEN "respond"
                             ELSE IF Direct THEN "direct" ELSE "library"]]
        /\ UNCHANGED <<events, cache>>

\* batch_fetch: one query for all; a hash it has no row for has no trades.
BatchFetch(r) ==
    LET b == batch[r]
    IN  /\ b.pc = "direct"
        /\ batch' = [batch EXCEPT ![r].pc = "insert", ![r].fresh = ToSet(b.uncached),
                ![r].results = [i \in DOMAIN b.uncached |-> Query(b.uncached[i], ToSet(b.uncached))]]
        /\ UNCHANGED <<events, cache>>

BatchFetchFails(r) ==
    /\ batch[r].pc = "direct"
    /\ batch' = [batch EXCEPT ![r].pc = "library"]
    /\ UNCHANGED <<events, cache>>

\* fetch_trades_for_hash for each hash, concurrently (join_all).  A failed query
\* for trades is an error; a failed lookup of the order, in find_order_by_hash,
\* is taken for "no such order", which has no trades.
LibraryFetch(r, i) ==
    LET b    == batch[r]
        hash == b.uncached[i]
        first == \A j \in DOMAIN b.results : b.uncached[j] = hash => b.results[j] = Pending
        results(answer) == [b.results EXCEPT ![i] = answer]
        Result(answer, fresh) == batch' = [batch EXCEPT ![r].results = results(answer),
            ![r].fresh = fresh,
            ![r].pc = IF Pending \in Range(results(answer)) THEN @ ELSE "insert"]
    IN  /\ b.pc = "library" /\ b.results[i] = Pending
        /\ \/ Result(Library(hash), IF first THEN b.fresh \cup {hash} ELSE b.fresh)
           \/ Result(Failed, b.fresh) \/ Result(Masked, b.fresh)
        /\ UNCHANGED <<events, cache>>

\* Mutants: results paired with the whole request, or in another order; errors
\* cached too.
HashOfResultShifted(b, i) == b.hashes[i]
HashOfResultReversed(b, i) == b.uncached[Len(b.uncached) + 1 - i]
CachesFailed(answer) == TRUE

\* `uncached.iter().zip(results)`; only a success is cached.
HashOfResult(b, i) == b.uncached[i]
Caches(answer) == answer # Failed

\* One cache.insert after the other.
Insert(r) ==
    LET b      == batch[r]
        hash   == HashOfResult(b, b.next)
        answer == b.results[b.next]
    IN  /\ b.pc = "insert"
        /\ cache' = IF Caches(answer) THEN [cache EXCEPT ![hash] = answer] ELSE cache
        /\ batch' = [batch EXCEPT ![r] =
            IF b.next < Len(b.results)
            THEN [b EXCEPT !.next = @ + 1, !.map = With(@, hash, answer)]
            ELSE [IdleBatch EXCEPT !.pc = "respond", !.hashes = b.hashes,
                                   !.fresh = b.fresh,
                                   !.map = With(b.map, hash, answer)]]
        /\ UNCHANGED events

\* `cached_map.remove(hash).unwrap_or_default()` for each entry of the request:
\* the second entry of a hash finds nothing left.
Entry(b, i) ==
    IF \E j \in 1..(i - 1) : b.hashes[j] = b.hashes[i] THEN Failed ELSE b.map[b.hashes[i]]

Entries(b) == [i \in DOMAIN b.hashes |-> Entry(b, i)]

\* The response, Entries(batch[r]), leaves.
Respond(r) ==
    /\ batch[r].pc = "respond"
    /\ batch' = [batch EXCEPT ![r] = IdleBatch]
    /\ UNCHANGED <<events, cache>>

\* Time to live, capacity, or a PUT between two requests.
Expire(hash) ==
    /\ cache[hash] # Empty
    /\ cache' = [cache EXCEPT ![hash] = Empty]
    /\ UNCHANGED <<events, batch>>

Init ==
    /\ events \in Histories
    /\ cache = [hash \in Hashes |-> Empty]
    /\ batch = [r \in Requests |-> IdleBatch]

Next ==
    \/ \E event \in EventInputs : Index(event)
    \/ \E r \in Requests :
        \/ \E hashes \in BoundedSeq(Hashes, MaxHashes) : Start(r, hashes)
        \/ LookUp(r)
        \/ BatchFetch(r) \/ BatchFetchFails(r)
        \/ \E i \in DOMAIN batch[r].uncached : LibraryFetch(r, i)
        \/ Insert(r) \/ Respond(r)
    \/ \E hash \in Hashes : Expire(hash)

Spec == Init /\ [][Next]_vars

-----------------------------------------------------------------------------
Answers == (SUBSET (1..MaxEvents)) \cup {Failed, Masked}
BatchSteps == {"idle", "lookup", "direct", "library", "insert", "respond"}

\* Types; a request that answers has an entry for every hash it was asked for.
TypeOK ==
    /\ events \in Seq(EventInputs)
    /\ cache \in [Hashes -> Answers \cup {Empty}]
    /\ \A r \in Requests :
        LET b == batch[r]
        IN  /\ b.pc \in BatchSteps
            /\ {b.hashes, b.uncached} \subseteq Seq(Hashes)
            /\ b.results \in Seq(Answers \cup {Pending})
            /\ DOMAIN b.map \subseteq ToSet(b.hashes)
            /\ b.next \in 1..(MaxHashes + 1) /\ b.fresh \subseteq Hashes
            /\ b.pc = "respond" => DOMAIN b.map = ToSet(b.hashes)

\* The trades of an order among the first n events: the takes and clears of that
\* very order, whoever else shares its owner and nonce.
TradesOf(hash, n) ==
    {i \in 1..n : \/ events[i].kind = "take" /\ events[i].order = hash
                  \/ events[i].kind = "clear" /\ hash \in {events[i].order, events[i].bob}}

\* The query of a batch finds exactly an order's trades, whatever else is asked for with it:
\* a take goes to the latest addition, a clear counts on both its sides, and the
\* trades before a re-addition stay.  (With a nonce of its own for each order, on
\* the fetcher's orderbook, and but for the rows that cannot be read.)
QueryIsExact ==
    \A r \in Requests : batch[r].pc = "direct" =>
        \A hash \in ToSet(batch[r].uncached) \cap AtHome :
            Query(hash, ToSet(batch[r].uncached))
                = {i \in TradesOf(hash, Len(events)) : events[i].readable}

\* An answer is the truth of a moment since then, if unreadable rows may lack.
True(hash, answer, then) ==
    \E n \in then..Len(events) : \E lacking \in SUBSET {i \in 1..n : ~events[i].readable} :
        answer = TradesOf(hash, n) \ lacking

\* Every cached answer was the truth when it was read, and it is about its own
\* hash: neither failures nor other orders' trades get into the cache, however
\* requests overlap (but for the lookups a failure masks).
CacheIsTrue ==
    \A hash \in Hashes : cache[hash] \notin {Empty, Masked} => True(hash, cache[hash], 0)

First(b, i) == \A j \in 1..(i - 1) : b.hashes[j] # b.hashes[i]

\* What a response says of an order on the fetcher's orderbook was true at some
\* moment, too, and is true now if it was just read; but for the empty lists of
\* failures.
ResponsesAreTrue ==
    \A r \in Requests : batch[r].pc = "respond" =>
        \A i \in DOMAIN batch[r].hashes :
            LET b     == batch[r]
                hash  == b.hashes[i]
                entry == Entries(b)[i]
            IN  First(b, i) /\ hash \in AtHome /\ entry \notin {Failed, Masked} =>
                    True(hash, entry, IF hash \in b.fresh THEN Len(events) ELSE 0)

Shown(answer) == IF answer \in {Failed, Masked} THEN {} ELSE answer

\* The entries of one order in one response agree ("Trades grouped by order
\* hash", trades.rs:910).
RepeatedHashesAgree ==
    \A r \in Requests : batch[r].pc = "respond" =>
        LET b == batch[r] IN
        \A i, j \in DOMAIN b.hashes :
            b.hashes[i] = b.hashes[j] => Shown(Entries(b)[i]) = Shown(Entries(b)[j])

\* Asking for an order in a batch gives the trades that asking the library for it
\* gives ("Runs a batch SQL query for multiple order hashes in one call instead of N
\* individual queries", direct_trades.rs:4-5), rows that cannot be read aside.
BatchingIsTransparent ==
    \A r \in Requests : batch[r].pc = "direct" =>
        \A hash \in ToSet(batch[r].uncached) :
            Query(hash, ToSet(batch[r].uncached)) = Converted(Library(hash))
=============================================================================

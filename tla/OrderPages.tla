----------------------------- MODULE OrderPages -----------------------------
(***************************************************************************)
(* The requests that read the library's pages of orders, while the indexer *)
(* adds orders and trades:                                                 *)
(*                                                                         *)
(*   GET /v1/trades/{address}: fetch_all_orders page after page, the trades *)
(*   of every order found (join_all), sorted and cut into pages;           *)
(*                                                                         *)
(*   GET /v1/orders/owner and /token: one page of orders, and quotes for   *)
(*   the funded ones, chain by chain, in a batch or, when that fails, one  *)
(*   by one.                                                               *)
(*                                                                         *)
(* One request at a time: these requests share nothing but their caches,   *)
(* which CachedReads has.  A trade is the number of its event and an io    *)
(* ratio the order that it was quoted for.                                 *)
(***************************************************************************)
EXTENDS Integers, Sequences, FiniteSets, SequencesExt

CONSTANTS
    Orders,         \* the orders that match the request's filter, sooner or later
    Chain,          \* the chain id of each
    Funded,         \* those whose output vault has a balance
    NoRatio,        \* "-"
    Pending,        \* a quote that has not come
    ScanPageSize,   \* ORDERS_SCAN_PAGE_SIZE
    MaxPage,        \* u16::MAX, which the scan's page number does not pass
    MaxPageSize,    \* MAX_PAGE_SIZE
    Pages, Sizes,   \* what requests ask for
    MaxTrades       \* bound on the trades of a behaviour

ASSUME OrdersAssumption ==
    /\ Chain \in [Orders -> Nat] /\ Funded \subseteq Orders
    /\ {NoRatio, Pending} \cap Orders = {} /\ NoRatio # Pending
ASSUME SizesAssumption ==
    /\ {ScanPageSize, MaxPage, MaxPageSize} \subseteq Nat \ {0} /\ MaxPage > 1
    /\ Pages \cup Sizes \subseteq Nat /\ MaxTrades \in Nat

VARIABLES
    orders,     \* the library's listing, in its order
    trades,     \* the order of each trade, oldest first
    request

vars == <<orders, trades, request>>

\* The page a request asks for is chosen where it is used (ReadList; an answer's
\* pages are all in PagesMakeTheAnswer).
\* `found` is the orders read, `next` the page to scan, `total` the count the
\* library gave last, `left` the positions in found (trades) or in quotable
\* (quotes) that have no result, `loaded` and `quotes` the results, `all` the
\* sorted trades.  History: `known` and `since`, the orders and the number of
\* trades when the request came; `refused`, the orders the library has no price for;
\* `unanswered`, those whose own call failed.
IdleRequest ==
    [pc |-> "idle", next |-> 1, found |-> <<>>, total |-> 0,
     left |-> {}, loaded |-> <<>>, quotable |-> <<>>, quotes |-> <<>>, failed |-> FALSE,
     all |-> <<>>, known |-> {}, since |-> 0, refused |-> {},
     unanswered |-> {}]

At(pc) == request.pc = pc
Fails == request' = [IdleRequest EXCEPT !.pc = "failed"]

-----------------------------------------------------------------------------
\* Paging, by the handlers and (assumed to be the same) by the library.

\* Page 0 is page 1 (saturating_sub).
Slice(list, page, size) ==
    LET offset == IF page = 0 THEN 0 ELSE (page - 1) * size
    IN  SubSeq(list, offset + 1,
               IF offset + size < Len(list) THEN offset + size ELSE Len(list))

TotalPages(total, size) == IF size = 0 THEN 0 ELSE (total + size - 1) \div size
HasMore(total, page, size) == page < TotalPages(total, size)
EffectiveSize(size) == IF size < MaxPageSize THEN size ELSE MaxPageSize

LibraryPage(page, size) == Slice(orders, page, size)

\* The numbers of S in their order.  (SetToSortSeq, said by what it returns: a sort
\* is a permutation that the provers know nothing of.)
Increasing(S) ==
    [k \in 1..Cardinality(S) |-> CHOOSE n \in S : Cardinality({m \in S : m < n}) = k - 1]

-----------------------------------------------------------------------------
\* GET /v1/trades/{address}

StartTrades ==
    /\ At("idle")
    /\ request' = [IdleRequest EXCEPT !.pc = "scan", !.known = ToSet(orders), !.since = Len(trades)]
    /\ UNCHANGED <<orders, trades>>

\* Mutant: the count that came with the page before decides.
ScannedByOldTotal(found, total, next) ==
    Len(found) >= (IF next = 1 THEN total ELSE request.total) \/ next + 1 = MaxPage

\* Whether the scan ends with this page; `page == u16::MAX` cuts it short.
Scanned(found, total, next) == Len(found) >= total \/ next + 1 = MaxPage

ScanPage ==
    LET found == request.found \o LibraryPage(request.next, ScanPageSize)
        total == Len(orders)
    IN  /\ At("scan")
        /\ request' =
            IF Scanned(found, total, request.next)
            THEN [request EXCEPT !.pc = "load", !.found = found, !.total = total,
                                 !.left = DOMAIN found, !.loaded = [i \in DOMAIN found |-> {}]]
            ELSE [request EXCEPT !.next = @ + 1, !.found = found, !.total = total]
        /\ UNCHANGED <<orders, trades>>

TradesOf(order) == {t \in DOMAIN trades : trades[t] = order}

\* One of the concurrent get_order_trades returns.
LoadTrades(i) ==
    /\ At("load") /\ i \in request.left
    /\ \/ request' = [request EXCEPT !.left = @ \ {i}, !.loaded[i] = TradesOf(request.found[i])]
       \/ request' = [request EXCEPT !.left = @ \ {i}, !.failed = TRUE]
    /\ UNCHANGED <<orders, trades>>

\* Mutant: the trades stay grouped by order.
NewestFirstByOrder(loaded) ==
    FlattenSeq([i \in DOMAIN loaded |-> SetToSortSeq(loaded[i], LAMBDA s, t : s > t)])

\* The trades that the orders brought, one that was read twice twice, and how many
\* of them are no older than t; the trade at place k when the newest comes first.
Brought(loaded) == {b \in (DOMAIN loaded) \X (DOMAIN trades) : b[2] \in loaded[b[1]]}
SinceThen(loaded, t) == Cardinality({b \in Brought(loaded) : b[2] >= t})
NewestFirst(loaded) ==
    [k \in 1..Cardinality(Brought(loaded)) |->
        CHOOSE t \in DOMAIN trades : SinceThen(loaded, t + 1) < k /\ k <= SinceThen(loaded, t)]

Answer ==
    request' = [IdleRequest EXCEPT !.pc = "trades", !.all = NewestFirst(request.loaded),
                                   !.total = request.total, !.since = request.since]

\* Mutant: an order whose trades failed to load is passed over.
AnswerWithWhatCame ==
    /\ At("load") /\ request.left = {}
    /\ Answer
    /\ UNCHANGED <<orders, trades>>

\* All are in: one failure fails the request, and so does one trade whose time or
\* block number does not fit (to_u64).
AnswerTrades ==
    /\ At("load") /\ request.left = {}
    /\ \/ ~request.failed /\ Answer
       \/ (request.failed \/ UNION Range(request.loaded) # {}) /\ Fails
    /\ UNCHANGED <<orders, trades>>

-----------------------------------------------------------------------------
\* GET /v1/orders/owner/{address}, GET /v1/orders/token/{address}

StartList ==
    /\ At("idle")
    /\ request' = [IdleRequest EXCEPT !.pc = "list"]
    /\ UNCHANGED <<orders, trades>>

\* What the library makes of page 0 is not known here.
ReadList(page, size) ==
    LET found    == LibraryPage(page, EffectiveSize(size))
        quotable == Increasing({i \in DOMAIN found : found[i] \in Funded})
    IN  /\ At("list") /\ page > 0
        /\ request' = [request EXCEPT !.pc = "quote", !.found = found,
                            !.quotable = quotable, !.left = DOMAIN quotable,
                            !.quotes = [q \in DOMAIN quotable |-> Pending]]
        /\ UNCHANGED <<orders, trades>>

\* The order that a quote is for, and the quotes of the next chain (a BTreeMap).
Quoted(q) == request.found[request.quotable[q]]
Group == {q \in request.left : \A other \in request.left : Chain[Quoted(q)] <= Chain[Quoted(other)]}

\* Mutant: the group's quotes are put at the beginning.
PlaceAtFront(q, nth) == nth
\* The nth quote of a group belongs to the nth of its orders.
Place(q, nth) == q

\* fetch_order_quotes_batch: a quote, with or without a price, for each order.
QuoteBatch ==
    LET group == Increasing(Group)
    IN  /\ At("quote") /\ request.left # {}
        /\ \E priced \in SUBSET Group :
            LET quote == [nth \in DOMAIN group |->
                            IF group[nth] \in priced THEN Quoted(group[nth]) ELSE NoRatio]
                placed == [q \in {Place(group[nth], nth) : nth \in DOMAIN group} |->
                            quote[CHOOSE nth \in DOMAIN group : Place(group[nth], nth) = q]]
            IN  request' = [request EXCEPT !.left = @ \ Group,
                    !.quotes = [q \in DOMAIN @ |-> IF q \in DOMAIN placed THEN placed[q] ELSE @[q]],
                    !.refused = @ \cup {Quoted(q) : q \in Group \ priced}]
        /\ UNCHANGED <<orders, trades>>

\* The batch fails as a whole: its orders are quoted one by one.
QuoteBatchFails ==
    /\ At("quote") /\ request.left # {}
    /\ request' = [request EXCEPT !.pc = "fallback"]
    /\ UNCHANGED <<orders, trades>>

\* One of the concurrent get_order_quotes returns: a price, no price, or an error,
\* for which the handlers write "-" too.
QuoteOne(q) ==
    /\ At("fallback") /\ q \in Group
    /\ \E outcome \in {"price", "no price", "error"} :
        request' = [request EXCEPT !.left = @ \ {q},
                        !.quotes[q] = IF outcome = "price" THEN Quoted(q) ELSE NoRatio,
                        !.refused = IF outcome = "no price" THEN @ \cup {Quoted(q)} ELSE @,
                        !.unanswered = IF outcome = "error" THEN @ \cup {Quoted(q)} ELSE @,
                        !.pc = IF Group = {q} THEN "quote" ELSE @]
    /\ UNCHANGED <<orders, trades>>

\* Mutant: quotes go by their place among the quotes, not among the orders.
IoRatioUnmapped(i) == IF i \in DOMAIN request.quotes THEN request.quotes[i] ELSE NoRatio
\* io_ratios[quotable_indices[q]] = quote_results[q]
IoRatio(i) ==
    IF \E q \in DOMAIN request.quotable : request.quotable[q] = i
    THEN request.quotes[CHOOSE q \in DOMAIN request.quotable : request.quotable[q] = i]
    ELSE NoRatio

\* build_order_summary: one order without both an input and an output vault (none
\* is known to exist) fails the whole page.
AnswerList ==
    /\ At("quote") /\ request.left = {}
    /\ \/ request' = [request EXCEPT !.pc = "orders"]
       \/ request.found # <<>> /\ Fails
    /\ UNCHANGED <<orders, trades>>

-----------------------------------------------------------------------------
\* The listing of orders fails.
QueryFails ==
    /\ At("scan") \/ At("list")
    /\ Fails
    /\ UNCHANGED <<orders, trades>>

Respond ==
    /\ request.pc \in {"trades", "orders", "failed"}
    /\ request' = IdleRequest
    /\ UNCHANGED <<orders, trades>>

\* The indexer: a new order, wherever the library's order puts it; a trade.
Add(order, i) ==
    /\ order \notin ToSet(orders)
    /\ orders' = InsertAt(orders, i, order)
    /\ UNCHANGED <<trades, request>>
Trade(order) ==
    /\ Len(trades) < MaxTrades
    /\ trades' = Append(trades, order)
    /\ UNCHANGED <<orders, request>>

Init == orders = <<>> /\ trades = <<>> /\ request = IdleRequest

Moves ==
    \/ \E order \in Orders, i \in 1..(Len(orders) + 1) : Add(order, i)
    \/ \E order \in ToSet(orders) : Trade(order)

Begins == StartTrades \/ StartList

Serves ==
    \/ ScanPage \/ AnswerTrades \/ \E i \in request.left : LoadTrades(i)
    \/ \E page \in Pages, size \in Sizes : ReadList(page, size)
    \/ QuoteBatch \/ QuoteBatchFails \/ AnswerList
    \/ \E q \in request.left : QuoteOne(q)
    \/ QueryFails \/ Respond

Next == Moves \/ Begins \/ Serves

Spec == Init /\ [][Next]_vars

-----------------------------------------------------------------------------
Steps == {"idle", "scan", "load", "trades", "list", "quote", "fallback", "orders", "failed"}

\* Types; an answer has a result for everything that was asked.
TypeOK ==
    /\ orders \in Seq(Orders) /\ IsInjective(orders) /\ trades \in Seq(ToSet(orders))
    /\ request.pc \in Steps /\ request.failed \in BOOLEAN
    /\ {request.next, request.total, request.since} \subseteq Nat
    /\ request.found \in Seq(Orders) /\ request.known \subseteq Orders
    /\ request.refused \cup request.unanswered \subseteq Orders
    /\ request.loaded \in Seq(SUBSET DOMAIN trades) /\ request.all \in Seq(DOMAIN trades)
    /\ request.quotes \in Seq(Orders \cup {NoRatio, Pending})
    /\ At("orders") => Pending \notin ToSet(request.quotes)

\* The scan met its page limit before the end of the listing.
CutShort == request.total > (MaxPage - 1) * ScanPageSize

\* However many orders are added while the pages are read, and wherever: a scan that
\* is not cut short (which the code does without a word) has found every order that
\* was listed when it began.
ScanIsComplete == At("load") /\ ~CutShort => request.known \subseteq ToSet(request.found)

\* The answer has every trade that was indexed when the request came; one failed
\* order or page does not pass for an answer.
AnswerIsComplete == At("trades") /\ ~CutShort => 1..request.since \subseteq ToSet(request.all)

\* The pages of an answer, of any size, put together are the answer, newest first,
\* and has_more says of each whether there is a next one.
PagesMakeTheAnswer ==
    LET all   == request.all
        total == Len(all)
    IN  At("trades") =>
        /\ \A i, j \in DOMAIN all : i < j => all[i] >= all[j]
        /\ \A size \in Sizes \ {0} :
            /\ FlattenSeq([page \in 1..TotalPages(total, size) |-> Slice(all, page, size)]) = all
            /\ \A page \in Pages : HasMore(total, page, size) <=> Slice(all, page + 1, size) # <<>>

\* Every order of a list carries the ratio quoted for itself and never another's.  It
\* carries none ("-") if its vault is empty, if the library has no price for it, or if
\* the call made for it alone fails; a batch that fails, or another order's call,
\* takes the ratio from none.
RatiosAreOwn ==
    At("orders") => \A i \in DOMAIN request.found :
        LET order == request.found[i]
        IN  IoRatio(i) = IF order \in Funded \ (request.refused \cup request.unanswered) THEN order ELSE NoRatio
=============================================================================

# Albion REST API: TLA+ models and proofs

The service (`src/src`, Rust, Rocket, SQLite) is a REST front end to Raindex order
books. It authenticates clients with API keys, limits their rate, caches answers,
and can switch to another registry (the set of chains, tokens and order books it
serves) while it runs. This directory models those parts, checks the models with
TLC and proves theorems about every one of them with TLAPS.

Paths below are relative to the repository as mapped in `PROJECT.json`
(`src/src/...`); in the text `main.rs` stands for `src/src/main.rs`, and so on.

## 1. Inventory

| Component | State | Operations | Interacts with |
|---|---|---|---|
| Rate limiter (`fairings/rate_limiter.rs`) | a deque of admission times behind a mutex, and a map of such deques with a check counter behind another | `check_global`, `check_per_key`, the clean-up in every 1024th per-key check | called by the guards, on any worker thread |
| Request guards (`auth.rs`, `fairings/rate_limiter.rs`) | the request-local cache: `CachedRateLimitInfo`, `AuthKeyId` | `GlobalRateLimit`, `AuthenticatedKey`, `AdminKey` | limiter, table `api_keys` |
| Response fairings (`fairings/`) | rows of `usage_logs` | rate-limit headers, the spawned insert of the usage row, request log | request-local cache, database |
| Key management (`cli.rs`) | table `api_keys` | create, list, revoke, delete; a process of its own | the same database, while the service runs |
| Registry lifecycle (`main.rs`, `routes/admin.rs`, `raindex/config.rs`, `db/settings.rs`) | row `registry_url`, the config file, `RaindexProvider` behind a `tokio::sync::RwLock` | start-up, PUT /admin/registry, every handler's read guard, crash and restart (`os.nix`: `Restart = "always"`) | caches, database, all handlers |
| Response caches (`cache.rs`) | eight moka caches and the `CacheGroup` that clears them | `get_or_try_insert`, `get`, `insert`, expiry, `invalidate_all` | all reading handlers, PUT |
| Batch trades (`routes/trades.rs`, `direct_trades.rs`) | cache by order hash | POST /v1/trades/batch: look up, one SQL query for the misses, fallback to the library | the raindex database, which an indexer extends |
| Trades by transaction and taker (same files) | two caches | lookup in every order book, index check, the taker's transactions | order books indexed independently |
| Trades by address (`routes/trades.rs`) | cache | scan of all orders page by page, the trades of each, sorting, paging | the library's listing, which changes meanwhile |
| Orders by owner and token (`routes/orders/`) | caches | one page of orders, quotes per chain in a batch or one by one | the library, RPC nodes |
| Order detail and cancel (`routes/order`) | cache (detail) | look up by hash, quotes, trades, vaults; remove calldata and the summary of balances | the library's listing; registry guard |
| Swap quote and calldata (`routes/swap`) | cache (quote) | orders of the pair, candidates, a simulated purchase; one call for calldata, its result or error mapped | the library; registry guard |
| Error mapping and catchers (`error.rs`, `catchers.rs`) | none | a status for every `ApiError`, failed guard and failed parse; Retry-After | guards, handlers, usage log |
| Tokens, health, registry | none | read | registry guard |
| Deployments, orders by transaction | none | `todo!()` | registry guard |
| Configuration, pool, migrations, request log, telemetry, types | none of their own | | |

What makes them hard:

* worker threads that share the limiter's two mutexes; the time passes between them;
* guards, fairings, the spawned log task and the CLI process all read and write one
  request's or key's state at different moments;
* a writer-preferring lock held across network calls; caches that are filled by
  closures, some of which hold that lock and some of which take it inside;
* crashes between persisting a URL and installing a provider, and start-ups that
  cannot read what was persisted;
* answers put together from several library calls, each of which may fail, while the
  indexer moves on, and clients that page through lists that change meanwhile.

What makes each correct is in section 3, beside the runs. `PROJECT.json`
lists the hazards, each at its line, with the property that is aimed at it.

## 2. Modules

```
SlidingWindow      what one window promises            (abstract)
RateLimiter        the limiter; implements it
FairRwLock         tokio's RwLock as operators
AtomicRegistry     what PUT and the read guard promise    (abstract)
Registry           EXTENDS FairRwLock; implements it
CachedReads        EXTENDS Registry: registry + caches + handlers + PUT
RequestPipeline    guards, fairings, usage log, CLI, limiter as counts
TradesBatch        POST /v1/trades/batch
TradesByTx         GET /v1/trades/tx and /taker
OrderPages         GET /v1/trades/{address}, /v1/orders/owner, /v1/orders/token
SingleOrder        EXTENDS OrderPages: GET /v1/order/{hash}, POST /v1/order/cancel
SwapRoutes         EXTENDS OrderPages: POST /v1/swap/quote, /v1/swap/calldata
TakerPages         EXTENDS OrderPages: a client that pages through /v1/trades/taker
LibraryReads       the four together, over one changing listing
MC*                constants for TLC
*Proofs            the theorems about RateLimiter, Registry (with FairRwLock),
                   CachedReads (EXTENDS RegistryProofs), RequestPipeline,
                   TradesBatch, TradesByTx, LibraryReads (section 4)
NaturalFacts       least and greatest naturals, sums over finite sets, for the proofs
```

**RateLimiter.** A thread enters `check_global` or `check_per_key` (takes the mutex
and reads `Instant::now()` under it), and in a second step prunes, decides, records
and leaves; time may pass in between and other threads wait or work on the other
mutex. `Prune` is `prune_window`, `Swept` the `retain` of the clean-up, `Reset`
is `compute_reset` with both of its roundings to seconds. `log` variables are history.
A refused request is not recorded; an entry exactly one window old still counts;
a limit of 0 turns the scope off. The arms for a poisoned mutex are
not reachable (nothing panics under the mutex) and are left out.

**SlidingWindow** is the specification of one window: a log in which an admission is
allowed only if the limit-th most recent one is more than a window ago. RateLimiter
implements it once for the global window and once for each key
(`GlobalWindowSlides`, `KeyWindowsSlide`).

**FairRwLock** is external: tokio's documented fairness (first come, first served; a
waiting writer holds up later readers).

**Registry.** `BootFromDb` / `BootFromConfig` / `BootLoad` are the Serve arm of
`main`; `Exit` is a failed start-up or a crash at any step. PUT is cut where the code
awaits: copy `db_path` under the read guard, load, take the write guard,
`set_setting`, swap and drop the guard, invalidate and answer. Handlers hold the read
guard until they return; a `todo!()` handler unwinds and drops it too. The load runs
on a thread of its own and does not hold a guard.

**AtomicRegistry** is the specification of what is stored and served: a PUT replaces both
in one step, when no request is using the registry, and a request has one registry from
its beginning to its end. Registry implements it (`SwitchesAtomically`): `Serving` is the
provider, or the row between `PutSave` and `PutSwap`, when nobody can look and a crash
would leave the new URL to the next start-up; `Using` is the provider of who holds the
read guard. So a PUT takes effect where it writes the row.

**CachedReads** refines the handlers of Registry: those that hold the guard over
`get_or_try_insert` (`Outside`) and those whose fetch closure takes it
(`Inside`). Of the former, trades by taker (`Takers`) make two cache calls: their list
comes from the `DirectTradesFetcher`, which start-up binds to its registry and no PUT
replaces (`Source`), and the transactions of a page then go through the cache by
transaction like anybody else's (`TakerGoesOn`). One key of one cache of each kind is
enough, since keys are independent and `invalidate_all` clears everything. The content
of a fetch is the generation of the provider that it is about.

**RequestPipeline.** One action per guard of a request, in Rocket's order (guards
before path, query and body), then the parsing, the handler with its result or
`ApiError`, and the fairings. `Ends` is the way of a failure through its catcher, which
keeps the status; `ErrorStatus` is `ApiError::respond_to`. A malformed header is a 401,
or a 500 where `header[..6]` (auth.rs:60) cuts a character in two and panics. A key row can be revoked or
deleted at any of these steps. The limiter is a count per scope from which
admissions may slip out at any time, which RateLimiter's windows are instances of.
A usage row carries the status that the response left with.
`Restart` drops requests in progress, spawned tasks and the counts.

**TradesBatch.** The database is a sequence of events; `Query` is the meaning of
`build_batch_query`: a take, which has no order hash, goes to the latest addition with
its owner and nonce among the requested orders; a clear counts on both sides; an order
of another order book than the fetcher's (`AtHome`) has no rows; a row that cannot be
read (`Converted`) is left out. `Library` is the way for one order. The service starts with one of the
`Histories` in its database, which are `Possible`: nothing is taken before it is added.
`Insert` pairs results with the uncached hashes and `Entries` is the `remove` of the response.

**TradesByTx.** Two caches with shared fetches, the concurrent lookups in all order
books, the conversion of what they found (which may fail), then `check_tx_index_state`
one after the other; a taker resolves its transaction through the first cache. Each
order book's indexer reaches the transaction in its own time.

**OrderPages.** `ScanPage` is the body of `fetch_all_orders`' loop, while orders are
inserted anywhere in the library's listing; `LoadTrades` one answer of the `join_all`;
`Answer` sorts; `Slice` cuts. For lists, `QuoteBatch` answers one chain's batch,
`QuoteBatchFails` and `QuoteOne` (a price, none, or an error) are the fallback, `Place` and `IoRatio` the two index
maps between quotes and orders.

**SingleOrder** has one action per library call of `process_get_order` and
`process_cancel_order`, each of which may fail (`CallFails`); between any two of them
orders and trades are added. A hash may be listed twice (one order in two order books);
`Inputs` and `Outputs` are `resolve_io_vaults`, `TokensReturned` the loop of the cancellation's summary.

**SwapRoutes.** `ReadPair`, `BuildCandidates` and `Simulate` are the three calls of
`process_swap_quote`; the library may buy any amount up to the request's from each
candidate, so that full, partial and empty purchases occur. `Sayings` is what the library
may answer to a calldata request, which is about one chain (`ChainId`), and `StatusOf`
is `map_raindex_error`.

**TakerPages** is a client that follows `has_more` to the end, over a list that is
cached, expires and grows, before the first page or between two of them (`Index` is the
indexer, `cached` the list another request may have left in the cache). Requests share nothing but the listing and the caches
(CachedReads), so `LibraryReads` serves one of them at a time.

## 3. Runs

Passing runs (`PROJECT.json` has one mutant of the code for each property; TLC finds
the property violated in it).

| Run | Shows | Bounds |
|---|---|---|
| `limiter` | The limits hold over every window of time, globally and per key (`AdmissionsWithinLimit`); each window implements SlidingWindow across locks and clean-ups; a clean-up leaves no idle key (`SweepForgetsIdleKeys`); a verdict and its `remaining` are a function of the admissions (`VerdictMatchesHistory`); the reset time is never late and less than two seconds early (`ResetTracksOldest`) | 2 threads, 2 keys, limits 0 to 2, a window of 1 s at 2 ticks per second, 5 ticks, a clean-up each 3 checks: 665,000 states |
| `registry` | What is served is what is persisted whenever no writer is at work; an admin's URL survives crashes, and can be loaded, unless a start-up could not read it; a PUT is one atomic switch (AtomicRegistry); every PUT and handler is answered | 2 PUTs and 2 handlers, 2 loadable URLs and one that is not, crashes anywhere: 36,000 states |
| `cached_reads` | After a PUT's 200 no new request of a handler that keeps the guard and asks the provider under it sees the replaced registry; the cache of such requests is current unless a PUT is about to clear it (a taker's list is excepted from both); every request is answered, also one that waits for another's fetch under the guard while a writer queues | 2 PUTs, a handler that keeps the guard, one by taker, one whose fetch takes the guard; the config file stays as it is, and start-ups that cannot save their URL are left to `registry` (a state constraint): 335,000 states |
| `pipeline` | A handler's route is reached only with the right secret of a key that was active when the request arrived; a key's window holds only its own requests, also after a deletion; headers are the key's own, and a client told to come back later is told the limit that refused it; usage rows are complete and carry the status sent | 2 keys (one admin), 2 requests, limits of 1, handlers that succeed or are "not yet indexed", bodies that do not parse: 3.3 million states |
| `trades_batch` | The SQL query finds exactly an order's trades, whatever else is in the batch; the cache holds only true answers of its own hash; so do responses, and what was just read is true now; unreadable rows cost nothing but themselves | 2 orders, one of them taken before the start and both there, one event more, 2 requests of up to 2 hashes, takes readable or not: 2.9 million states |
| `trades_by_tx` | An answer has all trades indexed when its fetch began; 404 and 202 are never said of trades known then; both also for joiners and hits | 2 order books, 2 requests: 252,000 states |
| `library_reads` | The scan finds every order listed when it began, however the pages shift; the answer has every trade indexed when the request came; its pages, of every size, add up to it in order and `has_more` is right; every list entry carries its own quote, whichever batches fail, and none only if its vault is empty, the library has no price, or its own call fails. The parts of an order's detail are of one order, and none that was there is missing; a cancellation's summary has every vault that holds something; a quote is covered by orders of its pair and its ratio is that of its amounts, also when it falls short; no failed call of a detail, a cancellation or a quote passes for "not found", "no liquidity" or a shorter answer; a client that pages through a taker's transactions to the end has been offered all of its first list | 4 orders on 2 chains, two of them with one hash, vaults of every kind, 2 trades, scan pages of 1, at most 3 of them, quotes over pages of 2, amounts 1 and 4, a taker with up to 4 transactions, whose pages are read while the listing, which they do not use, is empty (a state constraint): 1.8 million states |

The bounds are the least at which the cases meet: two threads for one slot, two keys
for the clean-up to remove one and keep one, a time span of two windows;
two PUTs that overtake each other, two handlers of which one joins the
other's fetch; a key deleted and another created; an order taken before, and one
taken, cleared or added while a batch is at work (from an empty database 3 events were run
too, 9.3 million states, which takes longer than a run should); an order book that is ahead of the other; two orders with one hash; a purchase
that is full, partial or empty. With a scan page of 1 and 4 orders,
an insertion shifts a whole page and the page limit is reached; pages of 2 were
run too. With 4 transactions a taker's list of 2 grows by one or two between its first
page and its second, which then repeats one, and a third page follows.

Runs that end in a violation: the code does not do what a message, a comment or
its own intent says (`findings` in `PROJECT.json` quote the lines).

| Run | What TLC finds |
|---|---|
| `registry_startup` | `get_setting(...).ok().flatten()`: a start-up that cannot read the settings table overwrites the admin's URL with the config file's |
| `cached_stale` | order detail and swap quote drop the guard before the cache inserts: a fetch under way during a PUT refills the cleared cache with the old registry's answer |
| `trades_batch_repeated` | a hash given twice in a batch has its trades the first time and none the second |
| `trades_batch_abroad` | the direct query is bound to the first order book of the registry: an order of another one has no trades in a batch, and the empty list is cached, though the library would find them |
| `trades_by_tx_race` | a transaction indexed between the lookup and the index check gets the definite 404 |

Observations without a run of their own:

* With `rate_limit_per_key_rpm = 0` the headers of authenticated responses are those of
  the global limit (`HeadersAreOwn` fails with `KeyLimit = 0`;
  `docs/src/rate-limiting.md:16` promises the key's).
* After a PUT a taker's list is still that of the registry the service started with
  (`OutsideFresh` without its `KindOf` fails): the fetcher's order book is the cause
  there as in `trades_batch_abroad`.
* A quote is made from the orders of all chains, calldata for `CHAIN_ID` only: a pair can
  have a quote and no calldata. Calldata say "no liquidity found for this pair" also when
  its orders have too little, and 400 also for the library's own Float and preflight
  errors (`swap/mod.rs:140-163`), so `SwapErrorsAreHonest` asks that only of quotes.
* A listed order's ratio is "-" also if the call made for it alone fails; the client cannot
  tell that from an empty vault.
* Two orders with one owner and nonce: whose a take is depends on which hashes are
  requested together. `BatchingIsTransparent` fails also with all orders `AtHome` and
  `Slot <- MCSlotReused` (without symmetry of the hashes).
* The scan reads an order twice, and so reports its trades twice, if the library lists
  new orders before old ones; the repository does not say which order that is.
* A quote is made from one page of the library's own size, and may be for less than
  `output_amount`; only `estimated_output` tells. The amount is parsed after the
  liquidity is found, so that a bad amount for a pair without orders is a 404.
* `docs/src/orders.md` shows a cancellation of several transactions, withdrawals
  included; the code returns one, the removal. A vault that is input and output is
  counted twice in its summary (`SummaryIsComplete` makes an exception for it).
* `docs/src/errors.md` gives 400 for a body that lacks a field; Rocket gives 422. Its
  413 has no catcher and gets Rocket's default page.

**Fairness.** `registry` and `cached_reads` use fairness: weak fairness of each PUT's
next step and of each handler's (in `registry` that is its end, in `cached_reads` every
step of its cache call). It is what the code gives: an admitted task is polled until
it completes, `rx.await` ends because the loading thread sends or drops its sender,
`set_setting` and library calls end with a result or an error, and tokio's lock is
fair. Nothing is assumed of crashes, new requests, edits or start-ups, so that
`PutAnswered` also covers a PUT that a crash ends.

**Deadlock** is checked in every run. Model-value sets are declared symmetric where
no definition tells their members apart, and never in a run with liveness. `limiter`
has a VIEW without the last verdict, which no guard reads.

## 4. Proofs

A run shows a property on a small instance; a theorem shows it for all threads, keys,
orders, requests, limits, page sizes, histories and bounds. Every safety invariant, type
invariant and refinement of the passing runs has one.

| Module | Theorem | Statement |
|---|---|---|
| `RateLimiterProofs` | `TypeCorrect` | `Spec => []TypeOK` |
| | `LimitHolds` | `Spec => []AdmissionsWithinLimit` |
| | `SweepForgets` | `Spec => []SweepForgetsIdleKeys` |
| | `GlobalImplements`, `KeysImplement` | `Spec => GlobalWindowSlides`, `Spec => KeyWindowsSlide`: refinements of SlidingWindow |
| | `VerdictsHold` | `Spec => VerdictMatchesHistory` |
| | `ResetIsTheOldests` | `Spec => ResetTracksOldest` |
| `RegistryProofs` | `TypeCorrect` | `Spec => []TypeOK`, with the lock's exclusion |
| | `ServesWhatIsPersisted` | `Spec => []ServedIsPersisted` |
| | `PutSurvives` | `Spec => []PutSurvivesRestarts` |
| | `SwitchIsAtomic` | `Spec => SwitchesAtomically`: refinement of AtomicRegistry |
| `CachedReadsProofs` | `RegistryIsKept` | `CachedSpec => Spec`: the caches refine Registry, whose theorems hold for them |
| | `CachedTypeCorrect` | `CachedSpec => []CachedTypeOK`, with one leader per fetch |
| | `GuardedReadsAreFresh` | `CachedSpec => []OutsideFresh` |
| | `GuardedCachesAreCurrent` | `CachedSpec => []OutsideCacheCurrent` |
| `RequestPipelineProofs` | `TypeCorrect` | `Spec => []TypeOK` |
| | `OnlyTheEntitledRun` | `Spec => []OnlyEntitledRequestsRun` |
| | `NobodyElseFillsAWindow` | `Spec => []WindowsAreOwn` |
| | `HeadersTellTheRightLimit` | `KeyLimit > 0`: `Spec => []HeadersAreOwn` |
| | `UsageIsLoggedOnce` | `Spec => []UsageIsComplete` |
| `TradesBatchProofs` | `TypeCorrect` | `Spec => []TypeOK` |
| | `QueriesAreExact` | `OwnNonces`: `Spec => []QueryIsExact` |
| | `CachesAreTrue` | `OwnNonces`: `Spec => []CacheIsTrue` |
| | `BatchesAreTrue` | `OwnNonces`: `Spec => []ResponsesAreTrue` |
| `TradesByTxProofs` | `TypeCorrect` | `Spec => []TypeOK` |
| | `AnswersAreWhole` | `Spec => []AnswersCover` |
| | `DenialsAreTrue` | `Spec => []DenialsAreHonest` |
| `LibraryReadsProofs` | `TypeCorrect` | `ReadsSpec => []ReadsTypeOK` |
| | `ScansAreComplete` | `ReadsSpec => []ScanIsComplete` |
| | `AnswersAreComplete` | `ReadsSpec => []AnswerIsComplete` |
| | `PagesAreTheAnswer` | `ReadsSpec => []PagesMakeTheAnswer` |
| | `OrdersHaveTheirRatios` | `ReadsSpec => []RatiosAreOwn` |
| | `DetailsAreOwn` | `ReadsSpec => []DetailIsOwn` |
| | `SummariesAreComplete` | `ReadsSpec => []SummaryIsComplete` |
| | `OrderErrorsAreTrue` | `ReadsSpec => []OrderErrorsAreHonest` |
| | `QuotesAreCovered` | `ReadsSpec => []QuoteIsCovered` |
| | `SwapErrorsAreTrue` | `ReadsSpec => []SwapErrorsAreHonest` |
| | `PagesLeapOverNothing` | `ReadsSpec => []PagingMissesNothing` |

**Assumptions.** The modules' named assumptions on their constants: the window has a
length, limits and bounds are naturals, page sizes are positive, the values that stand
for "none" or "failed" are none of the proper ones, key names are finite in number,
a registry that loads has a URL, the histories are possible. Two more are stated in the
theorems that need them. `OwnNonces` (no owner gives two orders one nonce) is what
the query takes for granted: without it, whose a take is depends on the hashes that are
requested together (section 3).
`KeyLimit > 0` excludes the scope that is turned off, whose headers are the global
limit's (section 3).

**RateLimiter.** The deque alone does not show a bound on a window of time: entries are
gone from it, by pruning or by the clean-up. The inductive invariant `IInv` therefore
relates each deque to the history of admissions: it is a suffix of it; all that is cut
off has expired for every `Instant` a later check can read; the history is sorted
(`Tracks`); and any limit + 1 consecutive admissions span more than a window
(`Spaced`). That history is sorted is where the mutex enters: the `Instant` is
read under it, so the instant of the check inside, or else the clock (`Stamp`),
never goes back (`StampsGrow`). `NextIInv` has one lemma per action. `LimitHolds` follows
from `Spaced`, the refinements from `Spaced` and `Tracks` together, the verdicts from
`LiveCount`: what is left after pruning is exactly what counts. For the reset, `FrontIsOldest`:
the front of a pruned deque is the oldest admission that counts, and `RoundedTwice`: two
terms rounded down to seconds are less than two seconds short of their sum. It also needs
that a check under way has a limit (`LimitsOn`), since with a limit of 0 the deque would be empty.

**Registry.** First the lock: granting keeps readers and the writer apart, has nobody in it
twice (`NoneTwice`) and leaves nobody waiting who could be granted (`Granted`). `IInv` adds
what the PUT between its two writes knows (`PutsKnown`: the row has its URL already), that
nothing but such a PUT or a start that could not save makes provider and row differ
(`Matches`), and which URL a start-up goes by (`StartsFromRow`). `SwitchIsAtomic` maps each
step to a step of AtomicRegistry or a stutter; the step that counts is `PutSave`, and
exclusion is what shows that no reader is in the middle of a request then.

**CachedReads.** `RegistryIsKept` gives Registry's invariant. The rest of `CInv` is the
reason why a guard kept over the cache call keeps stale answers out (`OutsideHolds`): such a
request, unless it is at its taker's list, reads under the lock from its look-up to its answer, its leader fetched from the
provider that is still in use, and no PUT can install another before it is done. So an
entry is of the last acknowledged generation or a later one (`EntryIsRecent`).

**RequestPipeline.** `IInv` follows a request from guard to guard (`RequestOK`): what the row
it was given says of its key, and that a key that was not active when the request arrived
never is again, since the CLI has no way to activate one and ids are not reused. For the windows the
count itself is not inductive; the invariant counts the requests between `Verify` and
`KeyCheck` too (`WindowsOK`), so that proofs and uses of a key balance while several of its
requests are on their way. `UsageOK` says that what is not lost in a restart is a row or a
spawned insert, and never both.

**TradesBatch.** The query first: over a possible history, and with own nonces, the latest
addition with a take's owner and nonce is one of its order, so what is found for an order are its
trades. `IInv` then follows an answer from the query through `results`, `map` and the cache: each is
true at some time (`TrueIn`), and true now for the hashes whose every entry was read since the
last event (`Since`); `Remaining` keeps the results paired with the uncached hashes.

**TradesByTx.** `IInv` says what each step has established of the order books it is done with
(`RequestOK`), in terms of what was indexed when its fetch began: first that their trades are found,
or that one failed; then, in the index check, that they do not know the transaction.

**LibraryReads.** `ReadsInv` has one part per route. The scan: an order that was listed when the request
came is found, or it is listed behind the pages read; insertions only move it back
(`Scanning`), so it is found when nothing is behind. Then every call that has
returned has brought what its order had (`Loading`). For lists, `Quoting` says that the indices in
`quotable` are, once each, the funded orders, so that whatever batches fail the quote at a place is that of the
order there, unless it was refused or its own call failed. `TakerOK` counts from the end: transaction t of a list of n is at place n + 1 - t, and no
list is shorter than the one before, so growth moves it to later places, never to a page that has been read. That the pages of an
answer add up to it (`PagesAreTheAnswer`) needs no induction either: the place of an
element on its page is known from its place in the answer. A quote is a purchase within the amount
from listed orders of the pair (`QuoteOK`, carried from the query through the candidates to
the answer); its bounds are then facts about sums. A sum is a fold of the community modules, a
recursive function of the subsets: NaturalFacts shows that there is such a function and only one,
takes any term out of a sum, and compares and scales sums, each by a least counterexample,
the smallest size of a subset for which the fact failed.

Model-checked only:

* Liveness under fairness: `PutAnswered`, `HandlerAnswered`, `ReadsAnswered`.
* The five violations of section 3, which are counterexamples.

## 5. Assumptions about what is not in `src/src`

* moka's `try_get_with`: concurrent misses of a key share one fetch and its value or
  error; only values are kept; `invalidate_all` does not stop a fetch under way.
* SQLite: each statement is atomic and durable; AUTOINCREMENT ids are never reused;
  foreign keys are enforced (`db/pool.rs`).
* The raindex library: a page and its total count come from one state of the listing;
  its pages are cut as the handlers cut theirs; a batch of quotes has one entry per
  order; a transaction is found by an order book that has indexed it and that it
  touches, and times out otherwise; of a taker's transactions with one timestamp the order
stays the same (`ORDER BY ts DESC` does not say), and none is taken back by a reorganisation; for one order it answers as the batch query does
  for that order alone. The orders it lists for a pair are of that pair; a simulated
  purchase buys at most the amount asked for, and of each candidate at most what it has.

## 6. Not modelled

* The handlers that are `todo!()` (deployments, orders by transaction): there is
  nothing to model but their hold on the read guard, which Registry's handlers have.
* The request log, telemetry and the echo of `X-Request-Id`; the bodies of errors.
* Serialisation and validation of addresses and hashes; the arithmetic of totals,
  amounts and ratios (a library's Float; that it may fail is modelled).
* Time filters; the pool and the migrations as such; `keys list`.
* `neutralize_metaboards`, a rewrite of the registry's text before it is loaded.
* A detail or a quote that is served from its cache: CachedReads has the caches, and
  SingleOrder and SwapRoutes what a miss computes.
* Infrastructure and CI.

## 7. Plan

Order of work: what everybody passes through (limiter, pipeline), what changes under
everybody's feet (registry, caches), then the answers. All of that is modelled and, as far
as section 4 goes, proved. Next:

1. One more abstract specification: an exact cache-less service, which CachedReads
   implements for the guarded handlers, and the proof that it does.
2. What the five violations would need to hold: the same properties proved under the condition that
   is missing (for instance `DenialsAreHonest` of trades known at the answer, if the index check came first).
3. Composition of Registry and TradesBatch, so that a PUT, not a constant, makes the
   fetcher's order book a foreign one.
4. An order book that lags in TradesByTx: partial answers that are cached for 300 s.

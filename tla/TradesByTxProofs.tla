-------------------------- MODULE TradesByTxProofs --------------------------
(***************************************************************************)
(* Proofs about TradesByTx, for any orderbooks and requests.               *)
(*                                                                         *)
(* IInv says what each step of a lookup has established about the          *)
(* orderbooks it is done with, in terms of what was indexed when its fetch *)
(* began.  The definitions take the indexed orderbooks as a parameter      *)
(* (`seen`): all the indexers ever do is add to them.                      *)
(***************************************************************************)
EXTENDS TradesByTx, FiniteSetTheorems, TLAPS

Records ==
    [pc : Fetching \cup {"idle", "lookup", "join", "reply"}, kind : {"tx", "taker"},
     key : Keys, left : SUBSET Orderbooks, found : SUBSET Orderbooks, failed : BOOLEAN,
     began : SUBSET Orderbooks, reply : Outcomes \cup {Empty}]

DataOK ==
    /\ trades \subseteq touched /\ touched \subseteq Orderbooks /\ indexed \subseteq Orderbooks
    /\ cache \in [Keys -> Outcomes \cup {Empty}]
    /\ request \in [Requests -> Records]

LeadersOK ==
    \A key \in Keys : /\ \A r, q \in Leaders(key) : r = q
                      /\ Joiners(key) # {} => Leaders(key) # {}

\* An answer with trades has those one may count on, and no others.
CoversBy(seen, outcome) ==
    /\ outcome.trades # {} /\ outcome.trades \subseteq trades \cap seen
    /\ trades \cap outcome.began \subseteq outcome.trades

\* The outcome of a lookup of the transaction.
OutcomeOK(seen, outcome) ==
    /\ outcome.status = "200" => CoversBy(seen, outcome)
    /\ outcome.status \in {"202", "404"} => trades \cap outcome.began = {}
    /\ outcome.status = "202" => touched \cap outcome.began = {}
    /\ outcome.status = "404" => touched \cap seen # {}

\* How far a request has come: of the orderbooks it need not ask again, it has the
\* trades, unless one failed; and then that they do not know the transaction.
RequestOK(seen, b) ==
    /\ b.key = "list" \/ b.pc \in {"lookup", "join"} => b.found = {}
    /\ b.pc = "query" => b.key = "list"
    /\ b.pc \in {"trades", "check"} => b.key = "tx" /\ b.began \subseteq seen
    /\ b.pc = "trades" =>
        /\ b.found \subseteq trades \cap seen
        /\ ~b.failed => (Orderbooks \ b.left) \cap trades \cap b.began \subseteq b.found
    /\ b.pc = "check" =>
        /\ trades \cap b.began = {}
        /\ (Orderbooks \ b.left) \cap touched \cap b.began = {}
    /\ b.pc = "reply" /\ b.key = "tx" => OutcomeOK(seen, b.reply)

CacheOK(seen, c) ==
    /\ \A key \in Keys : c[key] # Empty => c[key].status = "200"
    /\ c["tx"] # Empty => CoversBy(seen, c["tx"])

IInv ==
    /\ DataOK /\ LeadersOK /\ CacheOK(indexed, cache)
    /\ \A r \in Requests : RequestOK(indexed, request[r])

-----------------------------------------------------------------------------
USE OrderbooksAssumption

LEMMA CardinalityOne ==
  ASSUME NEW S, \A x, y \in S : x = y
  PROVE  Cardinality(S) <= 1
<1>1. CASE S = {}
  BY <1>1, FS_EmptySet
<1>2. CASE S # {}
  <2>1. PICK x \in S : TRUE
    BY <1>2
  <2>2. S = {x}
    BY <2>1
  <2>. QED  BY <2>2, FS_Singleton
<1>. QED  BY <1>1, <1>2

LEMMA OutcomeFacts ==
  ASSUME NEW status \in {"200", "202", "404", "500"}, NEW found \in SUBSET Orderbooks,
         NEW began \in SUBSET Orderbooks
  PROVE  LET o == Outcome(status, found, began)
         IN  o \in Outcomes /\ o.status = status /\ o.trades = found /\ o.began = began
BY DEF Outcome, Outcomes

LEMMA RecordFacts ==
  ASSUME NEW b \in Records
  PROVE  /\ b.pc \in Fetching \cup {"idle", "lookup", "join", "reply"}
         /\ b.kind \in {"tx", "taker"} /\ b.key \in {"tx", "list"}
         /\ b.left \subseteq Orderbooks /\ b.found \subseteq Orderbooks /\ b.failed \in BOOLEAN
         /\ b.began \subseteq Orderbooks /\ b.reply \in Outcomes \cup {Empty}
BY DEF Records, Keys

\* The indexers only add.
LEMMA MoreIsIndexed ==
  ASSUME NEW seen, NEW more, seen \subseteq more
  PROVE  /\ \A o : CoversBy(seen, o) => CoversBy(more, o)
         /\ \A o : OutcomeOK(seen, o) => OutcomeOK(more, o)
         /\ \A b : RequestOK(seen, b) => RequestOK(more, b)
         /\ \A c : CacheOK(seen, c) => CacheOK(more, c)
<1>1. \A o : CoversBy(seen, o) => CoversBy(more, o)
  BY DEF CoversBy
<1>2. \A o : OutcomeOK(seen, o) => OutcomeOK(more, o)
  BY <1>1 DEF OutcomeOK
<1>3. ASSUME NEW b, RequestOK(seen, b)  PROVE RequestOK(more, b)
  BY <1>2, <1>3 DEF RequestOK
<1>4. \A c : CacheOK(seen, c) => CacheOK(more, c)
  BY <1>1 DEF CacheOK
<1>. QED  BY <1>1, <1>2, <1>3, <1>4

\* The parts of IInv after a step that leaves the chain alone.
LEMMA Assemble ==
  ASSUME DataOK, UNCHANGED chain, indexed' \subseteq Orderbooks,
         cache' \in [Keys -> Outcomes \cup {Empty}], request' \in [Requests -> Records],
         LeadersOK', CacheOK(indexed', cache'),
         \A r \in Requests : RequestOK(indexed', request'[r])
  PROVE  IInv'
<1>1. trades' = trades /\ touched' = touched
  BY DEF chain
<1>2. DataOK'
  BY <1>1 DEF DataOK
<1>3. CacheOK(indexed, cache)'
  BY <1>1 DEF CacheOK, CoversBy
<1>4. (\A r \in Requests : RequestOK(indexed, request[r]))'
  BY <1>1 DEF RequestOK, OutcomeOK, CoversBy
<1>. QED  BY <1>2, <1>3, <1>4 DEF IInv

LEMMA InitIInv == Init => IInv
<1> SUFFICES ASSUME Init PROVE IInv
  OBVIOUS
<1>1. IdleRequest \in Records /\ IdleRequest.pc = "idle" /\ IdleRequest.found = {}
  BY DEF IdleRequest, Records, Keys
<1>2. DataOK
  BY <1>1 DEF Init, DataOK
<1>3. \A r \in Requests : request[r].pc = "idle" /\ request[r].found = {}
  BY <1>1 DEF Init
<1>4. LeadersOK
  BY <1>3 DEF LeadersOK, Leaders, Joiners, Fetching
<1>5. CacheOK(indexed, cache)
  BY DEF Init, CacheOK, Keys
<1>6. \A r \in Requests : RequestOK(indexed, request[r])
  BY <1>3 DEF RequestOK
<1>. QED  BY <1>2, <1>4, <1>5, <1>6 DEF IInv

-----------------------------------------------------------------------------
\* One request moves on by itself: it leads as before, or takes the lead where
\* nobody has it, or joins who leads.
LEMMA OneMoves ==
  ASSUME IInv, UNCHANGED <<chain, indexed, cache>>, NEW r \in Requests, NEW b \in Records,
         request' = [request EXCEPT ![r] = b], RequestOK(indexed, b),
         request[r].pc \in Fetching => b.pc \in Fetching /\ b.key = request[r].key,
         b.pc \in Fetching /\ request[r].pc \notin Fetching => Leaders(b.key) = {},
         b.pc = "join" => Leaders(b.key) # {}
  PROVE  IInv'
<1>1. DataOK /\ LeadersOK /\ CacheOK(indexed, cache) /\ indexed' = indexed /\ cache' = cache
  BY DEF IInv
<1>2. /\ request' \in [Requests -> Records] /\ request'[r] = b
      /\ \A q \in Requests : q # r => request'[q] = request[q]
  BY <1>1 DEF DataOK
<1>3. \A q \in Requests : RequestOK(indexed, request'[q])
  BY <1>2 DEF IInv
<1>4. ASSUME NEW key \in Keys  PROVE Leaders(key)' = Leaders(key) \/
             (Leaders(key) = {} /\ Leaders(key)' = {r})
  <2>1. \A q : q # r => (q \in Leaders(key)' <=> q \in Leaders(key))
    BY <1>2 DEF Leaders
  <2>2. r \in Leaders(key)' <=> b.key = key /\ b.pc \in Fetching
    BY <1>2 DEF Leaders
  <2>3. r \in Leaders(key) <=> request[r].key = key /\ request[r].pc \in Fetching
    BY DEF Leaders
  <2>. QED  BY <2>1, <2>2, <2>3
<1>5. ASSUME NEW key \in Keys, Joiners(key)' # {}  PROVE Leaders(key)' # {}
  <2>1. PICK q \in Requests : request'[q].key = key /\ request'[q].pc = "join"
    BY <1>5 DEF Joiners
  <2>2. CASE q = r
    BY <1>2, <1>4, <2>1, <2>2
  <2>3. CASE q # r
    <3>1. q \in Joiners(key)
      BY <1>2, <2>1, <2>3 DEF Joiners
    <3>. QED  BY <1>1, <1>4, <3>1 DEF LeadersOK
  <2>. QED  BY <2>2, <2>3
<1>6. LeadersOK'
  <2>1. \A key \in Keys : \A p, q \in Leaders(key)' : p = q
    BY <1>1, <1>4 DEF LeadersOK
  <2>. QED  BY <1>5, <2>1 DEF LeadersOK
<1>. QED  BY <1>1, <1>2, <1>3, <1>6, Assemble DEF DataOK

\* Whoever receives an outcome does so once, and is done or goes on to the lookup.
LEMMA ReceivedFacts ==
  ASSUME NEW r \in Requests, request[r] \in Records, RequestOK(indexed, request[r]),
         NEW o \in Outcomes,
         request[r].key = "tx" => OutcomeOK(indexed, o)
  PROVE  /\ Received(r, o) \in Records /\ RequestOK(indexed, Received(r, o))
         /\ Received(r, o).pc \in {"lookup", "reply"}
<1> DEFINE b == request[r]  c == Received(r, o)
<1>0. b.key = "list" => b.found = {}
  BY DEF RequestOK
<1>1. CASE b.key = "list" /\ o.status = "200" /\ o.trades # {}
  <2>1. c = [b EXCEPT !.pc = "lookup", !.key = "tx"]
    BY <1>1 DEF Received
  <2>2. c \in Records /\ c.pc = "lookup" /\ c.found = {}
    BY <1>0, <1>1, <2>1 DEF Records, Keys
  <2>. QED  BY <2>2 DEF RequestOK
<1>2. CASE ~(b.key = "list" /\ o.status = "200" /\ o.trades # {})
  <2>1. c = [b EXCEPT !.pc = "reply", !.reply = o]
    BY <1>2 DEF Received
  <2>2. c \in Records /\ c.pc = "reply" /\ c.key = b.key /\ c.reply = o /\ c.found = b.found
    BY <2>1 DEF Records
  <2>. QED  BY <1>0, <2>2 DEF RequestOK
<1>. QED  BY <1>1, <1>2

\* A fetch ends for its leader and its joiners at once.
LEMMA FinishKeeps ==
  ASSUME IInv, NEW r \in Requests, request[r].pc \in Fetching,
         NEW status \in {"200", "202", "404", "500"}, NEW found \in SUBSET Orderbooks,
         request[r].key = "tx" => OutcomeOK(indexed, Outcome(status, found, request[r].began)),
         Finish(r, status, found), UNCHANGED <<chain, indexed>>
  PROVE  IInv'
<1> DEFINE key == request[r].key
           o   == Outcome(status, found, request[r].began)
           receivers == {r} \cup Joiners(key)
<1>1. DataOK /\ LeadersOK /\ CacheOK(indexed, cache) /\ indexed' = indexed
  BY DEF IInv
<1>2. request[r] \in Records /\ key \in Keys /\ request[r].began \in SUBSET Orderbooks
  BY <1>1, RecordFacts DEF DataOK, Keys
<1>3. o \in Outcomes /\ o.status = status /\ o.trades = found
  BY <1>2, OutcomeFacts
<1>4. /\ request' = [q \in Requests |-> IF q \in receivers THEN Received(q, o) ELSE request[q]]
      /\ cache' = IF status = "200" THEN [cache EXCEPT ![key] = o] ELSE cache
  BY <1>3 DEF Finish, Caches
<1>5. key = "tx" => OutcomeOK(indexed, o)
  OBVIOUS
<1> HIDE DEF o
<1>6. ASSUME NEW q \in receivers
      PROVE  /\ q \in Requests /\ Received(q, o) \in Records /\ RequestOK(indexed, Received(q, o))
             /\ Received(q, o).pc \in {"lookup", "reply"}
  <2>1. /\ q \in Requests /\ request[q].key = key /\ request[q] \in Records
        /\ RequestOK(indexed, request[q])
    BY <1>1, <1>6 DEF Joiners, DataOK, IInv
  <2>. QED  BY <1>3, <1>5, <2>1, ReceivedFacts
<1>7. /\ request' \in [Requests -> Records]
      /\ \A q \in Requests : RequestOK(indexed, request'[q])
      /\ \A q \in Requests : \/ q \in receivers /\ request'[q].pc \in {"lookup", "reply"}
                             \/ q \notin receivers /\ request'[q] = request[q]
  <2>. HIDE DEF receivers
  <2>. QED  BY <1>1, <1>4, <1>6 DEF IInv, DataOK
<1>8. ASSUME NEW k \in Keys
      PROVE  /\ Leaders(k)' = IF k = key THEN {} ELSE Leaders(k)
             /\ Joiners(k)' = IF k = key THEN {} ELSE Joiners(k)
  <2>1. \A q \in Leaders(key) : q = r
    BY <1>1, <1>2 DEF LeadersOK, Leaders
  <2>2. \A q \in receivers : request[q].key = key
    BY DEF Joiners
  <2>3. \A q \in Leaders(k)' : q \in Requests /\ q \notin receivers /\ request'[q] = request[q]
    BY <1>7 DEF Leaders, Fetching
  <2>4. \A q \in Joiners(k)' : q \in Requests /\ q \notin receivers /\ request'[q] = request[q]
    BY <1>7 DEF Joiners
  <2>5. Leaders(k)' = IF k = key THEN {} ELSE Leaders(k)
    <3>. HIDE DEF key
    <3>1. CASE k = key
      BY <2>1, <2>3, <3>1 DEF Leaders
    <3>2. CASE k # key
      <4>1. \A q \in Leaders(k) : q \in Requests /\ request'[q] = request[q]
        BY <1>7, <2>2, <3>2 DEF Leaders
      <4>. QED  BY <2>3, <3>2, <4>1 DEF Leaders
    <3>. QED  BY <3>1, <3>2
  <2>6. Joiners(k)' = IF k = key THEN {} ELSE Joiners(k)
    <3>1. CASE k = key
      BY <2>4, <3>1 DEF Joiners
    <3>2. CASE k # key
      <4>1. \A q \in Joiners(k) : q \in Requests /\ request'[q] = request[q]
        BY <1>7, <2>2, <3>2 DEF Joiners
      <4>. QED  BY <2>4, <3>2, <4>1 DEF Joiners
    <3>. QED  BY <3>1, <3>2
  <2>. QED  BY <2>5, <2>6
<1>9. LeadersOK'
  BY <1>1, <1>8 DEF LeadersOK
<1>10. CacheOK(indexed, cache') /\ cache' \in [Keys -> Outcomes \cup {Empty}]
  <2>1. status = "200" /\ key = "tx" => CoversBy(indexed, o)
    BY <1>3, <1>5 DEF OutcomeOK
  <2>. QED  BY <1>1, <1>2, <1>3, <1>4, <2>1 DEF CacheOK, DataOK, Keys
<1>. QED  BY <1>1, <1>7, <1>9, <1>10, Assemble DEF DataOK

-----------------------------------------------------------------------------
\* The steps.

LEMMA RequestParts ==
  ASSUME IInv, NEW r \in Requests
  PROVE  request[r] \in Records /\ RequestOK(indexed, request[r]) /\ indexed \subseteq Orderbooks
BY DEF IInv, DataOK

LEMMA StartKeeps == ASSUME IInv, NEW r \in Requests, NEW kind \in {"tx", "taker"}, Start(r, kind)
  PROVE IInv'
<1> DEFINE b == IF kind = "taker" /\ home = NoFetcher
                THEN [IdleRequest EXCEPT !.pc = "reply", !.kind = kind, !.key = "list",
                                         !.reply = Outcome("200", {}, {})]
                ELSE [IdleRequest EXCEPT !.pc = "lookup", !.kind = kind,
                                         !.key = IF kind = "taker" THEN "list" ELSE "tx"]
<1>1. Outcome("200", {}, {}) \in Outcomes
  BY OutcomeFacts
<1>2. b \in Records /\ b.found = {} /\ (b.pc = "lookup" \/ (b.pc = "reply" /\ b.key = "list"))
  BY <1>1 DEF IdleRequest, Records, Keys
<1>3. /\ request[r].pc = "idle" /\ request' = [request EXCEPT ![r] = b]
      /\ UNCHANGED <<chain, indexed, cache>>
  BY DEF Start, At
<1> HIDE DEF b
<1>4. RequestOK(indexed, b) /\ b.pc \notin Fetching \cup {"join"} /\ request[r].pc \notin Fetching
  BY <1>2, <1>3 DEF RequestOK, Fetching
<1>. QED  BY <1>2, <1>3, <1>4, OneMoves

LEMMA LookupKeeps == ASSUME IInv, NEW r \in Requests, Lookup(r) PROVE IInv'
<1> DEFINE key == request[r].key
<1>1. /\ request[r].pc = "lookup" /\ UNCHANGED <<chain, indexed, cache>>
      /\ request[r] \in Records /\ key \in Keys /\ indexed \subseteq Orderbooks
      /\ request[r].pc \notin Fetching /\ request[r].found = {} /\ RequestOK(indexed, request[r])
  BY RequestParts, RecordFacts DEF Lookup, At, Keys, Fetching, RequestOK
<1>2. CASE cache[key] # Empty
  <2> DEFINE b == Received(r, cache[key])
  <2>1. request' = [request EXCEPT ![r] = b]
    BY <1>2 DEF Lookup
  <2>2. cache[key] \in Outcomes
    BY <1>1, <1>2 DEF IInv, DataOK
  <2>3. key = "tx" => OutcomeOK(indexed, cache[key])
    BY <1>2 DEF IInv, CacheOK, OutcomeOK, Keys
  <2>4. b \in Records /\ RequestOK(indexed, b) /\ b.pc \in {"lookup", "reply"}
    BY <1>1, <2>2, <2>3, ReceivedFacts
  <2>. HIDE DEF b
  <2>5. b.pc \notin Fetching \cup {"join"}
    BY <2>4 DEF Fetching
  <2>. QED  BY <1>1, <2>1, <2>4, <2>5, OneMoves
<1>3. CASE cache[key] = Empty /\ Leaders(key) # {}
  <2> DEFINE b == [request[r] EXCEPT !.pc = "join"]
  <2>1. request' = [request EXCEPT ![r] = b]
    BY <1>3 DEF Lookup
  <2>2. b \in Records /\ b.pc = "join" /\ b.key = key /\ b.found = {}
    BY <1>1 DEF Records
  <2>. HIDE DEF b
  <2>3. RequestOK(indexed, b) /\ b.pc \notin Fetching
    BY <2>2 DEF RequestOK, Fetching
  <2>. QED  BY <1>1, <1>3, <2>1, <2>2, <2>3, OneMoves
<1>4. CASE cache[key] = Empty /\ Leaders(key) = {}
  <2> DEFINE b == [request[r] EXCEPT !.pc = IF key = "list" THEN "query" ELSE "trades",
                                     !.began = indexed, !.left = Orderbooks]
  <2>1. request' = [request EXCEPT ![r] = b]
    BY <1>4 DEF Lookup
  <2>2. /\ b \in Records /\ b.pc = IF key = "list" THEN "query" ELSE "trades"
        /\ b.key = key /\ b.began = indexed /\ b.left = Orderbooks /\ b.found = {}
    BY <1>1 DEF Records, Fetching
  <2>. HIDE DEF b
  <2>4. RequestOK(indexed, b)
    BY <1>1, <2>2 DEF RequestOK, Keys
  <2>. QED  BY <1>1, <1>4, <2>1, <2>2, <2>4, OneMoves DEF Fetching
<1>. QED  BY <1>2, <1>3, <1>4

LEMMA ListTransactionsKeeps == ASSUME IInv, NEW r \in Requests, ListTransactions(r) PROVE IInv'
<1>1. /\ request[r].pc = "query" /\ UNCHANGED <<chain, indexed>> /\ RequestOK(indexed, request[r])
      /\ trades \subseteq Orderbooks
  BY RequestParts DEF ListTransactions, At, IInv, DataOK
<1>2. request[r].pc \in Fetching /\ request[r].key = "list"
  BY <1>1 DEF RequestOK, Fetching
<1>3. \/ Finish(r, "200", {home} \cap trades \cap indexed)
      \/ Finish(r, "500", {})
  BY DEF ListTransactions
<1>4. {home} \cap trades \cap indexed \in SUBSET Orderbooks
  BY <1>1
<1>. QED  BY <1>1, <1>2, <1>3, <1>4, FinishKeeps

LEMMA FindTradesKeeps ==
  ASSUME IInv, NEW r \in Requests, NEW orderbook \in Orderbooks, FindTrades(r, orderbook)
  PROVE  IInv'
<1> DEFINE b == request[r]
           more == [b EXCEPT !.left = @ \ {orderbook},
                             !.found = @ \cup ({orderbook} \cap trades \cap indexed)]
           fewer == [b EXCEPT !.left = @ \ {orderbook}, !.failed = TRUE]
<1>1. /\ b.pc = "trades" /\ UNCHANGED <<chain, indexed, cache>> /\ b \in Records
      /\ RequestOK(indexed, b) /\ trades \subseteq Orderbooks
  BY RequestParts DEF FindTrades, At, IInv, DataOK
<1>2. DOMAIN request = Requests
  BY DEF IInv, DataOK
<1>3. \/ request' = [request EXCEPT ![r] = more]
      \/ request' = [request EXCEPT ![r] = fewer]
  BY <1>2 DEF FindTrades
<1>4. /\ more \in Records /\ more.pc = b.pc /\ more.key = b.key /\ more.began = b.began
      /\ more.left = b.left \ {orderbook} /\ more.failed = b.failed
      /\ more.found = b.found \cup ({orderbook} \cap trades \cap indexed)
  BY <1>1 DEF Records
<1>5. /\ fewer \in Records /\ fewer.pc = b.pc /\ fewer.key = b.key /\ fewer.began = b.began
      /\ fewer.left = b.left \ {orderbook} /\ fewer.failed = TRUE /\ fewer.found = b.found
  BY <1>1 DEF Records
<1> HIDE DEF more, fewer, b
<1>6. /\ b.key = "tx" /\ b.began \subseteq indexed /\ b.found \subseteq trades \cap indexed
      /\ ~b.failed => (Orderbooks \ b.left) \cap trades \cap b.began \subseteq b.found
  BY <1>1 DEF RequestOK
<1>7. RequestOK(indexed, more)
  BY <1>1, <1>4, <1>6 DEF RequestOK
<1>8. RequestOK(indexed, fewer)
  BY <1>1, <1>5, <1>6 DEF RequestOK
<1>9. b.pc \in Fetching
  BY <1>1 DEF Fetching
<1>10. CASE request' = [request EXCEPT ![r] = more]
  <2>1. b.pc \in Fetching /\ more.pc \in Fetching /\ more.pc # "join"
    BY <1>1, <1>4, <1>9
  <2>. QED  BY <1>1, <1>4, <1>7, <1>10, <2>1, OneMoves DEF b
<1>11. CASE request' = [request EXCEPT ![r] = fewer]
  <2>1. b.pc \in Fetching /\ fewer.pc \in Fetching /\ fewer.pc # "join"
    BY <1>1, <1>5, <1>9
  <2>. QED  BY <1>1, <1>5, <1>8, <1>11, <2>1, OneMoves DEF b
<1>. QED  BY <1>3, <1>10, <1>11

\* What the lookup has gathered covers the transaction's trades, unless it failed.
LEMMA GatherKeeps == ASSUME IInv, NEW r \in Requests, Gather(r) PROVE IInv'
<1> DEFINE b == request[r]
<1>1. /\ b.pc = "trades" /\ b.left = {} /\ UNCHANGED <<chain, indexed>> /\ b \in Records
      /\ RequestOK(indexed, b) /\ trades \subseteq Orderbooks
  BY RequestParts DEF Gather, At, IInv, DataOK
<1>2. /\ b.key = "tx" /\ b.began \subseteq indexed /\ b.found \subseteq trades \cap indexed
      /\ ~b.failed => (Orderbooks \ b.left) \cap trades \cap b.began \subseteq b.found
      /\ b.pc \in Fetching /\ b.found \in SUBSET Orderbooks /\ b.began \in SUBSET Orderbooks
  BY <1>1, RecordFacts DEF RequestOK, Fetching
<1>3. ~b.failed => trades \cap b.began \subseteq b.found
  BY <1>1, <1>2
<1>4. OutcomeOK(indexed, Outcome("500", {}, b.began))
  BY DEF Outcome, OutcomeOK
<1>5. CASE Finish(r, "500", {})
  BY <1>1, <1>2, <1>4, <1>5, FinishKeeps
<1>6. CASE ~b.failed /\ b.found # {} /\ Finish(r, "200", b.found)
  <2>1. OutcomeOK(indexed, Outcome("200", b.found, b.began))
    BY <1>2, <1>3, <1>6 DEF Outcome, OutcomeOK, CoversBy
  <2>. QED  BY <1>1, <1>2, <1>6, <2>1, FinishKeeps
<1>7. CASE /\ ~b.failed /\ b.found = {} /\ UNCHANGED cache
           /\ request' = [request EXCEPT ![r].pc = "check", ![r].left = Orderbooks]
  <2> DEFINE c == [b EXCEPT !.pc = "check", !.left = Orderbooks]
  <2>1. request' = [request EXCEPT ![r] = c]
    BY <1>7 DEF IInv, DataOK
  <2>2. /\ c \in Records /\ c.pc = "check" /\ c.left = Orderbooks /\ c.key = b.key
        /\ c.began = b.began /\ c.found = b.found
    BY <1>1 DEF Records, Fetching
  <2>. HIDE DEF c
  <2>3. RequestOK(indexed, c)
    BY <1>2, <1>3, <1>7, <2>2 DEF RequestOK
  <2>4. c.pc \in Fetching /\ c.pc # "join"
    BY <2>2 DEF Fetching
  <2>. QED  BY <1>1, <1>2, <1>7, <2>1, <2>2, <2>3, <2>4, OneMoves
<1>. QED  BY <1>5, <1>6, <1>7 DEF Gather, Convert

LEMMA CheckIndexKeeps ==
  ASSUME IInv, NEW r \in Requests, NEW orderbook \in Orderbooks, CheckIndex(r, orderbook)
  PROVE  IInv'
<1> DEFINE b == request[r]
<1>1. /\ b.pc = "check" /\ orderbook \in b.left /\ UNCHANGED <<chain, indexed>> /\ b \in Records
      /\ RequestOK(indexed, b) /\ touched \subseteq Orderbooks /\ DOMAIN request = Requests
  BY RequestParts DEF CheckIndex, At, IInv, DataOK
<1>2. /\ b.key = "tx" /\ b.began \subseteq indexed /\ trades \cap b.began = {}
      /\ (Orderbooks \ b.left) \cap touched \cap b.began = {} /\ b.pc \in Fetching
  BY <1>1 DEF RequestOK, Fetching
<1>3. CASE Finish(r, "500", {})
  <2>1. OutcomeOK(indexed, Outcome("500", {}, b.began))
    BY DEF Outcome, OutcomeOK
  <2>. QED  BY <1>1, <1>2, <1>3, <2>1, FinishKeeps
<1>4. CASE orderbook \in touched \cap indexed /\ Finish(r, "404", {})
  <2>1. OutcomeOK(indexed, Outcome("404", {}, b.began))
    BY <1>2, <1>4 DEF Outcome, OutcomeOK
  <2>. QED  BY <1>1, <1>2, <1>4, <2>1, FinishKeeps
<1>5. CASE orderbook \notin touched \cap indexed /\ b.left = {orderbook} /\ Finish(r, "202", {})
  <2>1. touched \cap b.began = {}
    BY <1>1, <1>2, <1>5
  <2>2. OutcomeOK(indexed, Outcome("202", {}, b.began))
    BY <1>2, <2>1 DEF Outcome, OutcomeOK
  <2>. QED  BY <1>1, <1>2, <1>5, <2>2, FinishKeeps
<1>6. CASE /\ orderbook \notin touched \cap indexed /\ UNCHANGED cache
           /\ request' = [request EXCEPT ![r].left = @ \ {orderbook}]
  <2> DEFINE c == [b EXCEPT !.left = @ \ {orderbook}]
  <2>1. request' = [request EXCEPT ![r] = c]
    BY <1>1, <1>6
  <2>2. /\ c \in Records /\ c.pc = "check" /\ c.left = b.left \ {orderbook} /\ c.key = b.key
        /\ c.began = b.began /\ c.found = b.found
    BY <1>1 DEF Records
  <2>. HIDE DEF c
  <2>3. (Orderbooks \ c.left) \cap touched \cap c.began = {}
    BY <1>2, <1>6, <2>2
  <2>4. RequestOK(indexed, c)
    BY <1>2, <2>2, <2>3 DEF RequestOK
  <2>5. c.pc \in Fetching /\ c.pc # "join"
    BY <2>2 DEF Fetching
  <2>. QED  BY <1>1, <1>2, <1>6, <2>1, <2>2, <2>4, <2>5, OneMoves
<1>. QED  BY <1>3, <1>4, <1>5, <1>6 DEF CheckIndex, TimedOut

LEMMA ReplyKeeps == ASSUME IInv, NEW r \in Requests, Reply(r) PROVE IInv'
<1>1. /\ IdleRequest \in Records /\ IdleRequest.pc = "idle" /\ IdleRequest.found = {}
  BY DEF IdleRequest, Records, Keys
<1>2. RequestOK(indexed, IdleRequest) /\ IdleRequest.pc \notin Fetching \cup {"join"}
  BY <1>1 DEF RequestOK, Fetching
<1>3. /\ request[r].pc = "reply" /\ request' = [request EXCEPT ![r] = IdleRequest]
      /\ UNCHANGED <<chain, indexed, cache>> /\ request[r].pc \notin Fetching
  BY DEF Reply, At, Fetching
<1>. QED  BY <1>1, <1>2, <1>3, OneMoves

LEMMA IndexKeeps == ASSUME IInv, NEW orderbook \in Orderbooks, Index(orderbook) PROVE IInv'
<1>1. /\ UNCHANGED chain /\ cache' = cache /\ request' = request
      /\ indexed' = indexed \cup {orderbook}
  BY DEF Index
<1>2. LeadersOK'
  BY <1>1 DEF IInv, LeadersOK, Leaders, Joiners
<1>3. CacheOK(indexed', cache) /\ \A r \in Requests : RequestOK(indexed', request[r])
  BY <1>1, MoreIsIndexed DEF IInv
<1>. QED  BY <1>1, <1>2, <1>3, Assemble DEF IInv, DataOK

LEMMA ExpireKeeps == ASSUME IInv, NEW key \in Keys, Expire(key) PROVE IInv'
<1>1. /\ UNCHANGED chain /\ indexed' = indexed /\ request' = request
      /\ cache' = [cache EXCEPT ![key] = Empty]
  BY DEF Expire
<1>2. LeadersOK'
  BY <1>1 DEF IInv, LeadersOK, Leaders, Joiners
<1>3. CacheOK(indexed', cache') /\ cache' \in [Keys -> Outcomes \cup {Empty}]
  BY <1>1 DEF IInv, DataOK, CacheOK, Keys
<1>. QED  BY <1>1, <1>2, <1>3, Assemble DEF IInv, DataOK

LEMMA NextIInv == IInv /\ [Next]_vars => IInv'
<1> SUFFICES ASSUME IInv, [Next]_vars PROVE IInv'
  OBVIOUS
<1>1. CASE UNCHANGED vars
  <2>1. UNCHANGED <<chain, indexed, cache, request>>
    BY <1>1 DEF vars
  <2>2. LeadersOK'
    BY <2>1 DEF IInv, LeadersOK, Leaders, Joiners
  <2>. QED  BY <2>1, <2>2, Assemble DEF IInv, DataOK
<1>2. ASSUME NEW r \in Requests, NEW kind \in {"tx", "taker"}, Start(r, kind)  PROVE IInv'
  BY <1>2, StartKeeps
<1>3. ASSUME NEW r \in Requests, Lookup(r)  PROVE IInv'
  BY <1>3, LookupKeeps
<1>4. ASSUME NEW r \in Requests, ListTransactions(r)  PROVE IInv'
  BY <1>4, ListTransactionsKeeps
<1>5. ASSUME NEW r \in Requests, NEW orderbook \in Orderbooks, FindTrades(r, orderbook)
      PROVE  IInv'
  BY <1>5, FindTradesKeeps
<1>6. ASSUME NEW r \in Requests, NEW orderbook \in Orderbooks, CheckIndex(r, orderbook)
      PROVE  IInv'
  BY <1>6, CheckIndexKeeps
<1>7. ASSUME NEW r \in Requests, Gather(r)  PROVE IInv'
  BY <1>7, GatherKeeps
<1>8. ASSUME NEW r \in Requests, Reply(r)  PROVE IInv'
  BY <1>8, ReplyKeeps
<1>9. ASSUME NEW orderbook \in Orderbooks, Index(orderbook)  PROVE IInv'
  BY <1>9, IndexKeeps
<1>10. ASSUME NEW key \in Keys, Expire(key)  PROVE IInv'
  BY <1>10, ExpireKeeps
<1>. QED
  BY <1>1, <1>2, <1>3, <1>4, <1>5, <1>6, <1>7, <1>8, <1>9, <1>10 DEF Next

LEMMA Inductive == Spec => []IInv
BY InitIInv, NextIInv, PTL DEF Spec

-----------------------------------------------------------------------------
\* TypeOK: one fetch per key of trades_by_tx_cache and taker_tx_cache at a time,
\* which everyone who joined it waits for (try_get_with).
THEOREM TypeCorrect == Spec => []TypeOK
<1>1. IInv => TypeOK
  <2> SUFFICES ASSUME IInv PROVE TypeOK
    OBVIOUS
  <2>1. DataOK /\ LeadersOK
    BY DEF IInv
  <2>2. \A key \in Keys : Cardinality(Leaders(key)) <= 1
    BY <2>1, CardinalityOne DEF LeadersOK
  <2>. QED  BY <2>1, <2>2 DEF TypeOK, DataOK, LeadersOK, Records
<1>. QED  BY <1>1, Inductive, PTL

\* AnswersCover: whoever asked for a transaction, joined the fetch of another or
\* found its result in the cache, is told all of its trades that were indexed when
\* the fetch began, in every orderbook, or nothing (get_trades_by_tx and the
\* taker's page, through one cache).
THEOREM AnswersAreWhole == Spec => []AnswersCover
<1>1. IInv => AnswersCover
  BY DEF IInv, AnswersCover, LookedUp, At, Covers, Known, RequestOK, OutcomeOK, CacheOK,
     CoversBy, Keys
<1>. QED  BY <1>1, Inductive, PTL

\* DenialsAreHonest: 404 and 202 mean what was known when the fetch began
\* (check_tx_index_state), whatever the indexers do between the lookup and the check.
THEOREM DenialsAreTrue == Spec => []DenialsAreHonest
<1>1. IInv => DenialsAreHonest
  BY DEF IInv, DenialsAreHonest, LookedUp, At, Known, RequestOK, OutcomeOK
<1>. QED  BY <1>1, Inductive, PTL
=============================================================================

------------------------- MODULE TradesBatchProofs -------------------------
(***************************************************************************)
(* Proofs about TradesBatch, for any orders, requests and histories.       *)
(*                                                                         *)
(* The queries come first: over a history the indexer can produce, and if  *)
(* every order has a nonce of its own, what is found for an order are its  *)
(* trades.  The inductive invariant IInv then follows each answer from the *)
(* query to the cache and to the response.                                 *)
(***************************************************************************)
EXTENDS TradesBatch, NaturalFacts, FiniteSetTheorems

\* No owner gives two orders one nonce.
OwnNonces == \A h, k \in Hashes : Slot[h] = Slot[k] => h = k

Fields == {"pc", "hashes", "next", "uncached", "results", "map", "fresh"}
Maps == UNION {[hashes -> Answers] : hashes \in SUBSET Hashes}

\* TradesOf and True, of any history; where nonces are reused nothing is said.
TradesIn(history, hash, n) ==
    {i \in 1..n : \/ history[i].kind = "take" /\ history[i].order = hash
                  \/ history[i].kind = "clear" /\ hash \in {history[i].order, history[i].bob}}

TrueIn(history, hash, answer, then) ==
    OwnNonces =>
        \E n \in then..Len(history) : \E lacking \in SUBSET {i \in 1..n : ~history[i].readable} :
            answer = TradesIn(history, hash, n) \ lacking

\* The entries of uncached that are not in the map yet.
Remaining(b) == {b.uncached[i] : i \in b.next..Len(b.uncached)}

\* The types of a request's variables, and which hashes they are about.
Shape(b) ==
    /\ DOMAIN b = Fields /\ b.pc \in BatchSteps
    /\ b.hashes \in Seq(Hashes) /\ Len(b.hashes) <= MaxHashes
    /\ b.uncached \in Seq(Hashes) /\ Len(b.uncached) <= MaxHashes
    /\ b.results \in Seq(Answers \cup {Pending})
    /\ b.map \in Maps /\ b.fresh \subseteq Hashes
    /\ b.next \in 1..(MaxHashes + 1)

Fetching == {"direct", "library", "insert"}

Progress(b) ==
    /\ b.pc = "idle" =>
        b.map = <<>> /\ b.results = <<>> /\ b.uncached = <<>> /\ b.next = 1 /\ b.fresh = {}
    /\ b.pc = "lookup" =>
        /\ b.next <= Len(b.hashes) /\ Len(b.uncached) < b.next
        /\ b.results = <<>> /\ b.fresh = {}
        /\ DOMAIN b.map \cup ToSet(b.uncached) = {b.hashes[i] : i \in 1..(b.next - 1)}
    /\ b.pc \in Fetching =>
        /\ Len(b.results) = Len(b.uncached) /\ b.next <= Len(b.uncached)
        /\ DOMAIN b.map \cup Remaining(b) = ToSet(b.hashes)
        /\ b.fresh \subseteq ToSet(b.uncached)
    /\ b.pc \in {"direct", "library"} => b.next = 1
    /\ b.pc = "insert" => \A i \in DOMAIN b.results : b.results[i] # Pending
    /\ b.pc = "respond" => DOMAIN b.map = ToSet(b.hashes) /\ b.uncached = <<>> /\ b.results = <<>>

\* Since when an answer about the hash is known to be true: now, for the hashes
\* whose every entry was read after the last event.
Since(history, b, hash) == IF hash \in b.fresh \cap AtHome THEN Len(history) ELSE 0

Honest(history, b) ==
    /\ \A i \in DOMAIN b.results : b.results[i] \notin {Pending, Failed, Masked} =>
            TrueIn(history, b.uncached[i], b.results[i], Since(history, b, b.uncached[i]))
    /\ \A hash \in DOMAIN b.map : b.map[hash] \notin {Failed, Masked} =>
            TrueIn(history, hash, b.map[hash],
                   IF hash \in Remaining(b) THEN 0 ELSE Since(history, b, hash))

History(history) ==
    history \in Seq(EventInputs) /\ Len(history) <= MaxEvents /\ Possible(history)
CacheInv(history, c) ==
    /\ c \in [Hashes -> (Answers \ {Failed}) \cup {Empty}]
    /\ \A hash \in Hashes : c[hash] \notin {Empty, Masked} => TrueIn(history, hash, c[hash], 0)
Good(history, b) == Shape(b) /\ Progress(b) /\ Honest(history, b)

IInv ==
    /\ History(events)
    /\ CacheInv(events, cache)
    /\ DOMAIN batch = Requests /\ \A r \in Requests : Good(events, batch[r])

-----------------------------------------------------------------------------
USE BoundsAssumption

LEMMA AtMostThree == \A a, b, c : Cardinality({a, b, c}) # 4
<1> TAKE a, b, c
<1>1. IsFiniteSet({c}) /\ Cardinality({c}) = 1
  BY FS_Singleton
<1>2. {b, c} = {c} \cup {b} /\ {a, b, c} = {b, c} \cup {a}
  OBVIOUS
<1>3. IsFiniteSet({b, c}) /\ Cardinality({b, c}) \in {1, 2}
  <2>1. /\ IsFiniteSet({c} \cup {b})
        /\ Cardinality({c} \cup {b}) =
              IF b \in {c} THEN Cardinality({c}) ELSE Cardinality({c}) + 1
    BY <1>1, FS_AddElement
  <2>. QED  BY <1>1, <1>2, <2>1
<1>4. Cardinality({b, c} \cup {a}) =
         IF a \in {b, c} THEN Cardinality({b, c}) ELSE Cardinality({b, c}) + 1
  BY <1>3, FS_AddElement
<1>. QED  BY <1>2, <1>3, <1>4

LEMMA AnswersDiffer ==
    /\ Empty # Pending /\ Empty # Failed /\ Empty # Masked
    /\ Pending # Failed /\ Pending # Masked /\ Failed # Masked
    /\ \A answer \in {Empty, Pending, Failed, Masked} : answer \notin SUBSET (1..MaxEvents)
<1> DEFINE S == {Empty, Pending, Failed, Masked}
<1>1. \A a, b, c : S # {a, b, c}
  BY AtMostThree, AnswerAssumption
<1>2. /\ Empty = Pending => S = {Empty, Failed, Masked}
      /\ Empty = Failed => S = {Empty, Pending, Masked}
      /\ Empty = Masked => S = {Empty, Pending, Failed}
      /\ Pending = Failed => S = {Empty, Pending, Masked}
      /\ Pending = Masked => S = {Empty, Pending, Failed}
      /\ Failed = Masked => S = {Empty, Pending, Failed}
  OBVIOUS
<1>3. /\ Empty # Pending /\ Empty # Failed /\ Empty # Masked
      /\ Pending # Failed /\ Pending # Masked /\ Failed # Masked
  <2>. HIDE DEF S
  <2>. QED  BY <1>1, <1>2
<1>. QED  BY <1>3, AnswerAssumption

\* Every event of a history is one of EventInputs.
LEMMA EventFacts ==
  ASSUME NEW history, History(history)
  PROVE  /\ DOMAIN history = 1..Len(history) /\ Len(history) \in Nat
         /\ \A i \in 1..Len(history) :
              /\ history[i].kind \in {"add", "take", "clear"}
              /\ history[i].order \in Hashes /\ history[i].bob \in Hashes
BY DEF History, EventInputs, Events

\* Takes and clears come after an addition of the order.
LEMMA AddedBefore ==
  ASSUME NEW history, History(history), NEW i \in 1..Len(history), history[i].kind # "add"
  PROVE  \A hash \in {history[i].order, history[i].bob} :
            \E j \in 1..i : history[j].kind = "add" /\ history[j].order = hash
<1>1. DOMAIN history = 1..Len(history) /\ Len(history) \in Nat
  BY EventFacts
<1> TAKE hash \in {history[i].order, history[i].bob}
<1>2. PICK j \in 1..(i - 1) : history[j].kind = "add" /\ history[j].order = hash
  BY <1>1 DEF History, Possible
<1>. QED  BY <1>1, <1>2

LEMMA TakesFound ==
  ASSUME OwnNonces, History(events), NEW requested \in SUBSET Hashes, NEW hash \in requested
  PROVE  TakesOf(hash, requested)
            = {i \in 1..Len(events) : events[i].kind = "take" /\ events[i].order = hash}
<1>0. DOMAIN events = 1..Len(events) /\ Len(events) \in Nat
  BY EventFacts
<1>1. ASSUME NEW i \in 1..Len(events), NEW j \in Additions(requested, i)
      PROVE  events[j].order = events[i].order
  BY <1>0, <1>1, EventFacts DEF Additions, OwnNonces
<1>2. ASSUME NEW i \in TakesOf(hash, requested)  PROVE events[i].order = hash
  BY <1>0, <1>1, <1>2 DEF TakesOf
<1>3. ASSUME NEW i \in 1..Len(events), events[i].kind = "take", events[i].order = hash
      PROVE  i \in TakesOf(hash, requested)
  <2> DEFINE S == Additions(requested, i)
  <2>1. S \subseteq Nat /\ (\A n \in S : n <= i) /\ i \in Nat
    BY <1>0 DEF Additions
  <2>2. S # {}
    <3>1. PICK j \in 1..i : events[j].kind = "add" /\ events[j].order = hash
      BY <1>3, AddedBefore
    <3>. QED  BY <1>3, <3>1 DEF Additions
  <2>3. PICK m \in S : \A n \in S : n <= m
    <3>. HIDE DEF S
    <3>. QED  BY <2>1, <2>2, GreatestNatural
  <2>4. events[m].order = hash
    BY <1>1, <1>3
  <2>. QED  BY <1>0, <1>3, <2>3, <2>4 DEF TakesOf
<1>. QED  BY <1>0, <1>2, <1>3 DEF TakesOf

LEMMA ClearsFound ==
  ASSUME History(events), NEW hash
  PROVE  ClearsOf(hash) = {i \in 1..Len(events) :
            events[i].kind = "clear" /\ hash \in {events[i].order, events[i].bob}}
<1>1. DOMAIN events = 1..Len(events)
  BY EventFacts
<1>2. ASSUME NEW i \in 1..Len(events), events[i].kind = "clear",
             hash \in {events[i].order, events[i].bob}
      PROVE  Added(hash, i)
  <2>1. events[i].kind # "add"
    BY <1>2
  <2>2. \E j \in 1..i : events[j].kind = "add" /\ events[j].order = hash
    BY <1>2, <2>1, AddedBefore
  <2>. QED  BY <2>2 DEF Added
<1>. QED  BY <1>1, <1>2 DEF ClearsOf

\* A query finds the trades of the order, whatever else it is for.
LEMMA QueryFinds ==
  ASSUME OwnNonces, History(events), NEW requested \in SUBSET Hashes, NEW hash \in requested
  PROVE  TakesOf(hash, requested) \cup ClearsOf(hash) = TradesIn(events, hash, Len(events))
BY TakesFound, ClearsFound DEF TradesIn

LEMMA LibraryFinds ==
  ASSUME History(events), NEW hash \in Hashes
  PROVE  /\ Library(hash) \in SUBSET (1..MaxEvents)
         /\ TrueIn(events, hash, Library(hash), Len(events))
<1>1. Len(events) \in Nat /\ Len(events) <= MaxEvents /\ DOMAIN events = 1..Len(events)
  BY EventFacts DEF History
<1>2. Library(hash) \subseteq 1..Len(events)
  BY <1>1 DEF Library, TakesOf, ClearsOf
<1>3. ASSUME OwnNonces  PROVE Library(hash) = TradesIn(events, hash, Len(events)) \ {}
  BY <1>3, QueryFinds DEF Library
<1>4. Len(events) \in Len(events)..Len(events)
  BY <1>1
<1>5. TrueIn(events, hash, Library(hash), Len(events))
  BY <1>3, <1>4 DEF TrueIn
<1>. QED  BY <1>1, <1>2, <1>5

LEMMA QueryAnswers ==
  ASSUME History(events), NEW requested \in SUBSET Hashes, NEW hash \in requested
  PROVE  /\ Query(hash, requested) \in SUBSET (1..MaxEvents)
         /\ TrueIn(events, hash, Query(hash, requested), IF hash \in AtHome THEN Len(events) ELSE 0)
         /\ OwnNonces /\ hash \in AtHome =>
              Query(hash, requested)
                = {i \in TradesIn(events, hash, Len(events)) : events[i].readable}
<1>1. Len(events) \in Nat /\ Len(events) <= MaxEvents /\ DOMAIN events = 1..Len(events)
  BY EventFacts DEF History
<1>2. TradesIn(events, hash, Len(events)) \subseteq 1..Len(events)
  BY DEF TradesIn
<1>3. Query(hash, requested) \subseteq 1..Len(events)
  BY <1>1 DEF Query, Converted, TakesOf, ClearsOf
<1>4. ASSUME OwnNonces, hash \in AtHome
      PROVE  /\ TrueIn(events, hash, Query(hash, requested), Len(events))
             /\ Query(hash, requested)
                  = {i \in TradesIn(events, hash, Len(events)) : events[i].readable}
  <2> DEFINE T == TradesIn(events, hash, Len(events))
             lacking == {i \in T : ~events[i].readable}
  <2>1. requested \cap AtHome \in SUBSET Hashes /\ hash \in requested \cap AtHome
    BY <1>4
  <2>2. Query(hash, requested) = {i \in T : events[i].readable}
    BY <1>4, <2>1, QueryFinds DEF Query, Converted
  <2>3. Query(hash, requested) = T \ lacking
    BY <2>2
  <2>4. lacking \in SUBSET {i \in 1..Len(events) : ~events[i].readable}
    BY <1>2
  <2>5. Len(events) \in Len(events)..Len(events)
    BY <1>1
  <2>6. TrueIn(events, hash, Query(hash, requested), Len(events))
    <3>. HIDE DEF lacking
    <3>. QED  BY <2>3, <2>4, <2>5 DEF TrueIn
  <2>. QED  BY <2>2, <2>6
<1>5. ASSUME hash \notin AtHome  PROVE TrueIn(events, hash, Query(hash, requested), 0)
  <2>1. Query(hash, requested) = {}
    BY <1>5 DEF Query
  <2>2. TradesIn(events, hash, 0) \ {} = {} /\ 0 \in 0..Len(events)
    BY <1>1 DEF TradesIn
  <2>3. TrueIn(events, hash, {}, 0)
    BY <2>2 DEF TrueIn
  <2>. QED  BY <2>1, <2>3
<1>6. TrueIn(events, hash, Query(hash, requested), IF hash \in AtHome THEN Len(events) ELSE 0)
  <2>1. CASE OwnNonces
    BY <1>4, <1>5, <2>1
  <2>2. CASE ~OwnNonces
    BY <2>2 DEF TrueIn
  <2>. QED  BY <2>1, <2>2
<1>. QED  BY <1>1, <1>3, <1>4, <1>6

\* What was true at a later moment was true since an earlier one.
LEMMA TrueSinceEarlier ==
  ASSUME NEW history, NEW hash, NEW answer, NEW then \in Nat, NEW earlier \in Nat,
         Len(history) \in Nat, earlier <= then, TrueIn(history, hash, answer, then)
  PROVE  TrueIn(history, hash, answer, earlier)
<1> SUFFICES ASSUME OwnNonces PROVE TrueIn(history, hash, answer, earlier)
  BY DEF TrueIn
<1>1. \A n \in then..Len(history) : n \in earlier..Len(history)
  OBVIOUS
<1>. QED  BY <1>1 DEF TrueIn

\* What was true stays true of that moment when an event is indexed.
LEMMA TrueAfterEvent ==
  ASSUME NEW history, NEW event \in EventInputs, History(history), NEW hash, NEW answer,
         TrueIn(history, hash, answer, 0)
  PROVE  TrueIn(Append(history, event), hash, answer, 0)
<1> SUFFICES ASSUME OwnNonces PROVE TrueIn(Append(history, event), hash, answer, 0)
  BY DEF TrueIn
<1> DEFINE later == Append(history, event)
<1>0. history \in Seq(EventInputs) /\ Len(history) \in Nat
  BY EventFacts DEF History
<1>1. Len(later) = Len(history) + 1 /\ \A i \in 1..Len(history) : later[i] = history[i]
  BY <1>0
<1>2. PICK n \in 0..Len(history) : \E lacking \in SUBSET {i \in 1..n : ~history[i].readable} :
        answer = TradesIn(history, hash, n) \ lacking
  BY DEF TrueIn
<1> HIDE DEF later
<1>3. \A i \in 1..n : later[i] = history[i]
  BY <1>0, <1>1
<1>4. TradesIn(later, hash, n) = TradesIn(history, hash, n)
  BY <1>3 DEF TradesIn
<1>5. {i \in 1..n : ~later[i].readable} = {i \in 1..n : ~history[i].readable}
  BY <1>3
<1>6. n \in 0..Len(later)
  BY <1>0, <1>1
<1>7. TrueIn(later, hash, answer, 0)
  BY <1>2, <1>4, <1>5, <1>6 DEF TrueIn
<1>. QED  BY <1>7 DEF later

-----------------------------------------------------------------------------
\* Maps from hashes to answers.

LEMMA MapFacts ==
  ASSUME NEW map \in Maps
  PROVE  DOMAIN map \subseteq Hashes /\ \A h \in DOMAIN map : map[h] \in Answers
BY DEF Maps

LEMMA EmptyMap == <<>> \in Maps /\ DOMAIN <<>> = {}
<1>1. <<>> \in [{} -> Answers] /\ DOMAIN <<>> = {}
  OBVIOUS
<1>. QED  BY <1>1 DEF Maps

LEMMA WithFacts ==
  ASSUME NEW map, NEW hash, NEW answer
  PROVE  /\ DOMAIN With(map, hash, answer) = DOMAIN map \cup {hash}
         /\ With(map, hash, answer)[hash] = answer
         /\ \A h \in DOMAIN map : h # hash => With(map, hash, answer)[h] = map[h]
         /\ map \in Maps /\ hash \in Hashes /\ answer \in Answers => With(map, hash, answer) \in Maps
<1>1. /\ DOMAIN With(map, hash, answer) = DOMAIN map \cup {hash}
      /\ With(map, hash, answer)[hash] = answer
      /\ \A h \in DOMAIN map : h # hash => With(map, hash, answer)[h] = map[h]
  BY DEF With
<1>2. ASSUME map \in Maps, hash \in Hashes, answer \in Answers
      PROVE  With(map, hash, answer) \in Maps
  <2>1. DOMAIN map \cup {hash} \in SUBSET Hashes
    BY <1>2, MapFacts
  <2>2. With(map, hash, answer) \in [DOMAIN map \cup {hash} -> Answers]
    BY <1>2, MapFacts DEF With
  <2>. QED  BY <2>1, <2>2 DEF Maps
<1>. QED  BY <1>1, <1>2

\* The hashes of a sequence that is one longer.
LEMMA PrefixGrows ==
  ASSUME NEW hashes \in Seq(Hashes), NEW n \in 1..Len(hashes)
  PROVE  {hashes[i] : i \in 1..n} = {hashes[i] : i \in 1..(n - 1)} \cup {hashes[n]}
<1>1. \A i : i \in 1..n <=> i \in 1..(n - 1) \/ i = n
  OBVIOUS
<1>. QED  BY <1>1

LEMMA SetOfPrefix ==
  ASSUME NEW hashes \in Seq(Hashes)
  PROVE  /\ ToSet(hashes) = {hashes[i] : i \in 1..Len(hashes)}
         /\ ToSet(hashes) \subseteq Hashes
BY DEF ToSet

LEMMA SetOfAppended ==
  ASSUME NEW hashes \in Seq(Hashes), NEW hash \in Hashes
  PROVE  ToSet(Append(hashes, hash)) = ToSet(hashes) \cup {hash}
<1> DEFINE longer == Append(hashes, hash)
<1>1. /\ longer \in Seq(Hashes) /\ Len(longer) = Len(hashes) + 1 /\ Len(hashes) \in Nat
      /\ longer[Len(longer)] = hash /\ \A i \in 1..Len(hashes) : longer[i] = hashes[i]
  OBVIOUS
<1> HIDE DEF longer
<1>2. ToSet(longer) = {longer[i] : i \in 1..(Len(longer) - 1)} \cup {longer[Len(longer)]}
  BY <1>1, PrefixGrows, SetOfPrefix
<1>3. {longer[i] : i \in 1..(Len(longer) - 1)} = {hashes[i] : i \in 1..Len(hashes)}
  BY <1>1
<1>4. ToSet(longer) = ToSet(hashes) \cup {hash}
  BY <1>1, <1>2, <1>3, SetOfPrefix
<1>. QED  BY <1>4 DEF longer

-----------------------------------------------------------------------------
\* The steps.

LEMMA IdleIsGood == ASSUME NEW history PROVE Good(history, IdleBatch)
<1> DEFINE b == IdleBatch
<1>1. /\ DOMAIN b = Fields /\ b.pc = "idle" /\ b.hashes = <<>> /\ b.next = 1 /\ b.uncached = <<>>
      /\ b.results = <<>> /\ b.map = <<>> /\ b.fresh = {}
  BY DEF IdleBatch, Fields
<1> HIDE DEF b
<1>2. Shape(b)
  BY <1>1, EmptyMap DEF Shape, BatchSteps
<1>3. Progress(b)
  BY <1>1 DEF Progress, Fetching
<1>4. Honest(history, b)
  BY <1>1, EmptyMap DEF Honest
<1>. QED  BY <1>2, <1>3, <1>4 DEF Good, b

LEMMA InitIInv == Init => IInv
<1> SUFFICES ASSUME Init PROVE IInv
  OBVIOUS
<1>1. History(events)
  BY HistoriesAssumption DEF Init, History
<1>2. CacheInv(events, cache)
  BY DEF Init, CacheInv
<1>3. DOMAIN batch = Requests /\ \A r \in Requests : Good(events, batch[r])
  BY IdleIsGood DEF Init
<1>. QED  BY <1>1, <1>2, <1>3 DEF IInv

\* A step of one request, between two events.
LEMMA OneMoves ==
  ASSUME IInv, NEW r \in Requests, events' = events, CacheInv(events, cache'),
         DOMAIN batch' = Requests, Good(events, batch'[r]),
         \A q \in Requests \ {r} : batch'[q] = batch[q]
  PROVE  IInv'
<1>1. \A q \in Requests : Good(events, batch'[q])
  <2> TAKE q \in Requests
  <2>1. CASE q = r
    BY <2>1
  <2>2. CASE q # r
    BY <2>2 DEF IInv
  <2>. QED  BY <2>1, <2>2
<1>2. History(events)' /\ CacheInv(events, cache)' /\ (\A q \in Requests : Good(events, batch[q]))'
  BY <1>1 DEF IInv
<1>. QED  BY <1>2 DEF IInv

LEMMA IndexKeeps == ASSUME IInv, NEW event \in EventInputs, Index(event) PROVE IInv'
<1>1. /\ events' = Append(events, event) /\ Len(events) < MaxEvents
      /\ cache' = cache /\ Possible(Append(events, event))
      /\ batch' = [r \in Requests |-> [batch[r] EXCEPT !.fresh = {}]]
  BY DEF Index
<1>2. History(events) /\ Len(events) \in Nat
  BY EventFacts DEF IInv
<1>3. History(events')
  BY <1>1, <1>2 DEF History
<1>4. CacheInv(events', cache')
  BY <1>1, <1>2, TrueAfterEvent DEF IInv, CacheInv
<1>5. ASSUME NEW r \in Requests  PROVE Good(events', batch'[r])
  <2> DEFINE b == batch[r]  c == batch'[r]
  <2>1. Shape(b) /\ Progress(b) /\ Honest(events, b)
    BY DEF IInv, Good
  <2>2. /\ DOMAIN c = Fields /\ c.pc = b.pc /\ c.hashes = b.hashes /\ c.uncached = b.uncached
        /\ c.results = b.results /\ c.map = b.map /\ c.next = b.next /\ c.fresh = {}
    BY <1>1, <2>1 DEF Shape, Fields
  <2>. HIDE DEF b, c
  <2>3. Remaining(c) = Remaining(b)
    BY <2>2 DEF Remaining
  <2>4. Shape(c)
    BY <2>1, <2>2 DEF Shape
  <2>5. Progress(c)
    BY <2>1, <2>2, <2>3 DEF Progress
  <2>6. \A hash : Since(events, b, hash) \in Nat /\ Since(events', c, hash) = 0
    BY <1>2, <2>2 DEF Since
  <2>7. ASSUME NEW hash, NEW answer, NEW then \in Nat, TrueIn(events, hash, answer, then)
        PROVE  TrueIn(events', hash, answer, 0)
    <3>1. TrueIn(events, hash, answer, 0)
      BY <1>2, <2>7, TrueSinceEarlier
    <3>. QED  BY <1>1, <1>2, <3>1, TrueAfterEvent
  <2>8. Honest(events', c)
    BY <2>1, <2>2, <2>3, <2>6, <2>7 DEF Honest
  <2>. QED  BY <2>4, <2>5, <2>8 DEF Good, c
<1>6. DOMAIN batch' = Requests
  BY <1>1
<1>. QED  BY <1>3, <1>4, <1>5, <1>6 DEF IInv

LEMMA StartKeeps ==
  ASSUME IInv, NEW r \in Requests, NEW hashes \in BoundedSeq(Hashes, MaxHashes), Start(r, hashes)
  PROVE  IInv'
<1> DEFINE b == batch[r]  c == batch'[r]
<1>1. Shape(b) /\ Progress(b) /\ Honest(events, b)
  BY DEF IInv, Good
<1>2. hashes \in Seq(Hashes) /\ Len(hashes) \in Nat /\ Len(hashes) <= MaxHashes /\ 0 < Len(hashes)
  BY DEF Start, BoundedSeq, SeqOf
<1>3. /\ b.pc = "idle" /\ events' = events /\ cache' = cache /\ DOMAIN batch' = Requests
      /\ \A q \in Requests \ {r} : batch'[q] = batch[q]
  BY DEF Start, IInv
<1>4. /\ DOMAIN c = Fields /\ c.pc = "lookup" /\ c.hashes = hashes /\ c.uncached = b.uncached
      /\ c.results = b.results /\ c.map = b.map /\ c.next = b.next /\ c.fresh = b.fresh
  BY <1>1 DEF Start, IInv, Shape, Fields
<1> HIDE DEF b, c
<1>5. b.map = <<>> /\ b.results = <<>> /\ b.uncached = <<>> /\ b.next = 1 /\ b.fresh = {}
  BY <1>1, <1>3 DEF Progress
<1>6. Shape(c)
  BY <1>1, <1>2, <1>4 DEF Shape, BatchSteps
<1>7. ToSet(<<>>) = {} /\ {hashes[i] : i \in 1..0} = {}
  BY DEF ToSet
<1>8. Progress(c)
  BY <1>2, <1>4, <1>5, <1>7, EmptyMap DEF Progress, Fetching
<1>9. Honest(events, c)
  BY <1>4, <1>5, EmptyMap DEF Honest
<1>10. Good(events, batch'[r])
  BY <1>6, <1>8, <1>9 DEF Good, c
<1>. QED  BY <1>3, <1>10, OneMoves DEF IInv

LEMMA LookUpKeeps == ASSUME IInv, NEW r \in Requests, LookUp(r) PROVE IInv'
<1> DEFINE b == batch[r]
           c == batch'[r]
           hash == b.hashes[b.next]
           hit  == cache[hash] # Empty
           missing == IF hit THEN b.uncached ELSE Append(b.uncached, hash)
           last == b.next = Len(b.hashes)
<1>1. Shape(b) /\ Progress(b) /\ Honest(events, b)
  BY DEF IInv, Good
<1>2. /\ b.pc = "lookup" /\ events' = events /\ cache' = cache /\ DOMAIN batch' = Requests
      /\ \A q \in Requests \ {r} : batch'[q] = batch[q]
  BY DEF LookUp, IInv
<1>3. /\ DOMAIN c = Fields /\ c.hashes = b.hashes /\ c.uncached = missing /\ c.fresh = b.fresh
      /\ c.map = IF hit THEN With(b.map, hash, cache[hash]) ELSE b.map
      /\ c.next = IF last THEN 1 ELSE b.next + 1
      /\ c.results = IF last THEN [i \in DOMAIN missing |-> Pending] ELSE b.results
      /\ c.pc = IF ~last THEN "lookup"
                ELSE IF missing = <<>> THEN "respond"
                ELSE IF Direct THEN "direct" ELSE "library"
  BY <1>1, <1>2 DEF LookUp, IInv, Shape, Fields
<1>4. /\ b.hashes \in Seq(Hashes) /\ Len(b.hashes) \in Nat /\ Len(b.hashes) <= MaxHashes
      /\ b.next \in 1..Len(b.hashes) /\ b.map \in Maps
      /\ b.uncached \in Seq(Hashes) /\ Len(b.uncached) \in Nat /\ Len(b.uncached) < b.next
      /\ b.results = <<>> /\ b.fresh = {}
      /\ DOMAIN b.map \cup ToSet(b.uncached) = {b.hashes[i] : i \in 1..(b.next - 1)}
  BY <1>1, <1>2 DEF Shape, Progress
<1>5. hash \in Hashes /\ (hit => cache[hash] \in Answers)
  <2>1. hash \in Hashes
    BY <1>4
  <2>. QED  BY <2>1 DEF IInv, CacheInv
<1>6. ~hit => ToSet(missing) = ToSet(b.uncached) \cup {hash}
  BY <1>4, <1>5, SetOfAppended
<1>7. missing \in Seq(Hashes) /\ Len(missing) \in Nat /\ Len(missing) <= b.next
  BY <1>4, <1>5
<1> DEFINE longer == With(b.map, hash, cache[hash])
<1>20. /\ DOMAIN longer = DOMAIN b.map \cup {hash} /\ longer[hash] = cache[hash]
       /\ \A h \in DOMAIN b.map : h # hash => longer[h] = b.map[h]
       /\ hit => longer \in Maps
  <2>1. cache[hash] \in Answers /\ hash \in Hashes /\ b.map \in Maps => longer \in Maps
    BY WithFacts
  <2>2. /\ DOMAIN longer = DOMAIN b.map \cup {hash} /\ longer[hash] = cache[hash]
        /\ \A h \in DOMAIN b.map : h # hash => longer[h] = b.map[h]
    <3>. HIDE DEF hash, b
    <3>. QED  BY DEF With
  <2>. QED  BY <1>4, <1>5, <2>1, <2>2
<1>21. c.map = IF hit THEN longer ELSE b.map
  BY <1>3
<1> HIDE DEF longer
<1>8. hit => missing = b.uncached /\ DOMAIN c.map = DOMAIN b.map \cup {hash}
  BY <1>20, <1>21
<1>9. ~hit => DOMAIN c.map = DOMAIN b.map
  BY <1>3
<1>10. {b.hashes[i] : i \in 1..b.next} = {b.hashes[i] : i \in 1..(b.next - 1)} \cup {hash}
  BY <1>4, PrefixGrows
<1>11. DOMAIN c.map \cup ToSet(missing) = {b.hashes[i] : i \in 1..b.next}
  BY <1>4, <1>6, <1>8, <1>9, <1>10
<1>12. c.map \in Maps
  BY <1>4, <1>20, <1>21
<1>13. /\ c.results \in Seq(Answers \cup {Pending}) /\ \A i \in DOMAIN c.results : c.results[i] = Pending
       /\ Len(c.results) = IF last THEN Len(missing) ELSE 0
  <2>1. DOMAIN missing = 1..Len(missing)
    BY <1>7
  <2>2. /\ [i \in 1..Len(missing) |-> Pending] \in Seq(Answers \cup {Pending})
        /\ Len([i \in 1..Len(missing) |-> Pending]) = Len(missing)
    BY <1>7
  <2>3. CASE last
    <3>1. c.results = [i \in 1..Len(missing) |-> Pending]
      BY <1>3, <2>1, <2>3
    <3>2. DOMAIN c.results = 1..Len(missing)
      BY <3>1
    <3>. QED  BY <2>2, <2>3, <3>1, <3>2
  <2>4. CASE ~last
    <3>1. c.results = <<>>
      BY <1>3, <1>4, <2>4
    <3>2. c.results \in Seq(Answers \cup {Pending}) /\ DOMAIN c.results = {} /\ Len(c.results) = 0
      BY <3>1
    <3>. QED  BY <2>4, <3>2
  <2>. QED  BY <2>3, <2>4
<1>14. \A h \in DOMAIN c.map : c.map[h] \notin {Failed, Masked} => TrueIn(events, h, c.map[h], 0)
  <2>1. \A h \in DOMAIN b.map : b.map[h] \notin {Failed, Masked} => TrueIn(events, h, b.map[h], 0)
    BY <1>1, <1>4 DEF Honest, Since
  <2>2. hit /\ cache[hash] # Masked => TrueIn(events, hash, cache[hash], 0)
    BY <1>5 DEF IInv, CacheInv
  <2>. HIDE DEF hit, hash, b, c
  <2>3. CASE hit
    BY <1>20, <1>21, <2>1, <2>2, <2>3
  <2>4. CASE ~hit
    BY <1>21, <2>1, <2>4
  <2>. QED  BY <2>3, <2>4
<1> HIDE DEF b, c, hash, hit, missing, last
<1>15. last => Remaining(c) = ToSet(missing)
  BY <1>3, <1>7, SetOfPrefix DEF Remaining
<1>16. Shape(c)
  <2>1. c.next \in 1..(MaxHashes + 1)
    BY <1>3, <1>4
  <2>2. c.pc \in BatchSteps
    BY <1>3 DEF BatchSteps
  <2>. QED  BY <1>3, <1>4, <1>7, <1>12, <1>13, <2>1, <2>2 DEF Shape
<1>17. Progress(c)
  <2>1. CASE ~last
    <3>1. c.pc = "lookup" /\ c.next = b.next + 1 /\ c.results = <<>> /\ c.fresh = {}
      BY <1>3, <1>4, <2>1
    <3>2. c.next <= Len(c.hashes) /\ Len(c.uncached) < c.next
      BY <1>3, <1>4, <1>7, <2>1, <3>1 DEF last
    <3>3. DOMAIN c.map \cup ToSet(c.uncached) = {c.hashes[i] : i \in 1..(c.next - 1)}
      BY <1>3, <1>4, <1>11, <3>1
    <3>. QED  BY <3>1, <3>2, <3>3 DEF Progress, Fetching
  <2>2. CASE last
    <3>1. DOMAIN c.map \cup ToSet(missing) = ToSet(c.hashes)
      BY <1>3, <1>4, <1>11, <2>2, SetOfPrefix DEF last
    <3>2. CASE missing = <<>>
      <4>1. c.pc = "respond" /\ c.uncached = <<>> /\ ToSet(missing) = {}
        BY <1>3, <2>2, <3>2 DEF ToSet
      <4>2. Len(c.results) = 0
        BY <1>13, <2>2, <3>2
      <4>3. c.results = <<>>
        BY <1>13, <4>2
      <4>. QED  BY <3>1, <4>1, <4>3 DEF Progress, Fetching
    <3>3. CASE missing # <<>>
      <4>1. c.pc \in {"direct", "library"} /\ c.next = 1 /\ c.fresh = {}
        BY <1>3, <1>4, <2>2, <3>3
      <4>2. Len(c.results) = Len(c.uncached) /\ c.next <= Len(c.uncached)
        BY <1>3, <1>7, <1>13, <2>2, <3>3, <4>1
      <4>. QED  BY <1>15, <2>2, <3>1, <4>1, <4>2 DEF Progress, Fetching
    <3>. QED  BY <3>2, <3>3
  <2>. QED  BY <2>1, <2>2
<1>18. Honest(events, c)
  <2>1. \A h : Since(events, c, h) = 0
    BY <1>3, <1>4 DEF Since
  <2>. QED  BY <1>13, <1>14, <2>1 DEF Honest
<1>19. Good(events, batch'[r])
  BY <1>16, <1>17, <1>18 DEF Good, c
<1>. QED  BY <1>2, <1>19, OneMoves DEF IInv

LEMMA BatchFetchKeeps == ASSUME IInv, NEW r \in Requests, BatchFetch(r) PROVE IInv'
<1> DEFINE b == batch[r]
           c == batch'[r]
           asked == ToSet(b.uncached)
<1>1. Shape(b) /\ Progress(b) /\ Honest(events, b)
  BY DEF IInv, Good
<1>2. /\ b.pc = "direct" /\ events' = events /\ cache' = cache /\ DOMAIN batch' = Requests
      /\ \A q \in Requests \ {r} : batch'[q] = batch[q]
  BY DEF BatchFetch, IInv
<1>3. /\ DOMAIN c = Fields /\ c.hashes = b.hashes /\ c.uncached = b.uncached /\ c.fresh = asked
      /\ c.map = b.map /\ c.next = b.next /\ c.pc = "insert"
      /\ c.results = [i \in DOMAIN b.uncached |-> Query(b.uncached[i], asked)]
  BY <1>1, <1>2 DEF BatchFetch, IInv, Shape, Fields
<1>4. History(events) /\ Len(events) \in Nat
  BY EventFacts DEF IInv
<1> HIDE DEF b, c
<1>5. /\ b.uncached \in Seq(Hashes) /\ DOMAIN b.uncached = 1..Len(b.uncached)
      /\ Len(b.uncached) \in Nat /\ Len(b.uncached) <= MaxHashes
      /\ b.next = 1 /\ b.next <= Len(b.uncached) /\ b.fresh \subseteq asked /\ b.map \in Maps
      /\ DOMAIN b.map \cup Remaining(b) = ToSet(b.hashes)
  BY <1>1, <1>2 DEF Shape, Progress, Fetching
<1>6. /\ asked \in SUBSET Hashes /\ Remaining(b) = asked /\ Remaining(c) = Remaining(b)
      /\ \A i \in DOMAIN b.uncached : b.uncached[i] \in asked
  BY <1>3, <1>5, SetOfPrefix DEF Remaining
<1> HIDE DEF asked
<1>7. \A i \in DOMAIN b.uncached : Query(b.uncached[i], asked) \in SUBSET (1..MaxEvents)
  BY <1>4, <1>6, QueryAnswers
<1>8. /\ c.results \in Seq(Answers \cup {Pending}) /\ Len(c.results) = Len(c.uncached)
      /\ \A i \in DOMAIN c.results : c.results[i] # Pending
  <2>1. \A i \in 1..Len(b.uncached) : Query(b.uncached[i], asked) \in Answers \ {Pending}
    BY <1>5, <1>7, AnswersDiffer DEF Answers
  <2>. QED  BY <1>3, <1>5, <2>1
<1>9. Shape(c)
  BY <1>1, <1>3, <1>6, <1>8 DEF Shape, BatchSteps
<1>10. Progress(c)
  <2>1. /\ c.pc = "insert" /\ c.next <= Len(c.uncached) /\ c.fresh \subseteq ToSet(c.uncached)
        /\ DOMAIN c.map \cup Remaining(c) = ToSet(c.hashes)
    BY <1>3, <1>5, <1>6 DEF asked
  <2>. QED  BY <1>8, <2>1 DEF Progress, Fetching
<1>11. ASSUME NEW i \in DOMAIN c.results
       PROVE  TrueIn(events, c.uncached[i], c.results[i], Since(events, c, c.uncached[i]))
  <2>1. i \in DOMAIN b.uncached
    BY <1>3, <1>11
  <2>2. TrueIn(events, b.uncached[i], Query(b.uncached[i], asked),
               IF b.uncached[i] \in AtHome THEN Len(events) ELSE 0)
    BY <1>4, <1>6, <2>1, QueryAnswers
  <2>3. Since(events, c, b.uncached[i]) = IF b.uncached[i] \in AtHome THEN Len(events) ELSE 0
    BY <1>3, <1>6, <2>1 DEF Since
  <2>. QED  BY <1>3, <2>1, <2>2, <2>3
<1>12. ASSUME NEW h \in DOMAIN c.map, c.map[h] \notin {Failed, Masked}
       PROVE  /\ TrueIn(events, h, c.map[h], 0)
              /\ h \notin Remaining(c) => Since(events, c, h) = 0
  <2> DEFINE then == IF h \in Remaining(b) THEN 0 ELSE Since(events, b, h)
  <2>1. TrueIn(events, h, b.map[h], then)
    BY <1>1, <1>3, <1>12 DEF Honest
  <2>2. then \in Nat
    BY <1>4 DEF Since
  <2>. HIDE DEF then
  <2>3. TrueIn(events, h, b.map[h], 0)
    BY <1>4, <2>1, <2>2, TrueSinceEarlier
  <2>. QED  BY <1>3, <1>6, <2>3 DEF Since
<1>13. Honest(events, c)
  BY <1>11, <1>12 DEF Honest
<1>14. Good(events, batch'[r])
  BY <1>9, <1>10, <1>13 DEF Good, c
<1>. QED  BY <1>2, <1>14, OneMoves DEF IInv

LEMMA BatchFetchFailsKeeps == ASSUME IInv, NEW r \in Requests, BatchFetchFails(r) PROVE IInv'
<1> DEFINE b == batch[r]
           c == batch'[r]
<1>1. Shape(b) /\ Progress(b) /\ Honest(events, b)
  BY DEF IInv, Good
<1>2. /\ b.pc = "direct" /\ events' = events /\ cache' = cache /\ DOMAIN batch' = Requests
      /\ \A q \in Requests \ {r} : batch'[q] = batch[q]
  BY DEF BatchFetchFails, IInv
<1>3. /\ DOMAIN c = Fields /\ c.hashes = b.hashes /\ c.uncached = b.uncached /\ c.fresh = b.fresh
      /\ c.map = b.map /\ c.next = b.next /\ c.pc = "library" /\ c.results = b.results
  BY <1>1, <1>2 DEF BatchFetchFails, IInv, Shape, Fields
<1> HIDE DEF b, c
<1>4. Remaining(c) = Remaining(b) /\ \A h : Since(events, c, h) = Since(events, b, h)
  BY <1>3 DEF Remaining, Since
<1>5. Shape(c) /\ Progress(c) /\ Honest(events, c)
  <2>1. Shape(c)
    BY <1>1, <1>3 DEF Shape, BatchSteps
  <2>2. Progress(c)
    BY <1>1, <1>2, <1>3, <1>4 DEF Progress, Fetching
  <2>3. Honest(events, c)
    BY <1>1, <1>3, <1>4 DEF Honest
  <2>. QED  BY <2>1, <2>2, <2>3
<1>6. Good(events, batch'[r])
  BY <1>5 DEF Good, c
<1>. QED  BY <1>2, <1>6, OneMoves DEF IInv

LEMMA LibraryFetchKeeps ==
  ASSUME IInv, NEW r \in Requests, NEW i \in DOMAIN batch[r].uncached, LibraryFetch(r, i)
  PROVE  IInv'
<1> DEFINE b == batch[r]
           c == batch'[r]
           hash == b.uncached[i]
           first == \A j \in DOMAIN b.results : b.uncached[j] = hash => b.results[j] = Pending
           Asked(answer, fresh) ==
             \/ answer = Library(hash) /\ fresh = IF first THEN b.fresh \cup {hash} ELSE b.fresh
             \/ answer \in {Failed, Masked} /\ fresh = b.fresh
<1>1. Shape(b) /\ Progress(b) /\ Honest(events, b)
  BY DEF IInv, Good
<1>2. /\ b.pc = "library" /\ b.results[i] = Pending
      /\ events' = events /\ cache' = cache /\ DOMAIN batch' = Requests
      /\ \A q \in Requests \ {r} : batch'[q] = batch[q]
  BY DEF LibraryFetch, IInv
<1>4. PICK answer, fresh :
         /\ Asked(answer, fresh)
         /\ batch' = [batch EXCEPT ![r].results = [b.results EXCEPT ![i] = answer],
                ![r].fresh = fresh,
                ![r].pc = IF Pending \in Range([b.results EXCEPT ![i] = answer])
                          THEN @ ELSE "insert"]
  BY Zenon DEF LibraryFetch
<1>5. History(events) /\ Len(events) \in Nat
  BY EventFacts DEF IInv
<1>6. i \in DOMAIN b.uncached
  OBVIOUS
<1>7. \/ answer = Library(hash) /\ fresh = (IF first THEN b.fresh \cup {hash} ELSE b.fresh)
      \/ answer \in {Failed, Masked} /\ fresh = b.fresh
  BY <1>4
<1>8. /\ DOMAIN c = Fields /\ c.hashes = b.hashes /\ c.uncached = b.uncached
      /\ c.map = b.map /\ c.next = b.next
      /\ c.results = [b.results EXCEPT ![i] = answer] /\ c.fresh = fresh
      /\ c.pc = IF Pending \in Range(c.results) THEN "library" ELSE "insert"
  <2>1. DOMAIN batch = Requests /\ DOMAIN b = Fields
    BY <1>1 DEF IInv, Shape
  <2>. HIDE DEF Asked, first, hash
  <2>. QED  BY <1>2, <1>4, <2>1 DEF Fields
<1>3. /\ DOMAIN c = Fields /\ c.hashes = b.hashes /\ c.uncached = b.uncached
      /\ c.map = b.map /\ c.next = b.next
  BY <1>8
<1> HIDE DEF b, c, first, Asked
<1>9. /\ b.uncached \in Seq(Hashes) /\ DOMAIN b.uncached = 1..Len(b.uncached)
      /\ Len(b.uncached) \in Nat /\ Len(b.uncached) <= MaxHashes
      /\ b.results \in Seq(Answers \cup {Pending}) /\ Len(b.results) = Len(b.uncached)
      /\ DOMAIN b.results = 1..Len(b.uncached)
      /\ b.next = 1 /\ b.next <= Len(b.uncached) /\ b.fresh \subseteq ToSet(b.uncached)
      /\ DOMAIN b.map \cup Remaining(b) = ToSet(b.hashes)
  BY <1>1, <1>2 DEF Shape, Progress, Fetching
<1>10. hash \in Hashes /\ hash \in ToSet(b.uncached) /\ ToSet(b.uncached) \subseteq Hashes
  BY <1>6, <1>9, SetOfPrefix
<1>11. Remaining(b) = ToSet(b.uncached) /\ Remaining(c) = Remaining(b)
  BY <1>3, <1>9, SetOfPrefix DEF Remaining
<1>12. answer \in Answers /\ answer # Pending
  <2>1. Library(hash) \in SUBSET (1..MaxEvents)
    BY <1>5, <1>10, LibraryFinds
  <2>. HIDE DEF hash
  <2>. QED  BY <1>7, <2>1, AnswersDiffer DEF Answers
<1>13. fresh \subseteq ToSet(b.uncached) /\ (fresh = b.fresh \/ (fresh = b.fresh \cup {hash} /\ first))
  BY <1>7, <1>9, <1>10
<1>14. /\ c.results \in Seq(Answers \cup {Pending}) /\ Len(c.results) = Len(c.uncached)
       /\ DOMAIN c.results = 1..Len(b.uncached) /\ c.results[i] = answer
       /\ \A j \in 1..Len(b.uncached) : j # i => c.results[j] = b.results[j]
  BY <1>3, <1>6, <1>8, <1>9, <1>12
<1>15. Shape(c)
  BY <1>1, <1>3, <1>8, <1>10, <1>13, <1>14 DEF Shape, BatchSteps
<1>16. Progress(c)
  <2>1. /\ c.next = 1 /\ c.next <= Len(c.uncached) /\ c.fresh \subseteq ToSet(c.uncached)
        /\ DOMAIN c.map \cup Remaining(c) = ToSet(c.hashes)
    BY <1>3, <1>8, <1>9, <1>11, <1>13
  <2>2. c.pc = "insert" => \A j \in DOMAIN c.results : c.results[j] # Pending
    BY <1>8 DEF Range
  <2>3. c.pc \in {"library", "insert"}
    BY <1>8
  <2>. QED  BY <1>14, <2>1, <2>2, <2>3 DEF Progress, Fetching
<1>17. ASSUME NEW j \in DOMAIN c.results, c.results[j] \notin {Pending, Failed, Masked}
       PROVE  TrueIn(events, c.uncached[j], c.results[j], Since(events, c, c.uncached[j]))
  <2>1. CASE j = i
    <3>1. answer = Library(hash)
      BY <1>7, <1>14, <1>17, <2>1
    <3>2. TrueIn(events, hash, answer, Len(events))
      BY <1>5, <1>10, <3>1, LibraryFinds
    <3>3. Since(events, c, hash) \in Nat /\ Since(events, c, hash) <= Len(events)
      BY <1>5 DEF Since
    <3>4. TrueIn(events, hash, answer, Since(events, c, hash))
      BY <1>5, <3>2, <3>3, TrueSinceEarlier
    <3>. QED  BY <1>3, <1>14, <2>1, <3>4
  <2>2. CASE j # i
    <3>1. j \in DOMAIN b.results /\ c.results[j] = b.results[j] /\ c.uncached[j] = b.uncached[j]
      BY <1>3, <1>9, <1>14, <1>17, <2>2
    <3>2. fresh # b.fresh => b.uncached[j] # hash
      BY <1>13, <1>17, <3>1 DEF first
    <3>3. Since(events, c, b.uncached[j]) = Since(events, b, b.uncached[j])
      BY <1>8, <1>13, <3>2 DEF Since
    <3>. QED  BY <1>1, <1>17, <3>1, <3>3 DEF Honest
  <2>. QED  BY <2>1, <2>2
<1>18. ASSUME NEW h \in DOMAIN c.map, c.map[h] \notin {Failed, Masked}
       PROVE  TrueIn(events, h, c.map[h], IF h \in Remaining(c) THEN 0 ELSE Since(events, c, h))
  <2>1. Since(events, b, h) = Since(events, c, h) \/ h \in Remaining(c)
    BY <1>8, <1>9, <1>11, <1>13 DEF Since
  <2>. QED  BY <1>1, <1>3, <1>11, <1>18, <2>1 DEF Honest
<1>19. Honest(events, c)
  BY <1>17, <1>18 DEF Honest
<1>20. Good(events, batch'[r])
  BY <1>15, <1>16, <1>19 DEF Good, c
<1>. QED  BY <1>2, <1>20, OneMoves DEF IInv

\* A result goes to the cache and to the map under the hash it was fetched for.
LEMMA InsertKeeps == ASSUME IInv, NEW r \in Requests, Insert(r) PROVE IInv'
<1> DEFINE b == batch[r]
           c == batch'[r]
           hash == b.uncached[b.next]
           answer == b.results[b.next]
           longer == With(b.map, hash, answer)
           more == b.next < Len(b.results)
<1>1. Shape(b) /\ Progress(b) /\ Honest(events, b)
  BY DEF IInv, Good
<1>2. /\ b.pc = "insert" /\ events' = events /\ DOMAIN batch' = Requests
      /\ \A q \in Requests \ {r} : batch'[q] = batch[q]
      /\ cache' = IF answer # Failed THEN [cache EXCEPT ![hash] = answer] ELSE cache
  BY DEF Insert, IInv, HashOfResult, Caches
<1>3. /\ DOMAIN c = Fields /\ c.hashes = b.hashes /\ c.map = longer /\ c.fresh = b.fresh
      /\ more => c.pc = "insert" /\ c.next = b.next + 1
                   /\ c.uncached = b.uncached /\ c.results = b.results
      /\ ~more => c.pc = "respond" /\ c.next = 1 /\ c.uncached = <<>> /\ c.results = <<>>
  <2>1. batch' = [batch EXCEPT ![r] =
                   IF more THEN [b EXCEPT !.next = @ + 1, !.map = longer]
                   ELSE [IdleBatch EXCEPT !.pc = "respond", !.hashes = b.hashes,
                                          !.fresh = b.fresh, !.map = longer]]
    BY DEF Insert, HashOfResult
  <2>2. DOMAIN batch = Requests /\ DOMAIN b = Fields
    BY <1>1 DEF IInv, Shape
  <2>. HIDE DEF longer, more, b
  <2>3. CASE more
    BY <1>2, <2>1, <2>2, <2>3 DEF Fields
  <2>4. CASE ~more
    BY <2>1, <2>2, <2>4 DEF Fields, IdleBatch
  <2>. QED  BY <2>3, <2>4
<1>4. /\ DOMAIN longer = DOMAIN b.map \cup {hash} /\ longer[hash] = answer
      /\ \A h \in DOMAIN b.map : h # hash => longer[h] = b.map[h]
  <2>. HIDE DEF hash, answer, b
  <2>. QED  BY DEF With
<1>5. b.map \in Maps /\ hash \in Hashes /\ answer \in Answers => longer \in Maps
  BY WithFacts
<1>6. more <=> b.next < Len(b.results)
  OBVIOUS
<1>7. History(events) /\ Len(events) \in Nat
  BY EventFacts DEF IInv
<1> HIDE DEF b, c, longer, more
<1>8. /\ b.hashes \in Seq(Hashes) /\ b.map \in Maps
      /\ b.uncached \in Seq(Hashes) /\ DOMAIN b.uncached = 1..Len(b.uncached)
      /\ Len(b.uncached) \in Nat /\ Len(b.uncached) <= MaxHashes
      /\ b.results \in Seq(Answers \cup {Pending}) /\ Len(b.results) = Len(b.uncached)
      /\ DOMAIN b.results = 1..Len(b.uncached)
      /\ b.next \in 1..Len(b.uncached) /\ b.fresh \subseteq ToSet(b.uncached)
      /\ DOMAIN b.map \cup Remaining(b) = ToSet(b.hashes)
      /\ \A i \in DOMAIN b.results : b.results[i] # Pending
  BY <1>1, <1>2 DEF Shape, Progress, Fetching
<1>9. hash \in Hashes /\ answer \in Answers
  BY <1>8
<1>10. Remaining(b) = {b.uncached[i] : i \in (b.next + 1)..Len(b.uncached)} \cup {hash}
  <2>1. \A i : i \in b.next..Len(b.uncached) <=> i \in (b.next + 1)..Len(b.uncached) \/ i = b.next
    BY <1>8
  <2>. QED  BY <2>1 DEF Remaining
<1>11. Remaining(b) = Remaining(c) \cup {hash}
  <2>1. CASE more
    BY <1>3, <1>10, <2>1 DEF Remaining
  <2>2. CASE ~more
    <3>1. (b.next + 1)..Len(b.uncached) = {}
      BY <1>6, <1>8, <2>2
    <3>2. Len(c.uncached) = 0 /\ c.next = 1
      BY <1>3, <2>2
    <3>3. Remaining(c) = {}
      BY <3>2 DEF Remaining
    <3>. QED  BY <1>10, <3>1, <3>3
  <2>. QED  BY <2>1, <2>2
<1>12. DOMAIN longer \cup Remaining(c) = ToSet(b.hashes)
  BY <1>4, <1>8, <1>11
<1>13. answer \notin {Failed, Masked} => TrueIn(events, hash, answer, Since(events, b, hash))
  BY <1>1, <1>8 DEF Honest
<1>14. \A h : Since(events, c, h) = Since(events, b, h) /\ Since(events, b, h) \in Nat
  BY <1>3, <1>7 DEF Since
<1>15. answer \notin {Failed, Masked} => TrueIn(events, hash, answer, 0)
  BY <1>7, <1>13, <1>14, TrueSinceEarlier
<1>16. CacheInv(events, cache')
  <2>. HIDE DEF hash, answer
  <2>1. CacheInv(events, cache)
    BY DEF IInv
  <2>2. cache' \in [Hashes -> (Answers \ {Failed}) \cup {Empty}]
    BY <1>2, <1>9, <2>1 DEF CacheInv
  <2>3. ASSUME NEW h \in Hashes, cache'[h] \notin {Empty, Masked}
        PROVE  TrueIn(events, h, cache'[h], 0)
    <3>1. CASE answer # Failed /\ h = hash
      BY <1>2, <1>15, <2>1, <2>3, <3>1 DEF CacheInv
    <3>2. CASE ~(answer # Failed /\ h = hash)
      BY <1>2, <2>1, <2>3, <3>2 DEF CacheInv
    <3>. QED  BY <3>1, <3>2
  <2>. QED  BY <2>2, <2>3 DEF CacheInv
<1>17. Shape(c)
  <2>1. longer \in Maps
    BY <1>5, <1>8, <1>9
  <2>2. CASE more
    BY <1>1, <1>3, <1>6, <1>8, <2>1, <2>2 DEF Shape, BatchSteps
  <2>3. CASE ~more
    <3>1. /\ c.pc \in BatchSteps /\ c.next \in 1..(MaxHashes + 1)
          /\ c.uncached \in Seq(Hashes) /\ Len(c.uncached) <= MaxHashes
          /\ c.results \in Seq(Answers \cup {Pending})
      <4>1. c.pc \in BatchSteps /\ c.next \in 1..(MaxHashes + 1)
        BY <1>3, <2>3 DEF BatchSteps
      <4>2. c.uncached = <<>> /\ c.results = <<>>
        BY <1>3, <2>3
      <4>3. Len(<<>>) <= MaxHashes /\ <<>> \in Seq(Hashes) /\ <<>> \in Seq(Answers \cup {Pending})
        OBVIOUS
      <4>. QED  BY <4>1, <4>2, <4>3
    <3>. QED  BY <1>1, <1>3, <2>1, <3>1 DEF Shape
  <2>. QED  BY <2>2, <2>3
<1>18. Progress(c)
  <2>1. CASE more
    <3>1. /\ c.pc = "insert" /\ c.results = b.results /\ c.uncached = b.uncached
          /\ c.next <= Len(c.uncached) /\ c.fresh \subseteq ToSet(c.uncached)
          /\ DOMAIN c.map \cup Remaining(c) = ToSet(c.hashes)
      BY <1>3, <1>6, <1>8, <1>12, <2>1
    <3>. QED  BY <1>8, <3>1 DEF Progress, Fetching
  <2>2. CASE ~more
    <3>1. Remaining(c) = {}
      <4>1. Len(c.uncached) = 0 /\ c.next = 1
        BY <1>3, <2>2
      <4>. QED  BY <4>1 DEF Remaining
    <3>2. DOMAIN c.map = ToSet(c.hashes)
      BY <1>3, <1>12, <3>1
    <3>. QED  BY <1>3, <2>2, <3>2 DEF Progress, Fetching
  <2>. QED  BY <2>1, <2>2
<1>19. ASSUME NEW i \in DOMAIN c.results, c.results[i] \notin {Pending, Failed, Masked}
       PROVE  TrueIn(events, c.uncached[i], c.results[i], Since(events, c, c.uncached[i]))
  <2>1. more
    BY <1>3, <1>19
  <2>. QED  BY <1>1, <1>3, <1>14, <1>19, <2>1 DEF Honest
<1>20. ASSUME NEW h \in DOMAIN c.map, c.map[h] \notin {Failed, Masked}
       PROVE  TrueIn(events, h, c.map[h], IF h \in Remaining(c) THEN 0 ELSE Since(events, c, h))
  <2>. HIDE DEF hash, answer
  <2>1. CASE h = hash
    BY <1>3, <1>4, <1>13, <1>14, <1>15, <1>20, <2>1
  <2>2. CASE h # hash
    BY <1>1, <1>3, <1>4, <1>11, <1>14, <1>20, <2>2 DEF Honest
  <2>. QED  BY <2>1, <2>2
<1>21. Honest(events, c)
  BY <1>19, <1>20 DEF Honest
<1>22. Good(events, batch'[r])
  BY <1>17, <1>18, <1>21 DEF Good, c
<1>. QED  BY <1>2, <1>16, <1>22, OneMoves

LEMMA RespondKeeps == ASSUME IInv, NEW r \in Requests, Respond(r) PROVE IInv'
<1>1. /\ events' = events /\ cache' = cache /\ DOMAIN batch' = Requests /\ batch'[r] = IdleBatch
      /\ \A q \in Requests \ {r} : batch'[q] = batch[q]
  BY DEF Respond, IInv
<1>2. Good(events, batch'[r])
  BY <1>1, IdleIsGood
<1>. QED  BY <1>1, <1>2, OneMoves DEF IInv

LEMMA ExpireKeeps == ASSUME IInv, NEW hash \in Hashes, Expire(hash) PROVE IInv'
<1>1. CacheInv(events, cache)
  BY DEF IInv
<1>2. CacheInv(events, cache')
  BY <1>1 DEF Expire, CacheInv
<1>. QED  BY <1>2 DEF Expire, IInv

LEMMA NextIInv == IInv /\ [Next]_vars => IInv'
<1> SUFFICES ASSUME IInv, [Next]_vars PROVE IInv'
  OBVIOUS
<1>1. CASE UNCHANGED vars
  BY <1>1 DEF vars, IInv
<1>2. ASSUME NEW event \in EventInputs, Index(event)  PROVE IInv'
  BY <1>2, IndexKeeps
<1>3. ASSUME NEW r \in Requests, NEW hashes \in BoundedSeq(Hashes, MaxHashes), Start(r, hashes)
      PROVE  IInv'
  BY <1>3, StartKeeps
<1>4. ASSUME NEW r \in Requests, LookUp(r)  PROVE IInv'
  BY <1>4, LookUpKeeps
<1>5. ASSUME NEW r \in Requests, BatchFetch(r)  PROVE IInv'
  BY <1>5, BatchFetchKeeps
<1>6. ASSUME NEW r \in Requests, BatchFetchFails(r)  PROVE IInv'
  BY <1>6, BatchFetchFailsKeeps
<1>7. ASSUME NEW r \in Requests, NEW i \in DOMAIN batch[r].uncached, LibraryFetch(r, i)
      PROVE  IInv'
  BY <1>7, LibraryFetchKeeps
<1>8. ASSUME NEW r \in Requests, Insert(r)  PROVE IInv'
  BY <1>8, InsertKeeps
<1>9. ASSUME NEW r \in Requests, Respond(r)  PROVE IInv'
  BY <1>9, RespondKeeps
<1>10. ASSUME NEW hash \in Hashes, Expire(hash)  PROVE IInv'
  BY <1>10, ExpireKeeps
<1>. QED
  BY <1>1, <1>2, <1>3, <1>4, <1>5, <1>6, <1>7, <1>8, <1>9, <1>10 DEF Next

\* Over every history, with any orders and requests: the inductive invariant.
LEMMA Inductive == Spec => []IInv
BY InitIInv, NextIInv, PTL DEF Spec

-----------------------------------------------------------------------------
\* What IInv says.

LEMMA TrueAsIn ==
  ASSUME OwnNonces, NEW hash, NEW answer, NEW then
  PROVE  TrueIn(events, hash, answer, then) <=> True(hash, answer, then)
BY DEF TrueIn, True, TradesIn, TradesOf

LEMMA TypeFollows == IInv => TypeOK
<1> SUFFICES ASSUME IInv, NEW r \in Requests
             PROVE  /\ events \in Seq(EventInputs) /\ cache \in [Hashes -> Answers \cup {Empty}]
                    /\ LET b == batch[r]
                       IN  /\ b.pc \in BatchSteps
                           /\ {b.hashes, b.uncached} \subseteq Seq(Hashes)
                           /\ b.results \in Seq(Answers \cup {Pending})
                           /\ DOMAIN b.map \subseteq ToSet(b.hashes)
                           /\ b.next \in 1..(MaxHashes + 1) /\ b.fresh \subseteq Hashes
                           /\ b.pc = "respond" => DOMAIN b.map = ToSet(b.hashes)
  BY DEF TypeOK, IInv, History, CacheInv
<1> DEFINE b == batch[r]
<1>1. Shape(b) /\ Progress(b)
  BY DEF IInv, Good
<1>2. events \in Seq(EventInputs) /\ cache \in [Hashes -> Answers \cup {Empty}]
  BY DEF IInv, History, CacheInv
<1> HIDE DEF b
<1>3. DOMAIN b.map \subseteq ToSet(b.hashes)
  <2>1. CASE b.pc = "idle"
    BY <1>1, <2>1, EmptyMap DEF Progress
  <2>2. CASE b.pc = "lookup"
    <3>1. b.hashes \in Seq(Hashes) /\ Len(b.hashes) \in Nat /\ b.next \in 1..Len(b.hashes)
      BY <1>1, <2>2 DEF Shape, Progress
    <3>2. {b.hashes[i] : i \in 1..(b.next - 1)} \subseteq ToSet(b.hashes)
      BY <3>1, SetOfPrefix
    <3>. QED  BY <1>1, <2>2, <3>2 DEF Progress
  <2>3. CASE b.pc \in Fetching \cup {"respond"}
    BY <1>1, <2>3 DEF Progress
  <2>. QED  BY <1>1, <2>1, <2>2, <2>3 DEF Shape, BatchSteps, Fetching
<1>4. b.pc = "respond" => DOMAIN b.map = ToSet(b.hashes)
  BY <1>1 DEF Progress
<1>. QED  BY <1>1, <1>2, <1>3, <1>4 DEF Shape, b

\* TypeOK: whatever is asked and however fetches fail, a request that answers has
\* an entry for every hash it was asked for, and for no other
\* (process_trades_batch).
THEOREM TypeCorrect == Spec => []TypeOK
BY Inductive, TypeFollows, PTL

\* QueryIsExact: the one SQL query of a batch (batch_fetch) finds for each order of
\* its orderbook exactly that order's trades, over every history and whatever else
\* is asked for, if no owner gives two orders one nonce.
THEOREM QueriesAreExact ==
  ASSUME OwnNonces
  PROVE  Spec => []QueryIsExact
<1>1. IInv => QueryIsExact
  <2> SUFFICES ASSUME IInv, NEW r \in Requests, batch[r].pc = "direct",
                      NEW hash \in ToSet(batch[r].uncached) \cap AtHome
               PROVE  Query(hash, ToSet(batch[r].uncached))
                        = {i \in TradesOf(hash, Len(events)) : events[i].readable}
    BY DEF QueryIsExact
  <2>1. History(events) /\ ToSet(batch[r].uncached) \in SUBSET Hashes
    BY SetOfPrefix DEF IInv, Good, Shape
  <2>2. TradesIn(events, hash, Len(events)) = TradesOf(hash, Len(events))
    BY DEF TradesIn, TradesOf
  <2>3. hash \in ToSet(batch[r].uncached) /\ hash \in AtHome
    OBVIOUS
  <2>. QED  BY <2>1, <2>2, <2>3, QueryAnswers
<1>. QED  BY <1>1, Inductive, PTL

\* CacheIsTrue: no interleaving of batches, failures and expiries puts into
\* trades_by_order_hash_cache anything but what the trades of that order were at
\* some moment (or the empty list of a masked lookup).
THEOREM CachesAreTrue ==
  ASSUME OwnNonces
  PROVE  Spec => []CacheIsTrue
<1>1. IInv => CacheIsTrue
  BY TrueAsIn DEF IInv, CacheInv, CacheIsTrue
<1>. QED  BY <1>1, Inductive, PTL

\* ResponsesAreTrue: what a response says of an order was true at some moment, and is
\* true now if it was read after the last event; in whatever order the entries are
\* hits and misses, the results keep to the hashes they were fetched for.
THEOREM BatchesAreTrue ==
  ASSUME OwnNonces
  PROVE  Spec => []ResponsesAreTrue
<1>1. IInv => ResponsesAreTrue
  <2> SUFFICES ASSUME IInv, NEW r \in Requests, batch[r].pc = "respond",
                      NEW i \in DOMAIN batch[r].hashes, First(batch[r], i),
                      batch[r].hashes[i] \in AtHome,
                      Entries(batch[r])[i] \notin {Failed, Masked}
               PROVE  True(batch[r].hashes[i], Entries(batch[r])[i],
                           IF batch[r].hashes[i] \in batch[r].fresh THEN Len(events) ELSE 0)
    BY DEF ResponsesAreTrue
  <2> DEFINE b == batch[r]
             hash == b.hashes[i]
  <2>1. Entries(b)[i] = b.map[hash]
    BY DEF Entries, Entry, First
  <2>2. Shape(b) /\ Progress(b) /\ Honest(events, b)
    BY DEF IInv, Good
  <2>3. DOMAIN b.map = ToSet(b.hashes) /\ b.uncached = <<>> /\ b.next \in Nat \ {0}
    BY <2>2 DEF Progress, Shape
  <2>4. hash \in DOMAIN b.map /\ Remaining(b) = {}
    <3>1. b.hashes \in Seq(Hashes)
      BY <2>2 DEF Shape
    <3>2. hash \in ToSet(b.hashes)
      BY <3>1, SetOfPrefix
    <3>3. b.next..Len(b.uncached) = {}
      BY <2>3
    <3>. QED  BY <2>3, <3>2, <3>3 DEF Remaining
  <2>5. TrueIn(events, hash, b.map[hash], Since(events, b, hash))
    BY <2>1, <2>2, <2>4 DEF Honest
  <2>6. Since(events, b, hash) = IF hash \in b.fresh THEN Len(events) ELSE 0
    BY DEF Since
  <2>. QED  BY <2>1, <2>5, <2>6, TrueAsIn
<1>. QED  BY <1>1, Inductive, PTL
=============================================================================

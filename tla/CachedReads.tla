---------------------------- MODULE CachedReads ----------------------------
(***************************************************************************)
(* Registry composed with the response caches (AppCache, CacheGroup) that  *)
(* PUT /admin/registry must clear.  One key of one cache of each kind:     *)
(*                                                                         *)
(*   outside   the handler takes the read guard first, keeps it over the   *)
(*             whole cache call and fetches from the provider it guards:   *)
(*             orders by owner and by token, trades by address and by      *)
(*             transaction, those of a taker's page included;              *)
(*   list      a taker's transactions: the guard is kept as well, but the  *)
(*             fetch asks the DirectTradesFetcher, which start-up bound to *)
(*             its registry and no PUT replaces;                           *)
(*   inside    the cache call comes first and only the fetch closure takes *)
(*             the read guard: order detail and swap quote.                *)
(*                                                                         *)
(* All go through try_get_with: concurrent misses share one fetch, and     *)
(* its value or its error.  What a fetch returns is stood for by the       *)
(* generation of the provider it is about, 0 for start-up's.  The requests *)
(* are Registry's Handlers, whose guard is now taken and dropped where     *)
(* their code does.  Without a fetcher a taker's answer is empty and no    *)
(* cache is asked; a page is stood for by one transaction or none.         *)
(***************************************************************************)
EXTENDS Registry

CONSTANTS
    Outside, Inside,    \* handlers that keep the guard, and that do not
    Takers,             \* of Outside: those that answer by taker
    Empty, Error        \* no entry; a failed fetch

ASSUME KindsAssumption ==
    Outside \cup Inside = Handlers /\ Outside \cap Inside = {} /\ Takers \subseteq Outside
ASSUME ValuesAssumption == Empty \notin Nat /\ Error \notin Nat /\ Empty # Error

VARIABLES
    cache,      \* the entry of each kind's key
    read        \* per request: its step, the cache it asks, the answer, and
                \* `acked` when it came

allVars == <<vars, cache, read>>
registryVars == vars

Kinds == {"outside", "list", "inside"}

NoRead == [pc |-> "idle", at |-> "outside", value |-> Empty, since |-> 0]
NewRead(kind) == [pc |-> "lookup", at |-> kind, value |-> Empty, since |-> acked]

\* Mutant: all handlers use one cache.
KindOfShared(r) == "outside"

KindOf(r) == read[r].at

\* The provider that a fetch of r is about.
Source(r) == IF KindOf(r) = "list" THEN 0 ELSE generation

\* The request whose fetch the other misses of the key wait for.
Leading == {"guard", "fetch", "insert"}
Leaders(kind) ==
    {r \in Handlers : KindOf(r) = kind /\ read[r].pc \in Leading}
Joiners(kind) ==
    {r \in Handlers : KindOf(r) = kind /\ read[r].pc = "join"}

Step(r, from, to) == read[r].pc = from /\ read' = [read EXCEPT ![r].pc = to]

\* try_get_with: the entry, a fetch of one's own, or a wait for the leader.
Hit(r) ==
    /\ cache[KindOf(r)] # Empty
    /\ read' = [read EXCEPT ![r].pc = "reply", ![r].value = cache[KindOf(r)]]
Miss(r) == cache[KindOf(r)] = Empty /\ Leaders(KindOf(r)) = {}
Join(r) ==
    /\ cache[KindOf(r)] = Empty /\ Leaders(KindOf(r)) # {}
    /\ read' = [read EXCEPT ![r].pc = "join"]

\* The fetch is over: the leader and everyone who joined it have the answer.
Answer(r, value) ==
    read' = [q \in Handlers |->
                IF q = r \/ q \in Joiners(KindOf(r))
                THEN [read[q] EXCEPT !.pc = "reply", !.value = value]
                ELSE read[q]]

Insert(r) ==
    /\ cache' = [cache EXCEPT ![KindOf(r)] = read[r].value]
    /\ Answer(r, read[r].value)

-----------------------------------------------------------------------------
\* Handlers that hold the guard over the cache call.

OutsideStart(r) ==
    /\ read[r] = NoRead
    /\ HandlerStart(r)
    /\ read' = [read EXCEPT ![r] = NewRead(IF r \in Takers THEN "list" ELSE "outside")]
    /\ UNCHANGED cache

OutsideLookup(r) ==
    /\ Reading(lock, r)
    /\ read[r].pc = "lookup"
    /\ \/ Hit(r)
       \/ Join(r)
       \/ Miss(r) /\ read' = [read EXCEPT ![r].pc = "fetch", ![r].value = Source(r)]
    /\ UNCHANGED <<registryVars, cache>>

\* Mutant: the guard is dropped once the data is read, before it is inserted.
OutsideFetchedReleasing(r) ==
    \/ KindOf(r) # "list" /\ HandlerEnd(r) /\ Step(r, "fetch", "insert") /\ UNCHANGED cache
    \/ /\ read[r].pc = (IF KindOf(r) = "list" THEN "fetch" ELSE "insert")
       /\ Insert(r) /\ UNCHANGED registryVars

OutsideFetched(r) ==
    /\ read[r].pc = "fetch"
    /\ Insert(r)
    /\ UNCHANGED registryVars

\* The taker has a list; a transaction of the page is looked up in turn.
TakerGoesOn(r) ==
    /\ read[r].pc = "reply" /\ KindOf(r) = "list" /\ read[r].value # Error
    /\ read' = [read EXCEPT ![r].pc = "lookup", ![r].at = "outside"]
    /\ UNCHANGED <<registryVars, cache>>

\* The response is built and the guard dropped.
OutsideReply(r) ==
    /\ read[r].pc = "reply"
    /\ HandlerEnd(r)
    /\ read' = [read EXCEPT ![r] = NoRead]
    /\ UNCHANGED cache

-----------------------------------------------------------------------------
\* Handlers whose fetch closure takes the guard.

InsideStart(r) ==
    /\ server = "up"
    /\ read[r] = NoRead
    /\ read' = [read EXCEPT ![r] = NewRead("inside")]
    /\ UNCHANGED <<registryVars, cache>>

InsideLookup(r) ==
    /\ read[r].pc = "lookup"
    /\ \/ (Hit(r) \/ Join(r)) /\ UNCHANGED registryVars
       \/ Miss(r) /\ HandlerStart(r) /\ read' = [read EXCEPT ![r].pc = "guard"]
    /\ UNCHANGED cache

InsideFetch(r) ==
    /\ Reading(lock, r)
    /\ read[r].pc = "guard"
    /\ read' = [read EXCEPT ![r].pc = "fetch", ![r].value = Source(r)]
    /\ UNCHANGED <<registryVars, cache>>

\* The closure returns, which drops the guard; the cache inserts afterwards.
InsideFetched(r) ==
    /\ HandlerEnd(r)
    /\ Step(r, "fetch", "insert")
    /\ UNCHANGED cache

InsideInsert(r) ==
    /\ read[r].pc = "insert"
    /\ Insert(r)
    /\ UNCHANGED registryVars

InsideReply(r) ==
    /\ read[r].pc = "reply"
    /\ read' = [read EXCEPT ![r] = NoRead]
    /\ UNCHANGED <<registryVars, cache>>

-----------------------------------------------------------------------------
\* A failed fetch is shared with the joiners and leaves no entry.
FetchFails(r) ==
    /\ read[r].pc = "fetch"
    /\ IF r \in Outside THEN UNCHANGED registryVars ELSE HandlerEnd(r)
    /\ Answer(r, Error)
    /\ UNCHANGED cache

\* The time to live, or the capacity, ends an entry.
Expire(kind) ==
    /\ cache[kind] # Empty
    /\ cache' = [cache EXCEPT ![kind] = Empty]
    /\ UNCHANGED <<registryVars, read>>

\* Mutant: the group forgets one of its caches.
PutInvalidateSome(a) ==
    /\ PutInvalidate(a)
    /\ cache' = [cache EXCEPT !["inside"] = Empty]
    /\ UNCHANGED read

\* CacheGroup::invalidate_all over every registered cache; fetches in flight
\* are not concerned.
PutInvalidateAll(a) ==
    /\ PutInvalidate(a)
    /\ cache' = [kind \in Kinds |-> Empty]
    /\ UNCHANGED read

\* The process ends: the caches and the requests were in its memory.
ExitWithCaches ==
    /\ Exit
    /\ cache' = [kind \in Kinds |-> Empty]
    /\ read' = [r \in Handlers |-> NoRead]

\* The steps of Registry that do not meddle with caches or handlers, the config
\* file being left as it is.
RegistryStep ==
    /\ \/ Boot
       \/ \E a \in Admins :
            \/ \E url \in Urls : PutStart(a, url)
            \/ PutProceeds(a) /\ put[a].pc # "invalidate"
    /\ UNCHANGED <<cache, read>>

ReadProceeds(r) ==
    \/ r \in Outside /\ (\/ OutsideLookup(r) \/ OutsideFetched(r)
                         \/ TakerGoesOn(r) \/ OutsideReply(r))
    \/ r \in Inside /\ (\/ InsideLookup(r) \/ InsideFetch(r) \/ InsideFetched(r)
                        \/ InsideInsert(r) \/ InsideReply(r))
    \/ FetchFails(r)

CachedInit ==
    /\ Init /\ cfgUrl # NoUrl
    /\ cache = [kind \in Kinds |-> Empty]
    /\ read = [r \in Handlers |-> NoRead]

CachedNext ==
    \/ RegistryStep
    \/ ExitWithCaches
    \/ \E a \in Admins : PutInvalidateAll(a)
    \/ \E r \in Outside : OutsideStart(r)
    \/ \E r \in Inside : InsideStart(r)
    \/ \E r \in Handlers : ReadProceeds(r)
    \/ \E kind \in Kinds : Expire(kind)

CachedSpec == CachedInit /\ [][CachedNext]_allVars

\* As in Registry: a request or a PUT in progress goes on, nothing more.
PutGoesOn(a) ==
    \/ PutInvalidateAll(a)
    \/ PutProceeds(a) /\ put[a].pc # "invalidate" /\ UNCHANGED <<cache, read>>
CachedFairSpec ==
    /\ CachedSpec
    /\ \A r \in Handlers : WF_allVars(ReadProceeds(r))
    /\ \A a \in Admins : WF_allVars(PutGoesOn(a))

-----------------------------------------------------------------------------
\* Types; a request that holds or awaits the guard is at a step that needs it,
\* and misses of one key share one fetch.
CachedTypeOK ==
    /\ TypeOK
    /\ cache \in [Kinds -> Nat \cup {Empty}]
    /\ read \in [Handlers ->
            [pc : {"idle", "lookup", "join", "reply"} \cup Leading,
             at : Kinds, value : Nat \cup {Empty, Error}, since : Nat]]
    /\ \A r \in Handlers : handler[r] = "busy" <=>
            IF r \in Outside THEN read[r] # NoRead ELSE read[r].pc \in {"guard", "fetch"}
    /\ \A kind \in Kinds : Cardinality(Leaders(kind)) <= 1

\* A reply is never older than the last PUT that had returned 200 before the
\* request came: after "registry updated and caches invalidated", no new
\* request sees the registry that was replaced.
Fresh(r) ==
    read[r].pc = "reply" /\ read[r].value # Error => read[r].value >= read[r].since

\* It holds where the guard is kept over the cache call and the fetch asks the
\* provider it guards: orders by owner and by token, trades by address and by
\* transaction, those of a taker's page included.  It does not of a taker's list...
OutsideFresh == \A r \in Outside : KindOf(r) = "outside" => Fresh(r)

\* ... and is violated where only the fetch closure takes it.
InsideFresh == \A r \in Inside : Fresh(r)

\* Why it holds: unless some PUT still has its caches to clear, an entry of those
\* caches (not of the cache of takers' lists) comes from the provider in use.
OutsideCacheCurrent ==
    (\A a \in Admins : put[a].pc # "invalidate")
        => cache["outside"] \in {Empty, generation}

\* Every request of any kind is answered, however fetches are shared and
\* PUTs come between.  A joiner that keeps the read guard holds up every writer:
\* the fetch it waits for must have its guard too, or it would queue behind one.
ReadsAnswered == \A r \in Handlers : read[r].pc # "idle" ~> read[r].pc = "idle"
=============================================================================

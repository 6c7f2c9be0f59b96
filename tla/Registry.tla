------------------------------ MODULE Registry ------------------------------
(***************************************************************************)
(* Which registry the service runs on: the registry_url row of the         *)
(* settings table, the URL in the config file, start-up (the Serve arm of  *)
(* main), the RaindexProvider behind its RwLock, PUT /admin/registry, and  *)
(* handlers that hold the read guard while they work.  The process can     *)
(* crash at any step and is started again by systemd.                      *)
(*                                                                         *)
(* A URL stands for the registry it names.  Those in Loadable can be       *)
(* loaded (and may still fail at times: the network); the others never.    *)
(* An empty URL, in the row or in the config, is NoUrl: the code treats    *)
(* it as absent, and PUT refuses it without touching anything.             *)
(***************************************************************************)
EXTENDS Integers, Sequences, FiniteSets, FairRwLock

CONSTANTS
    Urls,           \* registry URLs
    Loadable,       \* those that RaindexProvider::load can load
    NoUrl,
    Admins,         \* requests PUT /admin/registry
    Handlers,       \* requests whose handler holds the read guard
    DbReadFails,    \* whether reading the settings table may fail at start-up
    MaxPuts         \* bound on PUT requests over a behaviour

ASSUME UrlAssumption == Loadable \subseteq Urls /\ NoUrl \notin Urls
ASSUME ProcessAssumption ==
    Admins \cap Handlers = {} /\ Nobody \notin Admins \cup Handlers
ASSUME BoundAssumption == DbReadFails \in BOOLEAN /\ MaxPuts \in Nat

VARIABLES
    dbUrl,          \* settings.registry_url, durable
    cfgUrl,         \* registry_url in the config file
    server,         \* "down", "loading" (start-up) or "up"
    provider,       \* the URL of the RaindexProvider that is managed
    lock,           \* the RwLock around it
    put,            \* what each PUT request is doing, and with which URL
    handler,        \* "idle" or "busy": queued for the guard or holding it
    puts,           \* PUT requests so far
    generation,     \* providers installed by PUT since start-up
    acked,          \* history: the newest generation whose PUT returned 200
    lastPut,        \* history: the last URL a PUT persisted
    unread,         \* history: some start-up could not read the settings table
    unsaved         \* history: this start-up could not save its URL

bootVars == <<cfgUrl, server, unread, unsaved>>
requestVars == <<lock, put, handler>>
putHistory == <<puts, generation, acked, lastPut>>
vars == <<dbUrl, provider, bootVars, requestVars, putHistory>>

NoPut == [pc |-> "idle", url |-> NoUrl, gen |-> 0]

-----------------------------------------------------------------------------
\* The configuration file is edited while the service is down.
EditConfig(url) ==
    /\ server = "down"
    /\ cfgUrl' = url
    /\ UNCHANGED <<dbUrl, server, provider, unread, unsaved, requestVars, putHistory>>

\* Start-up reads the row; a URL found there is used as it is.
BootFromDb ==
    /\ server = "down"
    /\ dbUrl # NoUrl
    /\ server' = "loading" /\ provider' = dbUrl /\ unsaved' = FALSE
    /\ UNCHANGED <<dbUrl, cfgUrl, unread, requestVars, putHistory>>

\* Mutant: the config file is used whatever the row holds.
BootFromConfigAlways ==
    /\ server = "down"
    /\ cfgUrl # NoUrl
    /\ unread' = unread
    /\ \E saved \in BOOLEAN :
        /\ dbUrl' = IF saved THEN cfgUrl ELSE dbUrl
        /\ unsaved' = (dbUrl' # cfgUrl)
    /\ server' = "loading" /\ provider' = cfgUrl
    /\ UNCHANGED <<cfgUrl, requestVars, putHistory>>

\* No row, or a row that could not be read (`.ok().flatten()`): the config's
\* URL is written to the row, and used even if that write fails.
BootFromConfig ==
    /\ server = "down"
    /\ cfgUrl # NoUrl
    /\ dbUrl = NoUrl \/ DbReadFails
    /\ unread' = (unread \/ dbUrl # NoUrl)
    /\ \E saved \in BOOLEAN :
        /\ dbUrl' = IF saved THEN cfgUrl ELSE dbUrl
        /\ unsaved' = (dbUrl' # cfgUrl)
    /\ server' = "loading" /\ provider' = cfgUrl
    /\ UNCHANGED <<cfgUrl, requestVars, putHistory>>

\* RaindexProvider::load and the rest of start-up succeed.
BootLoad ==
    /\ server = "loading"
    /\ provider \in Loadable
    /\ server' = "up"
    /\ generation' = 0 /\ acked' = 0
    /\ UNCHANGED <<dbUrl, cfgUrl, provider, unread, unsaved, requestVars, puts, lastPut>>

\* exit(1) during start-up, or a crash later: requests and memory are gone.
Exit ==
    /\ server # "down"
    /\ server' = "down" /\ provider' = NoUrl
    /\ lock' = Unlocked
    /\ put' = [a \in Admins |-> NoPut]
    /\ handler' = [h \in Handlers |-> "idle"]
    /\ UNCHANGED <<dbUrl, cfgUrl, unread, unsaved, putHistory>>

-----------------------------------------------------------------------------
\* put_registry, one action per await or lock operation.

PutStep(a, from, to) ==
    /\ server = "up"
    /\ put[a].pc = from
    /\ put' = [put EXCEPT ![a].pc = to]
    /\ UNCHANGED <<bootVars, handler>>

PutEnds(a, from) ==
    /\ server = "up"
    /\ put[a].pc = from
    /\ put' = [put EXCEPT ![a] = NoPut]
    /\ UNCHANGED <<bootVars, handler>>

\* The request arrives and asks for the read guard to copy db_path.
PutStart(a, url) ==
    /\ server = "up"
    /\ puts < MaxPuts
    /\ put[a] = NoPut
    /\ put' = [put EXCEPT ![a] = [pc |-> "dbPath", url |-> url, gen |-> 0]]
    /\ puts' = puts + 1
    /\ lock' = Request(lock, a, "read")
    /\ UNCHANGED <<dbUrl, provider, bootVars, handler, generation, acked, lastPut>>

\* Mutant: the read guard outlives its block.
PutCopyDbPathKeepsGuard(a) ==
    /\ Reading(lock, a)
    /\ PutStep(a, "dbPath", "load")
    /\ UNCHANGED <<dbUrl, provider, lock, putHistory>>

PutCopyDbPath(a) ==
    /\ Reading(lock, a)
    /\ PutStep(a, "dbPath", "load")
    /\ lock' = Release(lock, a)
    /\ UNCHANGED <<dbUrl, provider, putHistory>>

\* Mutant: the row is written before the new registry is known to load.
PutLoadPersistsFirst(a) ==
    /\ PutStep(a, "load", "save")
    /\ lock' = Request(lock, a, "write")
    /\ UNCHANGED <<dbUrl, provider, putHistory>>

\* The new provider is built without any guard; then the write guard is asked for.
PutLoad(a) ==
    /\ put[a].url \in Loadable
    /\ PutStep(a, "load", "save")
    /\ lock' = Request(lock, a, "write")
    /\ UNCHANGED <<dbUrl, provider, putHistory>>

PutLoadFails(a) ==
    /\ PutEnds(a, "load")
    /\ UNCHANGED <<dbUrl, provider, lock, putHistory>>

\* Mutant: the row is written before the write guard is granted.
PutSaveUnlocked(a) ==
    /\ PutStep(a, "save", "swap")
    /\ dbUrl' = put[a].url
    /\ lastPut' = put[a].url
    /\ UNCHANGED <<provider, lock, puts, generation, acked>>

\* set_setting, under the write guard.
PutSave(a) ==
    /\ Writing(lock, a)
    /\ PutStep(a, "save", "swap")
    /\ dbUrl' = put[a].url
    /\ lastPut' = put[a].url
    /\ UNCHANGED <<provider, lock, puts, generation, acked>>

\* Mutant: the error path forgets the guard.
PutSaveFailsHoldingGuard(a) ==
    /\ Writing(lock, a)
    /\ PutEnds(a, "save")
    /\ UNCHANGED <<dbUrl, provider, lock, putHistory>>

\* Mutant: the error of set_setting is only logged, and the provider swapped.
PutSaveFailureIgnored(a) ==
    /\ Writing(lock, a)
    /\ PutStep(a, "save", "swap")
    /\ UNCHANGED <<dbUrl, provider, lock, putHistory>>

PutSaveFails(a) ==
    /\ Writing(lock, a)
    /\ PutEnds(a, "save")
    /\ lock' = Release(lock, a)
    /\ UNCHANGED <<dbUrl, provider, putHistory>>

\* `*guard = new_provider; drop(guard)`.
PutSwap(a) ==
    /\ Writing(lock, a)
    /\ server = "up" /\ put[a].pc = "swap"
    /\ put' = [put EXCEPT ![a].pc = "invalidate", ![a].gen = generation + 1]
    /\ provider' = put[a].url
    /\ unsaved' = FALSE
    /\ generation' = generation + 1
    /\ lock' = Release(lock, a)
    /\ UNCHANGED <<dbUrl, cfgUrl, server, unread, handler, puts, acked, lastPut>>

\* registry_caches.invalidate_all() and the 200.
PutInvalidate(a) ==
    /\ PutEnds(a, "invalidate")
    /\ acked' = IF acked < put[a].gen THEN put[a].gen ELSE acked
    /\ UNCHANGED <<dbUrl, provider, lock, puts, generation, lastPut>>

PutProceeds(a) ==
    \/ PutCopyDbPath(a)
    \/ PutLoad(a) \/ PutLoadFails(a)
    \/ PutSave(a) \/ PutSaveFails(a)
    \/ PutSwap(a)
    \/ PutInvalidate(a)

-----------------------------------------------------------------------------
\* Any other handler: the read guard for as long as it works, given back when
\* it returns or panics (todo!() handlers unwind).
HandlerStart(h) ==
    /\ server = "up"
    /\ handler[h] = "idle"
    /\ handler' = [handler EXCEPT ![h] = "busy"]
    /\ lock' = Request(lock, h, "read")
    /\ UNCHANGED <<dbUrl, provider, bootVars, put, putHistory>>

HandlerEnd(h) ==
    /\ Reading(lock, h)
    /\ handler' = [handler EXCEPT ![h] = "idle"]
    /\ lock' = Release(lock, h)
    /\ UNCHANGED <<dbUrl, provider, bootVars, put, putHistory>>

Init ==
    /\ dbUrl = NoUrl /\ cfgUrl \in Urls \cup {NoUrl}
    /\ server = "down" /\ provider = NoUrl
    /\ lock = Unlocked
    /\ put = [a \in Admins |-> NoPut]
    /\ handler = [h \in Handlers |-> "idle"]
    /\ puts = 0 /\ generation = 0 /\ acked = 0
    /\ lastPut = NoUrl /\ unread = FALSE /\ unsaved = FALSE

Boot == BootFromDb \/ BootFromConfig \/ BootLoad

Next ==
    \/ \E url \in Urls \cup {NoUrl} : EditConfig(url)
    \/ Boot
    \/ Exit
    \/ \E a \in Admins : PutProceeds(a) \/ \E url \in Urls : PutStart(a, url)
    \/ \E h \in Handlers : HandlerStart(h) \/ HandlerEnd(h)

\* A request in progress goes on: rx.await, set_setting and the handlers end.
\* Nothing is assumed of crashes, of new requests or of start-up.
Fairness ==
    /\ \A a \in Admins : WF_vars(PutProceeds(a))
    /\ \A h \in Handlers : WF_vars(HandlerEnd(h))

Spec == Init /\ [][Next]_vars
FairSpec == Spec /\ Fairness

-----------------------------------------------------------------------------
Processes == Admins \cup Handlers
Waiting == [who : Processes, mode : {"read", "write"}]
PutStates == {"idle", "dbPath", "load", "save", "swap", "invalidate"}

\* Who holds or awaits a guard is at the step that needs it, and nobody else is.
PutsAt(pcs) == {a \in Admins : put[a].pc \in pcs}
Busy == {h \in Handlers : handler[h] = "busy"}
GuardsMatchSteps ==
    /\ lock.readers \cup Asking(lock, "read") = PutsAt({"dbPath"}) \cup Busy
    /\ Asking(lock, "write") \cup ({lock.writer} \ {Nobody}) = PutsAt({"save", "swap"})
    /\ \A a \in PutsAt({"swap"}) : Writing(lock, a)

\* Types, and the agreement of the RwLock's guards with the requests' steps.
TypeOK ==
    /\ {dbUrl, cfgUrl, provider, lastPut} \subseteq Urls \cup {NoUrl}
    /\ server \in {"down", "loading", "up"}
    /\ lock \in [readers : SUBSET Processes, writer : Processes \cup {Nobody},
                 queue : Seq(Waiting)]
    /\ put \in [Admins -> [pc : PutStates, url : Urls \cup {NoUrl}, gen : Nat]]
    /\ handler \in [Handlers -> {"idle", "busy"}]
    /\ {puts, generation, acked} \subseteq Nat
    /\ {unread, unsaved} \subseteq BOOLEAN
    /\ Exclusive(lock) /\ GuardsMatchSteps

\* While nobody holds the write guard, the registry served is the one a restart
\* would serve (unless this start-up could not save the URL it took).
ServedIsPersisted ==
    server = "up" /\ NoWriter(lock) /\ ~unsaved => provider = dbUrl

\* The URL of the last PUT that persisted one is still there after any number
\* of crashes and restarts, as long as no start-up failed to read the table, and
\* no restart is condemned to fail by it: what PUT leaves can be loaded.
PutSurvivesRestarts ==
    lastPut # NoUrl /\ ~unread => dbUrl = lastPut /\ dbUrl \in Loadable

\* PUT is one atomic switch to whoever looks: from the row's write on, the new
\* registry is what the next holder of a guard gets, or the next start-up if the
\* process ends before the swap; and a handler works with one registry to its end.
Serving ==
    IF server # "up" THEN NoUrl
    ELSE IF \E a \in Admins : put[a].pc = "swap" THEN dbUrl
    ELSE provider
Using == [h \in Handlers |-> IF Reading(lock, h) THEN provider ELSE NoUrl]
Abstract == INSTANCE AtomicRegistry WITH
    stored <- dbUrl, serving <- Serving, using <- Using
SwitchesAtomically == Abstract!Spec

\* Every PUT is answered, under any contention for the lock.
PutAnswered == \A a \in Admins : put[a].pc # "idle" ~> put[a].pc = "idle"

\* Every handler that asks for the read guard gets it and ends, PUTs or not.
HandlerAnswered == \A h \in Handlers : handler[h] = "busy" ~> handler[h] = "idle"

\* A start-up writes the config file's URL only when the settings table holds
\* none (main.rs:250 names the two places, the database first).
StartupKeepsPersistedUrl ==
    [][server' = "loading" /\ dbUrl # NoUrl => dbUrl' = dbUrl]_vars
=============================================================================

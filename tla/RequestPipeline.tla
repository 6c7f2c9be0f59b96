-------------------------- MODULE RequestPipeline --------------------------
(***************************************************************************)
(* What a request passes before and after its handler: the GlobalRateLimit *)
(* guard, AuthenticatedKey (header, key row, secret, per-key limit),       *)
(* AdminKey, the parsing of what it carries, the catchers and responders   *)
(* that make a status of every failure, the response fairings and the      *)
(* usage log, written in a task of its own; next to it the CLI, another    *)
(* process on the same database, that creates, revokes and deletes keys;   *)
(* and crashes of the service.                                             *)
(*                                                                         *)
(* The limiter is RateLimiter's, seen within one window: a count of        *)
(* admissions per scope, of which some may leave the window at any time.   *)
(* A key_id (a random UUID) is a name that is created at most once; the    *)
(* row id is the AUTOINCREMENT number the limiter and the log know it by.  *)
(* Requests are numbered in order of arrival.                              *)
(***************************************************************************)
EXTENDS Integers, FiniteSets, Functions

CONSTANTS
    Names,              \* key_ids
    NoName,             \* no, or unusable, Authorization header
    AdminNames,         \* names of the keys created with --admin
    GlobalLimit,        \* global_rpm and per_key_rpm; 0 turns a limit off
    KeyLimit,
    HandlerErrors,      \* the ApiErrors that handlers end with
    ParseFailures,      \* Rocket's statuses for a path, query or body it cannot parse
    MaxRequests         \* bound on requests over a behaviour

\* ApiError::respond_to
ErrorStatus ==
    [BadRequest |-> 400, Unauthorized |-> 401, Forbidden |-> 403, NotFound |-> 404,
     Internal |-> 500, RateLimited |-> 429, NotYetIndexed |-> 202]

ASSUME NamesAssumption ==
    NoName \notin Names /\ AdminNames \subseteq Names /\ IsFiniteSet(Names)
ASSUME NumbersAssumption == {GlobalLimit, KeyLimit, MaxRequests} \subseteq Nat
ASSUME FailuresAssumption ==
    HandlerErrors \subseteq DOMAIN ErrorStatus /\ ParseFailures \subseteq {400, 404, 413, 422}

VARIABLES
    rows,           \* table api_keys: name -> [id, active]
    lastId,         \* sqlite_sequence: the largest id ever given out
    usage,          \* table usage_logs: set of [request, id, status]
    used,           \* limiter: admissions within the window, per row id
    usedGlobal,
    request,        \* per request number: where it is and what it carries
    jobs,           \* usage rows whose task has been spawned but not run
    lost,           \* history: requests whose usage row failed or crashed
    proven,         \* history: since start-up, requests of a name with a proven secret
    ids             \* history: the id every name ever created was given

database == <<rows, lastId, ids>>
limiter == <<used, usedGlobal>>
vars == <<database, usage, limiter, request, jobs, lost, proven>>

Requests == 1..MaxRequests
Ids == 0..Cardinality(Names)
Routes == {"open", "key", "admin"}      \* /health and paths without a route; most routes; PUT /admin/registry

\* `info` is the CachedRateLimitInfo in the request's local cache, `authId` the
\* AuthKeyId; `row` is the row the lookup returned; `barred` (history) says that
\* the key was revoked or deleted before the request arrived.
NoRow == [id |-> 0, active |-> FALSE]
Absent == [pc |-> "absent", route |-> "open", name |-> NoName, good |-> FALSE, row |-> NoRow,
           info |-> "none", authId |-> 0, status |-> 0, barred |-> FALSE]

Live(name) == name \in DOMAIN rows /\ rows[name].active

Goes(r, from, to) == request[r].pc = from /\ request' = [request EXCEPT ![r].pc = to]
Ends(r, from, status) ==
    /\ request[r].pc = from
    /\ request' = [request EXCEPT ![r].pc = "respond", ![r].status = status]

-----------------------------------------------------------------------------
\* The CLI: each command is one SQL statement.  Commands that touch no row
\* report "not found" and change nothing.

\* Mutant: id without AUTOINCREMENT, one more than the largest id in the table.
NextIdReused == 1 + (IF rows = <<>> THEN 0 ELSE
    CHOOSE i \in {rows[n].id : n \in DOMAIN rows} : \A n \in DOMAIN rows : i >= rows[n].id)
NextId == lastId + 1

CreateKey(name) ==
    /\ name \notin DOMAIN ids
    /\ rows' = [n \in DOMAIN rows \cup {name} |->
                    IF n = name THEN [id |-> NextId, active |-> TRUE] ELSE rows[n]]
    /\ ids' = [n \in DOMAIN ids \cup {name} |-> IF n = name THEN NextId ELSE ids[n]]
    /\ lastId' = NextId
    /\ UNCHANGED <<usage, limiter, request, jobs, lost, proven>>

RevokeKey(name) ==
    /\ name \in DOMAIN rows
    /\ rows' = [rows EXCEPT ![name].active = FALSE]
    /\ UNCHANGED <<lastId, ids, usage, limiter, request, jobs, lost, proven>>

\* ON DELETE CASCADE takes the key's usage rows along.
DeleteKey(name) ==
    /\ name \in DOMAIN rows
    /\ rows' = Restrict(rows, DOMAIN rows \ {name})
    /\ usage' = {u \in usage : u.id # rows[name].id}
    /\ UNCHANGED <<lastId, ids, limiter, request, jobs, lost, proven>>

-----------------------------------------------------------------------------
\* Some name that exists or existed, or nothing usable, with or without its secret.
Arrive(r, route, name, good) ==
    /\ request[r] = Absent
    /\ \A q \in Requests : q < r => request[q] # Absent
    /\ name \in DOMAIN ids \cup {NoName}
    /\ request' = [request EXCEPT ![r] =
            [Absent EXCEPT !.pc = IF route = "open" THEN "handle" ELSE "global",
                           !.route = route, !.name = name, !.good = good,
                           !.barred = ~Live(name)]]
    /\ UNCHANGED <<database, usage, limiter, jobs, lost, proven>>

\* Mutant: the per-key answer does not replace the global one in the cache.
CheckedKeepingInfo(r, count, limit, scope, from, to) ==
    /\ request[r].pc = from
    /\ \/ /\ limit = 0 \/ count < limit
          /\ request' = [request EXCEPT ![r].pc = to,
                            ![r].info = IF limit = 0 \/ @ # "none" THEN @ ELSE scope]
       \/ /\ limit > 0 /\ count >= limit
          /\ request' = [request EXCEPT ![r].pc = "respond", ![r].status = 429,
                            ![r].info = IF @ # "none" THEN @ ELSE scope]

\* Either limiter scope: off, one more admission, or a refusal; `info` follows.
Checked(r, count, limit, scope, from, to) ==
    /\ request[r].pc = from
    /\ \/ /\ limit = 0 \/ count < limit
          /\ request' = [request EXCEPT ![r].pc = to,
                                        ![r].info = IF limit = 0 THEN @ ELSE scope]
       \/ /\ limit > 0 /\ count >= limit
          /\ request' = [request EXCEPT ![r].pc = "respond", ![r].status = 429,
                                        ![r].info = scope]

Admitted(count, limit) == IF limit > 0 /\ count < limit THEN count + 1 ELSE count

GlobalCheck(r) ==
    /\ Checked(r, usedGlobal, GlobalLimit, "global", "global", "header")
    /\ usedGlobal' = Admitted(usedGlobal, GlobalLimit)
    /\ UNCHANGED <<database, usage, used, jobs, lost, proven>>

\* No header, another scheme, bad base64 or UTF-8, no colon: 401 before the database.
\* A header whose seventh byte is inside a character makes the guard panic as it cuts
\* off the scheme, which Rocket answers with 500.
Header(r) ==
    /\ IF request[r].name = NoName
       THEN Ends(r, "header", 401) \/ Ends(r, "header", 500)
       ELSE Goes(r, "header", "lookup")
    /\ UNCHANGED <<database, usage, limiter, jobs, lost, proven>>

\* Mutant: the query forgets `AND active = 1`.
FoundWhateverState(name) == name \in DOMAIN rows
\* WHERE key_id = ? AND active = 1
Found(name) == Live(name)

Lookup(r) ==
    /\ \/ /\ Found(request[r].name)
          /\ request[r].pc = "lookup"
          /\ request' = [request EXCEPT ![r].pc = "verify", ![r].row = rows[request[r].name]]
       \/ ~Found(request[r].name) /\ Ends(r, "lookup", 401)
       \/ Ends(r, "lookup", 500)                      \* the database fails
    /\ UNCHANGED <<database, usage, limiter, jobs, lost, proven>>

\* Argon2, then AuthKeyId in the local cache: the row may have changed by now.
Verify(r) ==
    /\ IF request[r].good
       THEN /\ request[r].pc = "verify"
            /\ request' = [request EXCEPT ![r].pc = "perKey", ![r].authId = request[r].row.id]
            /\ proven' = [proven EXCEPT ![request[r].name] = @ + 1]
       ELSE Ends(r, "verify", 401) /\ UNCHANGED proven
    /\ UNCHANGED <<database, usage, limiter, jobs, lost>>

KeyCheck(r) ==
    LET id == request[r].row.id
    IN  /\ Checked(r, used[id], KeyLimit, "perKey", "perKey",
                   IF request[r].route = "admin" THEN "admin" ELSE "handle")
        /\ used' = [used EXCEPT ![id] = Admitted(@, KeyLimit)]
        /\ UNCHANGED <<database, usage, usedGlobal, jobs, lost, proven>>

\* is_admin is written once, by create, so the row's copy is the name's.
AdminCheck(r) ==
    /\ IF request[r].name \in AdminNames THEN Goes(r, "admin", "handle") ELSE Ends(r, "admin", 403)
    /\ UNCHANGED <<database, usage, limiter, jobs, lost, proven>>

\* A handler behind a guard takes parameters; what it cannot parse goes to a catcher.
ParseFails(r) ==
    /\ request[r].route # "open"
    /\ \E status \in ParseFailures : Ends(r, "handle", status)
    /\ UNCHANGED <<database, usage, limiter, jobs, lost, proven>>

\* The handler runs to its result or to an ApiError; an open route has neither
\* parameters nor errors, but there may be no route at all.
Handle(r) ==
    /\ \/ Ends(r, "handle", 200)
       \/ IF request[r].route = "open" THEN Ends(r, "handle", 404)
          ELSE \E error \in HandlerErrors : Ends(r, "handle", ErrorStatus[error])
    /\ UNCHANGED <<database, usage, limiter, jobs, lost, proven>>

Job(r) == [request |-> r, id |-> request[r].authId, status |-> request[r].status]

\* Mutant: only what succeeded is logged.
LogsSuccessesOnly(r) == IF request[r].authId = 0 \/ request[r].status # 200 THEN {} ELSE {Job(r)}
\* UsageLogger::on_response: a task for every request with an AuthKeyId.
Logs(r) == IF request[r].authId = 0 THEN {} ELSE {Job(r)}

\* Retry-After, set by the catcher of 429 (and by ApiError::RateLimited's responder).
RetryAfter(r) == request[r].status = 429

\* The response leaves with the headers of `info`.
Respond(r) ==
    /\ Goes(r, "respond", "done")
    /\ jobs' = jobs \cup Logs(r)
    /\ UNCHANGED <<database, usage, limiter, lost, proven>>

\* The INSERT succeeds only while the key's row exists (foreign key).
LogUsage(job) ==
    /\ job \in jobs
    /\ \E name \in DOMAIN rows : rows[name].id = job.id
    /\ usage' = usage \cup {job}
    /\ jobs' = jobs \ {job}
    /\ UNCHANGED <<database, limiter, request, lost, proven>>

LogUsageFails(job) ==
    /\ job \in jobs
    /\ jobs' = jobs \ {job}
    /\ lost' = lost \cup {job.request}
    /\ UNCHANGED <<database, usage, limiter, request, proven>>

\* Time passes: an admission leaves its window.
SlideGlobal ==
    /\ usedGlobal > 0
    /\ usedGlobal' = usedGlobal - 1
    /\ UNCHANGED <<database, usage, used, request, jobs, lost, proven>>
SlideKey(id) ==
    /\ used[id] > 0
    /\ used' = [used EXCEPT ![id] = @ - 1]
    /\ UNCHANGED <<database, usage, usedGlobal, request, jobs, lost, proven>>

\* The service ends and is started again: requests in progress are dropped,
\* the limiter forgets, spawned tasks are gone; the database stays.
Restart ==
    /\ used' = [id \in Ids |-> 0] /\ usedGlobal' = 0
    /\ request' = [r \in Requests |->
            IF request[r].pc \in {"absent", "done"} THEN request[r]
            ELSE [Absent EXCEPT !.pc = "dropped"]]
    /\ jobs' = {}
    /\ lost' = lost \cup {job.request : job \in jobs}
    /\ proven' = [name \in Names |-> 0]
    /\ UNCHANGED <<database, usage>>

Init ==
    /\ rows = <<>> /\ ids = <<>> /\ lastId = 0
    /\ usage = {} /\ jobs = {} /\ lost = {}
    /\ used = [id \in Ids |-> 0] /\ usedGlobal = 0
    /\ request = [r \in Requests |-> Absent]
    /\ proven = [name \in Names |-> 0]

Command == \E name \in Names : CreateKey(name) \/ RevokeKey(name) \/ DeleteKey(name)

Proceeds(r) ==
    \/ GlobalCheck(r) \/ Header(r) \/ Lookup(r) \/ Verify(r) \/ KeyCheck(r)
    \/ AdminCheck(r) \/ ParseFails(r) \/ Handle(r) \/ Respond(r)

Next ==
    \/ Command
    \/ \E r \in Requests :
        \/ \E route \in Routes, name \in Names \cup {NoName}, good \in BOOLEAN :
                Arrive(r, route, name, good)
        \/ Proceeds(r)
    \/ \E job \in jobs : LogUsage(job) \/ LogUsageFails(job)
    \/ SlideGlobal \/ \E id \in Ids : SlideKey(id)
    \/ Restart

Spec == Init /\ [][Next]_vars

-----------------------------------------------------------------------------
Statuses == {0, 200, 401, 403, 404, 429, 500} \cup ParseFailures \cup {ErrorStatus[e] : e \in HandlerErrors}
Steps == {"absent", "global", "header", "lookup", "verify", "perKey", "admin", "handle",
          "respond", "done", "dropped"}

\* Types; ids are never shared, and rows carry the id their name was given.
TypeOK ==
    /\ DOMAIN rows \subseteq DOMAIN ids /\ DOMAIN ids \subseteq Names
    /\ rows \in [DOMAIN rows -> [id : 1..lastId, active : BOOLEAN]]
    /\ ids \in [DOMAIN ids -> 1..lastId] /\ lastId \in Ids
    /\ IsInjective(ids) /\ \A name \in DOMAIN rows : rows[name].id = ids[name]
    /\ {usage, jobs} \subseteq SUBSET [request : Requests, id : 1..lastId, status : Statuses \ {0}]
    /\ used \in [Ids -> Nat] /\ usedGlobal \in Nat
    /\ lost \subseteq Requests /\ proven \in [Names -> Nat]
    /\ request \in [Requests -> [pc : Steps, route : Routes, name : Names \cup {NoName},
            good : BOOLEAN, row : [id : Ids, active : BOOLEAN], info : {"none", "global", "perKey"},
            authId : Ids, status : Statuses, barred : BOOLEAN]]

\* A handler behind a key runs only for the right secret of a key that was
\* active when the request arrived ("Revoked keys are rejected at authentication",
\* README.md:79), and an admin handler only for an admin key: whatever the CLI
\* does while the request is on its way.
OnlyEntitledRequestsRun ==
    \A r \in Requests : request[r].pc = "handle" =>
        \/ request[r].route = "open"
        \/ /\ request[r].good /\ ~request[r].barred
           /\ request[r].route = "admin" => request[r].name \in AdminNames

\* A key's window holds only requests that proved that key's secret: nobody
\* else's, in particular not those of guessers and of keys deleted before.
WindowsAreOwn ==
    \A name \in DOMAIN ids : used[ids[name]] <= proven[name]

\* A response tells the limits of the client's own key as soon as its secret is
\* proven, and the global ones only before (rate-limiting.md:16); one that asks the
\* client to come back later tells the limit that refused it.
HeadersAreOwn ==
    \A r \in Requests : request[r].pc = "done" =>
        /\ request[r].authId # 0 => request[r].info = "perKey"
        /\ RetryAfter(r) /\ request[r].authId = 0 => request[r].info = "global"

\* Every response to a proven key, refused or not, is in usage_logs under that
\* key with the status it was sent with, or on its way there, once; unless its key is
\* deleted, the insert failed or the service crashed first.  No other request is ever
\* logged.
UsageIsComplete ==
    /\ usage \cap jobs = {}
    /\ \A r \in Requests :
        LET entries == {u \in usage \cup jobs : u.request = r}
            q == request[r]
        IN  IF q.pc = "done" /\ q.authId # 0 /\ r \notin lost /\ q.name \in DOMAIN rows
            THEN entries = {[request |-> r, id |-> ids[q.name], status |-> q.status]}
            ELSE q.pc # "done" \/ q.authId = 0 => entries = {}
=============================================================================

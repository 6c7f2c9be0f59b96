----------------------- MODULE RequestPipelineProofs -----------------------
(***************************************************************************)
(* Proofs about RequestPipeline, for any keys, limits and requests.        *)
(*                                                                         *)
(* IInv follows a request from one guard to the next: what the row it was  *)
(* given says of the key, what has been proven, and that the CLI cannot    *)
(* make a key live again or give its id to another; and it counts, for     *)
(* each key, the requests between the proof of its secret and its window.  *)
(***************************************************************************)
EXTENDS RequestPipeline, FiniteSetTheorems, TLAPS

Records ==
    [pc : Steps, route : Routes, name : Names \cup {NoName},
     good : BOOLEAN, row : [id : Ids, active : BOOLEAN], info : {"none", "global", "perKey"},
     authId : Ids, status : Statuses, barred : BOOLEAN]

KeysOK ==
    /\ DOMAIN rows \subseteq DOMAIN ids /\ DOMAIN ids \subseteq Names
    /\ rows \in [DOMAIN rows -> [id : 1..lastId, active : BOOLEAN]]
    /\ ids \in [DOMAIN ids -> 1..lastId] /\ lastId = Cardinality(DOMAIN ids)
    /\ \A n, m \in DOMAIN ids : ids[n] = ids[m] => n = m
    /\ \A n \in DOMAIN rows : rows[n].id = ids[n]

Alive == {name \in DOMAIN rows : rows[name].active}

\* A request, when `given` are the ids and `alive` the active keys.  A key that was
\* not active when the request arrived never is again.
RequestOK(given, alive, b) ==
    /\ b.name \in DOMAIN given \cup {NoName}
    /\ b.barred => b.name \notin alive
    /\ b.authId # 0 =>
        b.name \in DOMAIN given /\ b.authId = given[b.name] /\ b.good /\ ~b.barred
    /\ b.pc \in {"absent", "dropped", "global", "header", "lookup", "verify"} => b.authId = 0
    /\ b.pc = "verify" => b.name \in DOMAIN given /\ b.row.id = given[b.name] /\ ~b.barred
    /\ b.pc = "perKey" => b.authId # 0 /\ b.row.id = b.authId
    /\ b.pc = "admin" => b.authId # 0
    /\ b.pc = "handle" =>
        b.route = "open" \/ (b.authId # 0 /\ (b.route = "admin" => b.name \in AdminNames))
    /\ b.pc \in {"respond", "done"} => b.status # 0
    /\ KeyLimit > 0 /\ b.authId # 0 /\ b.pc # "perKey" => b.info = "perKey"
    /\ b.pc \in {"respond", "done"} /\ b.status = 429 /\ b.authId = 0 => b.info = "global"

RequestsOK ==
    /\ request \in [Requests -> Records]
    /\ \A r \in Requests : RequestOK(ids, Alive, request[r])

\* The requests of a name between Verify and KeyCheck.
AtKey(name) == {r \in Requests : request[r].pc = "perKey" /\ request[r].name = name}

WindowsOK ==
    /\ used \in [Ids -> Nat] /\ usedGlobal \in Nat /\ proven \in [Names -> Nat]
    /\ \A id \in Ids : id > lastId => used[id] = 0
    /\ \A name \in DOMAIN ids : used[ids[name]] + Cardinality(AtKey(name)) <= proven[name]

Answered(r) == request[r].pc = "done" /\ request[r].authId # 0

UsageOK ==
    /\ usage \cap jobs = {} /\ lost \subseteq Requests
    /\ \A u \in usage \cup jobs : u.request \in Requests /\ Answered(u.request) /\ u = Job(u.request)
    /\ \A r \in Requests : Answered(r) /\ r \notin lost /\ request[r].name \in DOMAIN rows =>
            Job(r) \in usage \cup jobs

IInv == KeysOK /\ RequestsOK /\ WindowsOK /\ UsageOK

-----------------------------------------------------------------------------
USE NumbersAssumption

LEMMA IdFacts ==
  ASSUME KeysOK
  PROVE  /\ IsFiniteSet(DOMAIN ids) /\ lastId \in Nat /\ lastId \in Ids
         /\ Cardinality(Names) \in Nat /\ lastId <= Cardinality(Names)
         /\ \A n \in DOMAIN ids :
              ids[n] \in Ids /\ ids[n] \in Nat /\ ids[n] # 0 /\ ids[n] <= lastId /\ n # NoName
<1>1. IsFiniteSet(Names) /\ DOMAIN ids \subseteq Names /\ NoName \notin Names
  BY NamesAssumption DEF KeysOK
<1>2. /\ IsFiniteSet(DOMAIN ids) /\ Cardinality(DOMAIN ids) \in Nat
      /\ Cardinality(Names) \in Nat /\ Cardinality(DOMAIN ids) <= Cardinality(Names)
  BY <1>1, FS_Subset, FS_CardinalityType
<1>3. lastId \in Nat /\ lastId <= Cardinality(Names)
  BY <1>2 DEF KeysOK
<1>4. \A n \in DOMAIN ids : ids[n] \in 1..lastId
  BY DEF KeysOK
<1>. QED  BY <1>1, <1>2, <1>3, <1>4 DEF Ids

LEMMA RequestParts ==
  ASSUME IInv, NEW r \in Requests
  PROVE  request[r] \in Records /\ RequestOK(ids, Alive, request[r])
BY DEF IInv, RequestsOK

LEMMA AtKeyFinite ==
  ASSUME NEW name
  PROVE  IsFiniteSet(AtKey(name)) /\ Cardinality(AtKey(name)) \in Nat
<1>1. IsFiniteSet(Requests)
  BY FS_Interval DEF Requests
<1>2. AtKey(name) \subseteq Requests
  BY DEF AtKey
<1>. QED  BY <1>1, <1>2, FS_Subset, FS_CardinalityType

\* What has not arrived, or was dropped by a restart.
LEMMA AbsentIsOK ==
  /\ Absent \in Records /\ Absent.pc = "absent"
  /\ [Absent EXCEPT !.pc = "dropped"] \in Records
  /\ \A given, alive : /\ RequestOK(given, alive, Absent)
                       /\ RequestOK(given, alive, [Absent EXCEPT !.pc = "dropped"])
<1> DEFINE b == [Absent EXCEPT !.pc = "dropped"]
<1>1. /\ Absent.pc = "absent" /\ Absent.name = NoName /\ Absent.barred = FALSE
      /\ Absent.authId = 0
      /\ b.pc = "dropped" /\ b.name = NoName /\ b.barred = FALSE /\ b.authId = 0
  BY DEF Absent
<1>2. 0 \in Ids
  BY NamesAssumption, FS_CardinalityType DEF Ids
<1>3. Absent \in Records /\ b \in Records
  <2>1. /\ "absent" \in Steps /\ "dropped" \in Steps /\ "open" \in Routes /\ 0 \in Statuses
        /\ NoRow \in [id : Ids, active : BOOLEAN]
    BY <1>2 DEF Steps, Routes, Statuses, NoRow
  <2>2. Absent \in Records
    BY <1>2, <2>1 DEF Absent, Records
  <2>3. b \in Records
    BY <2>1, <2>2 DEF Records
  <2>. QED  BY <2>2, <2>3
<1> HIDE DEF b
<1>4. ASSUME NEW given, NEW alive
      PROVE  RequestOK(given, alive, Absent) /\ RequestOK(given, alive, b)
  BY <1>1 DEF RequestOK
<1>. QED  BY <1>1, <1>3, <1>4 DEF b

LEMMA InitIInv == Init => IInv
<1> SUFFICES ASSUME Init PROVE IInv
  OBVIOUS
<1>0. rows = <<>> /\ ids = <<>> /\ DOMAIN ids = {} /\ DOMAIN rows = {} /\ lastId = 0
  BY DEF Init
<1>1. KeysOK
  BY <1>0, FS_EmptySet DEF KeysOK
<1>3. Absent \in Records /\ RequestOK(ids, Alive, Absent) /\ Absent.pc = "absent"
  BY AbsentIsOK
<1>4. \A r \in Requests : request[r] = Absent
  BY DEF Init
<1>5. RequestsOK
  BY <1>3, <1>4 DEF Init, RequestsOK
<1>6. WindowsOK
  BY <1>0 DEF Init, WindowsOK
<1>7. UsageOK
  BY <1>3, <1>4 DEF Init, UsageOK, Answered
<1>. QED  BY <1>1, <1>5, <1>6, <1>7 DEF IInv

-----------------------------------------------------------------------------
\* A step of one request that leaves the database, the log and the windows alone.
LEMMA OneMoves ==
  ASSUME IInv, NEW r \in Requests, NEW b \in Records, request' = [request EXCEPT ![r] = b],
         RequestOK(ids, Alive, b), UNCHANGED <<database, usage, jobs, lost, proven, used>>,
         usedGlobal' \in Nat,
         request[r].pc \notin {"perKey", "done"}, b.pc \notin {"perKey", "done"}
  PROVE  IInv'
<1>1. KeysOK /\ RequestsOK /\ WindowsOK /\ UsageOK
  BY DEF IInv
<1>2. /\ rows' = rows /\ ids' = ids /\ lastId' = lastId /\ usage' = usage /\ jobs' = jobs
      /\ lost' = lost /\ proven' = proven /\ used' = used
  BY DEF database
<1>3. /\ request' \in [Requests -> Records] /\ request'[r] = b
      /\ \A q \in Requests : q # r => request'[q] = request[q]
  BY <1>1 DEF RequestsOK
<1>4. KeysOK' /\ Alive' = Alive
  BY <1>1, <1>2 DEF KeysOK, Alive
<1>5. RequestsOK'
  BY <1>1, <1>2, <1>3, <1>4 DEF RequestsOK
<1>6. \A name : AtKey(name)' = AtKey(name)
  BY <1>3 DEF AtKey
<1>7. WindowsOK'
  BY <1>1, <1>2, <1>6 DEF WindowsOK
<1>8. \A q \in Requests : (Answered(q)' <=> Answered(q)) /\ (Answered(q) => request'[q] = request[q])
  BY <1>3 DEF Answered
<1>9. UsageOK'
  BY <1>1, <1>2, <1>8 DEF UsageOK, Job
<1>. QED  BY <1>4, <1>5, <1>7, <1>9 DEF IInv

\* A request is refused or served, after which only the response is left.
LEMMA EndsKeeps ==
  ASSUME IInv, NEW r \in Requests, NEW from \in Steps \ {"perKey", "done", "absent", "dropped"},
         NEW status \in Statuses \ {0}, status # 429 \/ request[r].authId # 0,
         Ends(r, from, status), UNCHANGED <<database, usage, limiter, jobs, lost, proven>>
  PROVE  IInv'
<1> DEFINE b == request[r]
           c == [b EXCEPT !.pc = "respond", !.status = status]
<1>1. /\ b \in Records /\ RequestOK(ids, Alive, b) /\ b.pc = from /\ WindowsOK
      /\ DOMAIN request = Requests
  BY RequestParts DEF Ends, IInv, RequestsOK
<1>2. request' = [request EXCEPT ![r] = c]
  BY <1>1 DEF Ends
<1>3. /\ c \in Records /\ c.pc = "respond" /\ c.status = status /\ c.name = b.name
      /\ c.barred = b.barred /\ c.authId = b.authId /\ c.good = b.good /\ c.info = b.info
  BY <1>1 DEF Records, Steps
<1> HIDE DEF c
<1>4. RequestOK(ids, Alive, c)
  BY <1>1, <1>3 DEF RequestOK
<1>5. used' = used /\ usedGlobal' = usedGlobal /\ usedGlobal' \in Nat
  BY <1>1 DEF limiter, WindowsOK
<1>. QED  BY <1>1, <1>2, <1>3, <1>4, <1>5, OneMoves

LEMMA ArriveKeeps ==
  ASSUME IInv, NEW r \in Requests, NEW route \in Routes, NEW name \in Names \cup {NoName},
         NEW good \in BOOLEAN, Arrive(r, route, name, good)
  PROVE  IInv'
<1> DEFINE c == [Absent EXCEPT !.pc = IF route = "open" THEN "handle" ELSE "global",
                               !.route = route, !.name = name, !.good = good,
                               !.barred = ~Live(name)]
<1>1. /\ request[r].pc = "absent" /\ request' = [request EXCEPT ![r] = c]
      /\ name \in DOMAIN ids \cup {NoName}
      /\ UNCHANGED <<database, usage, limiter, jobs, lost, proven>>
  BY AbsentIsOK DEF Arrive
<1>2. Live(name) \in BOOLEAN
  BY DEF Live, IInv, KeysOK
<1>3. /\ c \in Records /\ c.pc = (IF route = "open" THEN "handle" ELSE "global")
      /\ c.route = route /\ c.name = name /\ c.barred = ~Live(name) /\ c.authId = 0
  <2>1. Absent \in Records /\ Absent.authId = 0
    BY AbsentIsOK DEF Absent
  <2>2. PICK to \in Steps : to = IF route = "open" THEN "handle" ELSE "global"
    BY DEF Steps
  <2>3. PICK dead \in BOOLEAN : dead = ~Live(name)
    BY <1>2
  <2>4. c = [Absent EXCEPT !.pc = to, !.route = route, !.name = name, !.good = good, !.barred = dead]
    BY <2>2, <2>3
  <2>. HIDE DEF c
  <2>5. /\ c \in Records /\ c.pc = to /\ c.route = route /\ c.name = name /\ c.barred = dead
        /\ c.authId = 0
    BY <2>1, <2>4 DEF Records
  <2>. QED  BY <2>2, <2>3, <2>5
<1> HIDE DEF c
<1>4. RequestOK(ids, Alive, c)
  BY <1>1, <1>3 DEF RequestOK, Live, Alive
<1>5. used' = used /\ usedGlobal' \in Nat
  BY <1>1 DEF limiter, IInv, WindowsOK
<1>6. c.pc \notin {"perKey", "done"}
  BY <1>3
<1>. QED  BY <1>1, <1>3, <1>4, <1>5, <1>6, OneMoves

\* (A name for the number: the provers treat it as any other status.)
TooMany == 429

LEMMA RefusalUpdates ==
  ASSUME NEW f, NEW r \in DOMAIN f, NEW info
  PROVE  [f EXCEPT ![r].pc = "respond", ![r].status = TooMany, ![r].info = info]
            = [f EXCEPT ![r] = [f[r] EXCEPT !.pc = "respond", !.status = TooMany, !.info = info]]
OBVIOUS

LEMMA RefusedFacts ==
  ASSUME NEW b \in Records, NEW info \in {"none", "global", "perKey"}
  PROVE  LET c == [b EXCEPT !.pc = "respond", !.status = TooMany, !.info = info]
         IN  /\ c \in Records /\ c.pc = "respond" /\ c.status = TooMany /\ c.info = info
             /\ c.name = b.name /\ c.barred = b.barred /\ c.authId = b.authId /\ c.good = b.good
<1>1. TooMany \in Statuses /\ "respond" \in Steps
  BY DEF Statuses, Steps, TooMany
<1>. QED  BY <1>1 DEF Records

LEMMA GlobalCheckKeeps == ASSUME IInv, NEW r \in Requests, GlobalCheck(r) PROVE IInv'
<1> DEFINE b == request[r]
<1>1. /\ b \in Records /\ RequestOK(ids, Alive, b) /\ b.pc = "global" /\ b.authId = 0
      /\ DOMAIN request = Requests
      /\ UNCHANGED <<database, usage, used, jobs, lost, proven>>
  BY RequestParts DEF GlobalCheck, Checked, IInv, RequestsOK, RequestOK
<1>2. usedGlobal' \in Nat
  BY DEF GlobalCheck, Admitted, IInv, WindowsOK
<1>3. CASE request' = [request EXCEPT ![r].pc = "header",
                         ![r].info = IF GlobalLimit = 0 THEN @ ELSE "global"]
  <2> DEFINE c == [b EXCEPT !.pc = "header", !.info = IF GlobalLimit = 0 THEN @ ELSE "global"]
  <2>1. request' = [request EXCEPT ![r] = c]
    BY <1>1, <1>3
  <2>2. /\ c \in Records /\ c.pc = "header" /\ c.name = b.name /\ c.barred = b.barred
        /\ c.authId = 0
    BY <1>1 DEF Records, Steps
  <2>. HIDE DEF c
  <2>3. RequestOK(ids, Alive, c)
    BY <1>1, <2>2 DEF RequestOK
  <2>. QED  BY <1>1, <1>2, <2>1, <2>2, <2>3, OneMoves
<1>4. CASE request' = [request EXCEPT ![r].pc = "respond", ![r].status = TooMany, ![r].info = "global"]
  <2> DEFINE c == [b EXCEPT !.pc = "respond", !.status = TooMany, !.info = "global"]
  <2>1. request' = [request EXCEPT ![r] = c]
    <3>1. r \in DOMAIN request
      BY <1>1
    <3>2. [request EXCEPT ![r].pc = "respond", ![r].status = TooMany, ![r].info = "global"]
            = [request EXCEPT ![r] = c]
      BY <3>1, RefusalUpdates
    <3>. QED  BY <1>4, <3>2
  <2>2. /\ c \in Records /\ c.pc = "respond" /\ c.name = b.name /\ c.barred = b.barred
        /\ c.authId = 0 /\ c.status = TooMany /\ c.info = "global"
    BY <1>1, RefusedFacts
  <2>. HIDE DEF c
  <2>3. RequestOK(ids, Alive, c)
    BY <1>1, <2>2 DEF RequestOK, TooMany
  <2>. QED  BY <1>1, <1>2, <2>1, <2>2, <2>3, OneMoves
<1>. QED  BY <1>3, <1>4 DEF GlobalCheck, Checked, TooMany

LEMMA HeaderKeeps == ASSUME IInv, NEW r \in Requests, Header(r) PROVE IInv'
<1> DEFINE b == request[r]
<1>1. UNCHANGED <<database, usage, limiter, jobs, lost, proven>>
  BY DEF Header
<1>2. ASSUME NEW status \in {401, 500}, Ends(r, "header", status) PROVE IInv'
  <2>1. /\ status \in Statuses \ {0}
        /\ "header" \in Steps \ {"perKey", "done", "absent", "dropped"}
    BY DEF Statuses, Steps
  <2>. QED  BY <1>1, <1>2, <2>1, EndsKeeps
<1>3. CASE Goes(r, "header", "lookup")
  <2> DEFINE c == [b EXCEPT !.pc = "lookup"]
  <2>1. /\ b \in Records /\ RequestOK(ids, Alive, b) /\ b.pc = "header"
        /\ request' = [request EXCEPT ![r] = c]
    BY <1>3, RequestParts DEF Goes, IInv, RequestsOK
  <2>2. /\ c \in Records /\ c.pc = "lookup" /\ c.name = b.name /\ c.barred = b.barred
        /\ c.authId = b.authId
    BY <2>1 DEF Records, Steps
  <2>. HIDE DEF c
  <2>3. RequestOK(ids, Alive, c)
    BY <2>1, <2>2 DEF RequestOK
  <2>4. used' = used /\ usedGlobal' \in Nat
    BY <1>1 DEF limiter, IInv, WindowsOK
  <2>. QED  BY <1>1, <2>1, <2>2, <2>3, <2>4, OneMoves
<1>. QED  BY <1>2, <1>3 DEF Header

LEMMA LookupKeeps == ASSUME IInv, NEW r \in Requests, Lookup(r) PROVE IInv'
<1> DEFINE b == request[r]
<1>1. UNCHANGED <<database, usage, limiter, jobs, lost, proven>>
  BY DEF Lookup
<1>2. CASE Ends(r, "lookup", 401) \/ Ends(r, "lookup", 500)
  <2>1. /\ {401, 500} \subseteq Statuses \ {0}
        /\ "lookup" \in Steps \ {"perKey", "done", "absent", "dropped"}
    BY DEF Statuses, Steps
  <2>. QED  BY <1>1, <1>2, <2>1, EndsKeeps
<1>3. CASE /\ Found(b.name) /\ b.pc = "lookup"
           /\ request' = [request EXCEPT ![r].pc = "verify", ![r].row = rows[b.name]]
  <2> DEFINE c == [b EXCEPT !.pc = "verify", !.row = rows[b.name]]
  <2>1. /\ b \in Records /\ RequestOK(ids, Alive, b) /\ request' = [request EXCEPT ![r] = c]
        /\ KeysOK
    BY <1>3, RequestParts DEF IInv, RequestsOK
  <2>2. /\ b.name \in Alive /\ b.name \in DOMAIN ids /\ rows[b.name].id = ids[b.name]
        /\ rows[b.name] \in [id : Ids, active : BOOLEAN]
    <3>1. b.name \in DOMAIN rows /\ b.name \in Alive
      BY <1>3 DEF Found, Live, Alive
    <3>2. 1..lastId \subseteq Ids
      BY <2>1, IdFacts DEF Ids
    <3>3. rows[b.name] \in [id : 1..lastId, active : BOOLEAN]
      BY <2>1, <3>1 DEF KeysOK
    <3>. QED  BY <2>1, <3>1, <3>2, <3>3 DEF KeysOK
  <2>3. /\ c \in Records /\ c.pc = "verify" /\ c.name = b.name /\ c.barred = b.barred
        /\ c.authId = b.authId /\ c.row.id = ids[b.name]
    BY <2>1, <2>2 DEF Records, Steps
  <2>. HIDE DEF c
  <2>4. RequestOK(ids, Alive, c)
    BY <1>3, <2>1, <2>2, <2>3 DEF RequestOK
  <2>5. used' = used /\ usedGlobal' \in Nat
    BY <1>1 DEF limiter, IInv, WindowsOK
  <2>. QED  BY <1>1, <1>3, <2>1, <2>3, <2>4, <2>5, OneMoves
<1>. QED  BY <1>2, <1>3 DEF Lookup

LEMMA AdminCheckKeeps == ASSUME IInv, NEW r \in Requests, AdminCheck(r) PROVE IInv'
<1> DEFINE b == request[r]
<1>1. UNCHANGED <<database, usage, limiter, jobs, lost, proven>>
  BY DEF AdminCheck
<1>2. CASE Ends(r, "admin", 403)
  <2>1. 403 \in Statuses \ {0} /\ "admin" \in Steps \ {"perKey", "done", "absent", "dropped"}
    BY DEF Statuses, Steps
  <2>. QED  BY <1>1, <1>2, <2>1, EndsKeeps
<1>3. CASE b.name \in AdminNames /\ Goes(r, "admin", "handle")
  <2> DEFINE c == [b EXCEPT !.pc = "handle"]
  <2>1. /\ b \in Records /\ RequestOK(ids, Alive, b) /\ b.pc = "admin"
        /\ request' = [request EXCEPT ![r] = c]
    BY <1>3, RequestParts DEF Goes, IInv, RequestsOK
  <2>2. /\ c \in Records /\ c.pc = "handle" /\ c.name = b.name /\ c.barred = b.barred
        /\ c.authId = b.authId /\ c.good = b.good /\ c.info = b.info
    BY <2>1 DEF Records, Steps
  <2>. HIDE DEF c
  <2>3. RequestOK(ids, Alive, c)
    BY <1>3, <2>1, <2>2 DEF RequestOK
  <2>4. used' = used /\ usedGlobal' \in Nat
    BY <1>1 DEF limiter, IInv, WindowsOK
  <2>. QED  BY <1>1, <2>1, <2>2, <2>3, <2>4, OneMoves
<1>. QED  BY <1>2, <1>3 DEF AdminCheck

\* Only a request whose key is known can fail in a handler, or fail to be parsed.
LEMMA HandleKeeps == ASSUME IInv, NEW r \in Requests, Handle(r) \/ ParseFails(r) PROVE IInv'
<1>1. UNCHANGED <<database, usage, limiter, jobs, lost, proven>>
  BY DEF Handle, ParseFails
<1>2. "handle" \in Steps \ {"perKey", "done", "absent", "dropped"}
  BY DEF Steps
<1>3. PICK status : /\ Ends(r, "handle", status)
                    /\ \/ status \in {200, 404}
                       \/ /\ request[r].route # "open"
                          /\ status \in ParseFailures \cup {ErrorStatus[e] : e \in HandlerErrors}
  BY DEF Handle, ParseFails
<1>4. status \in Statuses \ {0}
  <2>1. \A e \in HandlerErrors : ErrorStatus[e] # 0
    BY FailuresAssumption DEF ErrorStatus
  <2>. QED  BY <1>3, <2>1, FailuresAssumption DEF Statuses
<1>5. status # 429 \/ request[r].authId # 0
  BY <1>3, RequestParts DEF Ends, RequestOK
<1>. QED  BY <1>1, <1>2, <1>3, <1>4, <1>5, EndsKeeps

-----------------------------------------------------------------------------
\* From the proof of the secret to the key's window, and into the log.

LEMMA VerifyKeeps == ASSUME IInv, NEW r \in Requests, Verify(r) PROVE IInv'
<1> DEFINE b == request[r]
           c == [b EXCEPT !.pc = "perKey", !.authId = b.row.id]
<1>1. CASE Ends(r, "verify", 401) /\ UNCHANGED proven
  <2>1. 401 \in Statuses \ {0} /\ "verify" \in Steps \ {"perKey", "done", "absent", "dropped"}
    BY DEF Statuses, Steps
  <2>. QED  BY <1>1, <2>1, EndsKeeps DEF Verify
<1>2. CASE /\ b.good /\ b.pc = "verify" /\ request' = [request EXCEPT ![r] = c]
           /\ proven' = [proven EXCEPT ![b.name] = @ + 1]
  <2>1. KeysOK /\ RequestsOK /\ WindowsOK /\ UsageOK
    BY DEF IInv
  <2>2. /\ rows' = rows /\ ids' = ids /\ lastId' = lastId /\ usage' = usage /\ jobs' = jobs
        /\ lost' = lost /\ used' = used /\ usedGlobal' = usedGlobal
    BY DEF Verify, database, limiter
  <2>3. /\ b \in Records /\ RequestOK(ids, Alive, b) /\ b.name \in DOMAIN ids /\ b.name \in Names
        /\ b.row.id = ids[b.name] /\ ~b.barred /\ ids[b.name] \in Ids /\ ids[b.name] # 0
    BY <1>2, <2>1, RequestParts, IdFacts DEF RequestOK, KeysOK
  <2>4. /\ c \in Records /\ c.pc = "perKey" /\ c.name = b.name /\ c.barred = b.barred
        /\ c.authId = ids[b.name] /\ c.good = b.good /\ c.row = b.row
    BY <2>3 DEF Records, Steps
  <2>5. request'[r] = c /\ \A q \in Requests : q # r => request'[q] = request[q]
    BY <1>2, <2>1 DEF RequestsOK
  <2>. HIDE DEF c
  <2>6. RequestOK(ids, Alive, c)
    BY <1>2, <2>3, <2>4 DEF RequestOK
  <2>7. KeysOK' /\ Alive' = Alive
    BY <2>1, <2>2 DEF KeysOK, Alive
  <2>8. RequestsOK'
    BY <1>2, <2>1, <2>2, <2>4, <2>5, <2>6, <2>7 DEF RequestsOK
  <2>9. PICK key \in Names : key = b.name
    BY <2>3
  <2>10. /\ AtKey(key)' = AtKey(key) \cup {r} /\ r \notin AtKey(key)
         /\ \A name : name # key => AtKey(name)' = AtKey(name)
    BY <1>2, <2>4, <2>5, <2>9 DEF AtKey
  <2>11. Cardinality(AtKey(key)') = Cardinality(AtKey(key)) + 1
    BY <2>10, AtKeyFinite, FS_AddElement
  <2>12. WindowsOK'
    <3>1. /\ proven' \in [Names -> Nat] /\ proven'[key] = proven[key] + 1
          /\ \A name \in Names : name # key => proven'[name] = proven[name]
      <4>1. proven \in [Names -> Nat] /\ proven' = [proven EXCEPT ![key] = @ + 1]
        BY <1>2, <2>1, <2>9 DEF WindowsOK
      <4>. QED  BY <4>1
    <3>2. ASSUME NEW name \in DOMAIN ids
          PROVE  used[ids[name]] + Cardinality(AtKey(name)') <= proven'[name]
      <4>1. /\ used[ids[name]] \in Nat /\ name \in Names /\ Cardinality(AtKey(name)) \in Nat
            /\ used[ids[name]] + Cardinality(AtKey(name)) <= proven[name] /\ proven[name] \in Nat
        BY <2>1, IdFacts, AtKeyFinite DEF WindowsOK, KeysOK
      <4>2. CASE name = key
        BY <2>11, <3>1, <4>1, <4>2
      <4>3. CASE name # key
        BY <2>10, <3>1, <4>1, <4>3
      <4>. QED  BY <4>2, <4>3
    <3>. QED  BY <2>1, <2>2, <3>1, <3>2 DEF WindowsOK
  <2>13. \A q \in Requests : /\ Answered(q)' <=> Answered(q)
                             /\ Answered(q) => request'[q] = request[q]
    BY <1>2, <2>4, <2>5 DEF Answered
  <2>14. UsageOK'
    BY <2>1, <2>2, <2>13 DEF UsageOK, Job
  <2>. QED  BY <2>7, <2>8, <2>12, <2>14 DEF IInv
<1>3. request' = [request EXCEPT ![r].pc = "perKey", ![r].authId = b.row.id]
         => request' = [request EXCEPT ![r] = c]
  BY DEF IInv, RequestsOK
<1>. QED  BY <1>1, <1>2, <1>3 DEF Verify

\* At its window: admitted or not, a request leaves AtKey and adds at most one admission.
LEMMA LeavesKey ==
  ASSUME IInv, NEW r \in Requests, request[r].pc = "perKey", NEW c \in Records,
         RequestOK(ids, Alive, c), c.pc \notin {"perKey", "done"},
         request' = [request EXCEPT ![r] = c],
         UNCHANGED <<database, usage, usedGlobal, jobs, lost, proven>>,
         NEW n \in {used[request[r].row.id], used[request[r].row.id] + 1},
         used' = [used EXCEPT ![request[r].row.id] = n]
  PROVE  IInv'
<1> DEFINE b == request[r]
<1>1. KeysOK /\ RequestsOK /\ WindowsOK /\ UsageOK
  BY DEF IInv
<1>2. /\ rows' = rows /\ ids' = ids /\ lastId' = lastId /\ usage' = usage /\ jobs' = jobs
      /\ lost' = lost /\ proven' = proven /\ usedGlobal' = usedGlobal
  BY DEF database
<1>3. /\ b.name \in DOMAIN ids /\ b.row.id = ids[b.name] /\ ids[b.name] \in Ids
      /\ ids[b.name] <= lastId /\ ids[b.name] \in Nat /\ lastId \in Nat
  BY <1>1, RequestParts, IdFacts DEF RequestOK
<1>4. request'[r] = c /\ \A q \in Requests : q # r => request'[q] = request[q]
  BY <1>1 DEF RequestsOK
<1>5. KeysOK' /\ Alive' = Alive
  BY <1>1, <1>2 DEF KeysOK, Alive
<1>6. RequestsOK'
  BY <1>1, <1>2, <1>4, <1>5 DEF RequestsOK
<1>7. PICK key \in DOMAIN ids : key = b.name
  BY <1>3
<1>8. /\ AtKey(key)' = AtKey(key) \ {r} /\ r \in AtKey(key)
      /\ \A name : name # key => AtKey(name)' = AtKey(name)
  BY <1>4, <1>7 DEF AtKey
<1>9. Cardinality(AtKey(key)') = Cardinality(AtKey(key)) - 1
  BY <1>8, AtKeyFinite, FS_RemoveElement
<1>10. WindowsOK'
  <2>1. used' \in [Ids -> Nat] /\ \A id \in Ids : id > lastId => used'[id] = 0
    BY <1>1, <1>3 DEF WindowsOK, Ids
  <2>2. ASSUME NEW name \in DOMAIN ids
        PROVE  used'[ids[name]] + Cardinality(AtKey(name)') <= proven[name]
    <3>1. /\ ids[name] \in Ids /\ used[ids[name]] \in Nat /\ Cardinality(AtKey(name)) \in Nat
          /\ used[ids[name]] + Cardinality(AtKey(name)) <= proven[name] /\ proven[name] \in Nat
      BY <1>1, IdFacts, AtKeyFinite DEF WindowsOK, KeysOK
    <3>2. CASE name = key
      <4>1. used'[ids[name]] \in {used[ids[name]], used[ids[name]] + 1}
        BY <1>1, <1>3, <1>7, <3>1, <3>2 DEF WindowsOK
      <4>. QED  BY <1>9, <3>1, <3>2, <4>1
    <3>3. CASE name # key
      <4>1. ids[name] # b.row.id
        BY <1>1, <1>3, <1>7, <3>3 DEF KeysOK
      <4>2. used'[ids[name]] = used[ids[name]]
        BY <1>1, <1>3, <3>1, <4>1 DEF WindowsOK
      <4>. QED  BY <1>8, <3>1, <3>3, <4>2
    <3>. QED  BY <3>2, <3>3
  <2>. QED  BY <1>1, <1>2, <2>1, <2>2 DEF WindowsOK
<1>11. \A q \in Requests : (Answered(q)' <=> Answered(q)) /\ (Answered(q) => request'[q] = request[q])
  BY <1>4 DEF Answered
<1>12. UsageOK'
  BY <1>1, <1>2, <1>11 DEF UsageOK, Job
<1>. QED  BY <1>5, <1>6, <1>10, <1>12 DEF IInv

LEMMA KeyCheckKeeps == ASSUME IInv, NEW r \in Requests, KeyCheck(r) PROVE IInv'
<1> DEFINE b == request[r]
           to == IF b.route = "admin" THEN "admin" ELSE "handle"
<1>1. /\ b \in Records /\ RequestOK(ids, Alive, b) /\ b.pc = "perKey" /\ b.authId # 0
      /\ DOMAIN request = Requests
      /\ UNCHANGED <<database, usage, usedGlobal, jobs, lost, proven>>
  BY RequestParts DEF KeyCheck, Checked, IInv, RequestsOK, RequestOK
<1>2. b.row.id \in Ids /\ used \in [Ids -> Nat]
  BY <1>1, IdFacts DEF Records, IInv, WindowsOK
<1>3. PICK n \in {used[b.row.id], used[b.row.id] + 1} : used' = [used EXCEPT ![b.row.id] = n]
  BY <1>2 DEF KeyCheck, Admitted
<1>4. CASE request' = [request EXCEPT ![r].pc = to, ![r].info = IF KeyLimit = 0 THEN @ ELSE "perKey"]
  <2> DEFINE c == [b EXCEPT !.pc = to, !.info = IF KeyLimit = 0 THEN @ ELSE "perKey"]
  <2>1. request' = [request EXCEPT ![r] = c]
    BY <1>1, <1>4
  <2>2. /\ c \in Records /\ c.pc = to /\ c.name = b.name /\ c.barred = b.barred
        /\ c.authId = b.authId /\ c.good = b.good /\ c.route = b.route
        /\ c.info = IF KeyLimit = 0 THEN b.info ELSE "perKey"
    BY <1>1 DEF Records, Steps
  <2>3. to \in {"admin", "handle"} /\ (to = "handle" => b.route # "admin")
    OBVIOUS
  <2>. HIDE DEF c, to
  <2>4. RequestOK(ids, Alive, c)
    BY <1>1, <2>2, <2>3 DEF RequestOK
  <2>5. c.pc \notin {"perKey", "done"}
    BY <2>2, <2>3
  <2>. QED  BY <1>1, <1>3, <2>1, <2>2, <2>4, <2>5, LeavesKey
<1>5. CASE request' = [request EXCEPT ![r].pc = "respond", ![r].status = TooMany, ![r].info = "perKey"]
  <2> DEFINE c == [b EXCEPT !.pc = "respond", !.status = TooMany, !.info = "perKey"]
  <2>1. request' = [request EXCEPT ![r] = c]
    <3>1. r \in DOMAIN request
      BY <1>1
    <3>2. [request EXCEPT ![r].pc = "respond", ![r].status = TooMany, ![r].info = "perKey"]
            = [request EXCEPT ![r] = c]
      BY <3>1, RefusalUpdates
    <3>. QED  BY <1>5, <3>2
  <2>2. /\ c \in Records /\ c.pc = "respond" /\ c.name = b.name /\ c.barred = b.barred
        /\ c.authId = b.authId /\ c.status = TooMany /\ c.info = "perKey" /\ c.good = b.good
    BY <1>1, RefusedFacts
  <2>. HIDE DEF c
  <2>3. RequestOK(ids, Alive, c)
    BY <1>1, <2>2 DEF RequestOK, TooMany
  <2>. QED  BY <1>1, <1>3, <2>1, <2>2, <2>3, LeavesKey
<1>. QED  BY <1>4, <1>5 DEF KeyCheck, Checked, TooMany

\* The response leaves, and its row is on its way to the log.
LEMMA RespondKeeps == ASSUME IInv, NEW r \in Requests, Respond(r) PROVE IInv'
<1> DEFINE b == request[r]
           c == [b EXCEPT !.pc = "done"]
<1>1. KeysOK /\ RequestsOK /\ WindowsOK /\ UsageOK
  BY DEF IInv
<1>2. /\ rows' = rows /\ ids' = ids /\ lastId' = lastId /\ usage' = usage /\ used' = used
      /\ lost' = lost /\ proven' = proven /\ usedGlobal' = usedGlobal
      /\ jobs' = jobs \cup Logs(r) /\ b.pc = "respond"
  BY DEF Respond, Goes, database, limiter
<1>3. b \in Records /\ RequestOK(ids, Alive, b) /\ request' = [request EXCEPT ![r] = c]
  BY <1>1, RequestParts DEF Respond, Goes, RequestsOK
<1>4. /\ c \in Records /\ c.pc = "done" /\ c.name = b.name /\ c.barred = b.barred
      /\ c.authId = b.authId /\ c.good = b.good /\ c.info = b.info /\ c.status = b.status
  BY <1>3 DEF Records, Steps
<1>5. request'[r] = c /\ \A q \in Requests : q # r => request'[q] = request[q]
  BY <1>1, <1>3 DEF RequestsOK
<1> HIDE DEF c
<1>6. RequestOK(ids, Alive, c)
  BY <1>2, <1>3, <1>4 DEF RequestOK
<1>7. KeysOK' /\ Alive' = Alive
  BY <1>1, <1>2 DEF KeysOK, Alive
<1>8. RequestsOK'
  BY <1>1, <1>2, <1>3, <1>4, <1>5, <1>6, <1>7 DEF RequestsOK
<1>9. \A name : AtKey(name)' = AtKey(name)
  BY <1>2, <1>4, <1>5 DEF AtKey
<1>10. WindowsOK'
  BY <1>1, <1>2, <1>9 DEF WindowsOK
<1>11. \A q \in Requests : Job(q)' = Job(q)
  BY <1>4, <1>5 DEF Job
<1>12. /\ \A q \in Requests : q # r => (Answered(q)' <=> Answered(q))
       /\ ~Answered(r) /\ (Answered(r)' <=> b.authId # 0)
  BY <1>2, <1>4, <1>5 DEF Answered
<1>13. Logs(r) = IF b.authId = 0 THEN {} ELSE {Job(r)}
  BY DEF Logs
<1>14. Job(r).request = r /\ \A u \in usage \cup jobs : u.request # r
  BY <1>1, <1>12 DEF UsageOK, Job
<1>15. UsageOK'
  <2>1. usage' \cap jobs' = {} /\ lost' \subseteq Requests
    BY <1>1, <1>2, <1>13, <1>14 DEF UsageOK
  <2>2. ASSUME NEW u \in usage' \cup jobs'
        PROVE  u.request \in Requests /\ Answered(u.request)' /\ u = Job(u.request)'
    <3>1. CASE u \in usage \cup jobs
      BY <1>1, <1>11, <1>12, <3>1 DEF UsageOK
    <3>2. CASE u = Job(r) /\ b.authId # 0
      BY <1>11, <1>12, <1>14, <3>2
    <3>. QED  BY <1>2, <1>13, <2>2, <3>1, <3>2
  <2>3. ASSUME NEW q \in Requests, Answered(q)', q \notin lost, request'[q].name \in DOMAIN rows
        PROVE  Job(q)' \in usage' \cup jobs'
    <3>1. CASE q = r
      BY <1>2, <1>11, <1>12, <1>13, <2>3, <3>1
    <3>2. CASE q # r
      BY <1>1, <1>2, <1>5, <1>11, <1>12, <2>3, <3>2 DEF UsageOK
    <3>. QED  BY <3>1, <3>2
  <2>. QED  BY <1>2, <2>1, <2>2, <2>3 DEF UsageOK
<1>. QED  BY <1>7, <1>8, <1>10, <1>15 DEF IInv

-----------------------------------------------------------------------------
\* The CLI: no command makes a key live that a request may have found dead, or
\* gives the id of one to another.

LEMMA RequestsFollowKeys ==
  ASSUME IInv, KeysOK', UNCHANGED request, DOMAIN ids \subseteq DOMAIN ids',
         \A n \in DOMAIN ids : ids'[n] = ids[n] /\ (n \in Alive' => n \in Alive)
  PROVE  RequestsOK'
<1>1. request' \in [Requests -> Records] /\ DOMAIN rows' \subseteq Names
  BY DEF IInv, RequestsOK, KeysOK
<1>2. ASSUME NEW r \in Requests
      PROVE  RequestOK(ids', Alive', request[r])
  <2>1. RequestOK(ids, Alive, request[r])
    BY RequestParts
  <2>2. NoName \notin Alive'
    BY <1>1, NamesAssumption DEF Alive
  <2>. QED  BY <2>1, <2>2 DEF RequestOK
<1>. QED  BY <1>1, <1>2 DEF RequestsOK

LEMMA CreateKeyKeeps == ASSUME IInv, NEW name \in Names, CreateKey(name) PROVE IInv'
<1>1. KeysOK /\ RequestsOK /\ WindowsOK /\ UsageOK
  BY DEF IInv
<1>2. /\ usage' = usage /\ jobs' = jobs /\ lost' = lost /\ proven' = proven /\ request' = request
      /\ used' = used /\ usedGlobal' = usedGlobal /\ name \notin DOMAIN ids /\ lastId' = lastId + 1
      /\ name \notin DOMAIN rows
  BY <1>1 DEF CreateKey, limiter, NextId, KeysOK
<1>3. /\ DOMAIN rows' = DOMAIN rows \cup {name} /\ rows'[name] = [id |-> lastId', active |-> TRUE]
      /\ \A n \in DOMAIN rows : rows'[n] = rows[n]
      /\ DOMAIN ids' = DOMAIN ids \cup {name} /\ ids'[name] = lastId'
      /\ \A n \in DOMAIN ids : ids'[n] = ids[n]
  BY <1>2 DEF CreateKey, NextId
<1>4. /\ rows' = [n \in DOMAIN rows \cup {name} |-> rows'[n]]
      /\ ids' = [n \in DOMAIN ids \cup {name} |-> ids'[n]]
  BY <1>3 DEF CreateKey
<1>5. lastId \in Nat /\ IsFiniteSet(DOMAIN ids) /\ \A n \in DOMAIN ids : ids[n] <= lastId
  BY <1>1, IdFacts
<1>6. lastId' = Cardinality(DOMAIN ids')
  BY <1>1, <1>2, <1>3, <1>5, FS_AddElement DEF KeysOK
<1>7. KeysOK'
  <2>1. /\ DOMAIN rows' \subseteq DOMAIN ids' /\ DOMAIN ids' \subseteq Names
        /\ \A n \in DOMAIN rows' : rows'[n].id = ids'[n]
    BY <1>1, <1>3 DEF KeysOK
  <2>2. \A n \in DOMAIN rows' : rows'[n] \in [id : 1..lastId', active : BOOLEAN]
    <3>1. 1..lastId \subseteq 1..lastId' /\ lastId' \in 1..lastId'
      BY <1>2, <1>5
    <3>2. \A n \in DOMAIN rows : rows[n] \in [id : 1..lastId, active : BOOLEAN]
      BY <1>1 DEF KeysOK
    <3>3. rows'[name] \in [id : 1..lastId', active : BOOLEAN]
      BY <1>3, <3>1
    <3>4. \A n \in DOMAIN rows : rows'[n] \in [id : 1..lastId', active : BOOLEAN]
      BY <1>3, <3>1, <3>2
    <3>. QED  BY <1>3, <3>3, <3>4
  <2>3. \A n \in DOMAIN ids' : ids'[n] \in 1..lastId'
    BY <1>1, <1>2, <1>3, <1>5 DEF KeysOK
  <2>4. \A n, m \in DOMAIN ids' : ids'[n] = ids'[m] => n = m
    BY <1>1, <1>2, <1>3, <1>5 DEF KeysOK
  <2>5. rows' \in [DOMAIN rows' -> [id : 1..lastId', active : BOOLEAN]]
    BY <1>3, <1>4, <2>2
  <2>6. ids' \in [DOMAIN ids' -> 1..lastId']
    BY <1>3, <1>4, <2>3
  <2>. QED  BY <1>6, <2>1, <2>4, <2>5, <2>6 DEF KeysOK
<1>8. RequestsOK'
  <2>1. \A n \in DOMAIN ids : n \in Alive' => n \in Alive
    BY <1>2, <1>3 DEF Alive
  <2>. QED  BY <1>2, <1>3, <1>7, <2>1, RequestsFollowKeys
<1>9. \A n : AtKey(n)' = AtKey(n)
  BY <1>2 DEF AtKey
<1>10. \A r \in Requests : request[r].authId # 0 => request[r].name \in DOMAIN ids
  BY RequestParts DEF RequestOK
<1>11. WindowsOK'
  <2>1. AtKey(name) = {}
    BY <1>2, <1>10, RequestParts DEF AtKey, RequestOK
  <2>2. lastId' \in Ids /\ lastId' > lastId
    <3>1. lastId' <= Cardinality(Names) /\ Cardinality(Names) \in Nat
      BY <1>6, <1>7, NamesAssumption, FS_Subset, FS_CardinalityType DEF KeysOK
    <3>. QED  BY <1>2, <1>5, <3>1 DEF Ids
  <2>3. used[lastId'] = 0 /\ \A id \in Ids : id > lastId' => used[id] = 0
    BY <1>1, <1>2, <1>5, <2>2 DEF WindowsOK, Ids
  <2>4. Cardinality(AtKey(name)) = 0 /\ proven[name] \in Nat
    BY <1>1, <2>1, FS_EmptySet DEF WindowsOK
  <2>5. ASSUME NEW n \in DOMAIN ids'
        PROVE  used[ids'[n]] + Cardinality(AtKey(n)) <= proven[n]
    <3>1. CASE n = name
      BY <1>3, <2>3, <2>4, <3>1
    <3>2. CASE n \in DOMAIN ids
      BY <1>1, <1>3, <3>2 DEF WindowsOK
    <3>. QED  BY <1>3, <3>1, <3>2
  <2>. QED  BY <1>1, <1>2, <1>9, <2>3, <2>5 DEF WindowsOK
<1>12. UsageOK'
  BY <1>1, <1>2, <1>3, <1>10 DEF UsageOK, Answered, Job
<1>. QED  BY <1>7, <1>8, <1>11, <1>12 DEF IInv

LEMMA RevokeKeyKeeps == ASSUME IInv, NEW name \in Names, RevokeKey(name) PROVE IInv'
<1>1. KeysOK /\ RequestsOK /\ WindowsOK /\ UsageOK
  BY DEF IInv
<1>2. /\ usage' = usage /\ jobs' = jobs /\ lost' = lost /\ proven' = proven /\ request' = request
      /\ used' = used /\ usedGlobal' = usedGlobal /\ lastId' = lastId /\ ids' = ids
      /\ name \in DOMAIN rows /\ rows' = [rows EXCEPT ![name].active = FALSE]
  BY DEF RevokeKey, limiter
<1>3. rows \in [DOMAIN rows -> [id : 1..lastId, active : BOOLEAN]]
  BY <1>1 DEF KeysOK
<1>4. /\ rows' \in [DOMAIN rows -> [id : 1..lastId, active : BOOLEAN]] /\ ~rows'[name].active
      /\ DOMAIN rows' = DOMAIN rows /\ \A n \in DOMAIN rows : rows'[n].id = rows[n].id
      /\ \A n \in DOMAIN rows : n # name => rows'[n] = rows[n]
  BY <1>2, <1>3
<1>5. KeysOK'
  BY <1>1, <1>2, <1>4 DEF KeysOK
<1>6. Alive' \subseteq Alive
  BY <1>4 DEF Alive
<1>7. RequestsOK'
  BY <1>2, <1>5, <1>6, RequestsFollowKeys
<1>8. \A n : AtKey(n)' = AtKey(n)
  BY <1>2 DEF AtKey
<1>9. WindowsOK'
  BY <1>1, <1>2, <1>8 DEF WindowsOK
<1>10. UsageOK'
  BY <1>1, <1>2, <1>4 DEF UsageOK, Answered, Job
<1>. QED  BY <1>5, <1>7, <1>9, <1>10 DEF IInv

LEMMA DeleteKeyKeeps == ASSUME IInv, NEW name \in Names, DeleteKey(name) PROVE IInv'
<1>1. KeysOK /\ RequestsOK /\ WindowsOK /\ UsageOK
  BY DEF IInv
<1>2. /\ jobs' = jobs /\ lost' = lost /\ proven' = proven /\ request' = request
      /\ used' = used /\ usedGlobal' = usedGlobal /\ lastId' = lastId /\ ids' = ids
      /\ name \in DOMAIN rows /\ usage' = {u \in usage : u.id # ids[name]}
      /\ rows' = [n \in DOMAIN rows \ {name} |-> rows[n]]
  BY <1>1 DEF DeleteKey, limiter, Restrict, KeysOK
<1>3. DOMAIN rows' = DOMAIN rows \ {name} /\ \A n \in DOMAIN rows' : rows'[n] = rows[n]
  BY <1>2
<1>4. rows' \in [DOMAIN rows' -> [id : 1..lastId, active : BOOLEAN]]
  BY <1>1, <1>2, <1>3 DEF KeysOK
<1>5. KeysOK'
  BY <1>1, <1>2, <1>3, <1>4 DEF KeysOK
<1>6. Alive' \subseteq Alive
  BY <1>3 DEF Alive
<1>7. RequestsOK'
  BY <1>2, <1>5, <1>6, RequestsFollowKeys
<1>8. \A n : AtKey(n)' = AtKey(n)
  BY <1>2 DEF AtKey
<1>9. WindowsOK'
  BY <1>1, <1>2, <1>8 DEF WindowsOK
\* The rows that go with the key are its own.
<1>10. \A r \in Requests : Answered(r) /\ request[r].name \in DOMAIN rows' => Job(r).id # ids[name]
  <2>1. \A r \in Requests : Answered(r) => Job(r).id = ids[request[r].name]
    BY RequestParts DEF Answered, Job, RequestOK
  <2>. QED  BY <1>1, <1>2, <1>3, <2>1 DEF KeysOK
<1>11. \A r \in Requests : (Answered(r)' <=> Answered(r)) /\ Job(r)' = Job(r)
  BY <1>2 DEF Answered, Job
<1>12. UsageOK'
  <2>1. usage' \cap jobs' = {} /\ lost' \subseteq Requests /\ usage' \cup jobs' \subseteq usage \cup jobs
    BY <1>1, <1>2 DEF UsageOK
  <2>2. \A r \in Requests : Answered(r) /\ r \notin lost /\ request[r].name \in DOMAIN rows' =>
            Job(r) \in usage' \cup jobs'
    BY <1>1, <1>2, <1>3, <1>10 DEF UsageOK
  <2>. QED  BY <1>1, <1>2, <1>11, <2>1, <2>2 DEF UsageOK
<1>. QED  BY <1>5, <1>7, <1>9, <1>12 DEF IInv

-----------------------------------------------------------------------------
\* The log, the windows, and a restart of the service.

LEMMA LogKeeps ==
  ASSUME IInv, NEW job \in jobs, LogUsage(job) \/ LogUsageFails(job)
  PROVE  IInv'
<1>1. KeysOK /\ RequestsOK /\ WindowsOK /\ UsageOK
  BY DEF IInv
<1>2. /\ rows' = rows /\ ids' = ids /\ lastId' = lastId /\ request' = request /\ proven' = proven
      /\ used' = used /\ usedGlobal' = usedGlobal /\ jobs' = jobs \ {job}
  BY DEF LogUsage, LogUsageFails, database, limiter
<1>3. KeysOK' /\ RequestsOK'
  BY <1>1, <1>2 DEF KeysOK, RequestsOK, Alive
<1>4. \A n : AtKey(n)' = AtKey(n)
  BY <1>2 DEF AtKey
<1>5. WindowsOK'
  BY <1>1, <1>2, <1>4 DEF WindowsOK
<1>6. job.request \in Requests /\ job \notin usage
  BY <1>1 DEF UsageOK
<1>7. \A r \in Requests : (Answered(r)' <=> Answered(r)) /\ Job(r)' = Job(r) /\ Job(r).request = r
  BY <1>2 DEF Answered, Job
<1>8. \/ usage' = usage \cup {job} /\ lost' = lost
      \/ usage' = usage /\ lost' = lost \cup {job.request}
  BY DEF LogUsage, LogUsageFails
<1>9. UsageOK'
  BY <1>1, <1>2, <1>6, <1>7, <1>8 DEF UsageOK
<1>. QED  BY <1>3, <1>5, <1>9 DEF IInv

LEMMA SlideKeeps ==
  ASSUME IInv, SlideGlobal \/ \E id \in Ids : SlideKey(id)
  PROVE  IInv'
<1>1. KeysOK /\ RequestsOK /\ WindowsOK /\ UsageOK
  BY DEF IInv
<1>2. /\ rows' = rows /\ ids' = ids /\ lastId' = lastId /\ request' = request /\ proven' = proven
      /\ usage' = usage /\ jobs' = jobs /\ lost' = lost
  BY DEF SlideGlobal, SlideKey, database
<1>3. KeysOK' /\ RequestsOK'
  BY <1>1, <1>2 DEF KeysOK, RequestsOK, Alive
<1>4. \A n : AtKey(n)' = AtKey(n) /\ Cardinality(AtKey(n)) \in Nat
  BY <1>2, AtKeyFinite DEF AtKey
<1>5. /\ used' \in [Ids -> Nat] /\ usedGlobal' \in Nat
      /\ \A id \in Ids : used'[id] <= used[id]
  BY <1>1 DEF SlideGlobal, SlideKey, WindowsOK
<1>6. WindowsOK'
  <2>1. \A id \in Ids : id > lastId => used'[id] = 0
    BY <1>1, <1>5 DEF WindowsOK
  <2>2. ASSUME NEW n \in DOMAIN ids
        PROVE  used'[ids[n]] + Cardinality(AtKey(n)) <= proven[n]
    <3>1. /\ ids[n] \in Ids /\ n \in Names /\ used[ids[n]] + Cardinality(AtKey(n)) <= proven[n]
      BY <1>1, IdFacts DEF WindowsOK, KeysOK
    <3>2. /\ used'[ids[n]] \in Nat /\ used[ids[n]] \in Nat /\ proven[n] \in Nat
          /\ used'[ids[n]] <= used[ids[n]]
      BY <1>1, <1>5, <3>1 DEF WindowsOK
    <3>. QED  BY <1>4, <3>1, <3>2
  <2>. QED  BY <1>1, <1>2, <1>4, <1>5, <2>1, <2>2 DEF WindowsOK
<1>7. UsageOK'
  BY <1>1, <1>2 DEF UsageOK, Answered, Job
<1>. QED  BY <1>3, <1>6, <1>7 DEF IInv

LEMMA RestartKeeps == ASSUME IInv, Restart PROVE IInv'
<1> DEFINE gone == [Absent EXCEPT !.pc = "dropped"]
<1>1. KeysOK /\ RequestsOK /\ WindowsOK /\ UsageOK
  BY DEF IInv
<1>2. /\ rows' = rows /\ ids' = ids /\ lastId' = lastId /\ usage' = usage /\ jobs' = {}
      /\ lost' = lost \cup {job.request : job \in jobs} /\ usedGlobal' = 0
      /\ used' = [id \in Ids |-> 0] /\ proven' = [name \in Names |-> 0]
      /\ request' = [r \in Requests |-> IF request[r].pc \in {"absent", "done"} THEN request[r]
                                        ELSE gone]
  BY DEF Restart, database
<1>3. gone.pc = "dropped" /\ gone \in Records /\ RequestOK(ids, Alive, gone)
  BY AbsentIsOK DEF Absent
<1> HIDE DEF gone
<1>4. KeysOK' /\ Alive' = Alive
  BY <1>1, <1>2 DEF KeysOK, Alive
<1>5. \A r \in Requests : request'[r] = IF request[r].pc \in {"absent", "done"} THEN request[r]
                                        ELSE gone
  BY <1>2
<1>6. RequestsOK'
  <2>1. request' \in [Requests -> Records]
    BY <1>1, <1>2, <1>3 DEF RequestsOK
  <2>2. \A r \in Requests : RequestOK(ids, Alive, request'[r])
    BY <1>3, <1>5, RequestParts
  <2>. QED  BY <1>2, <1>4, <2>1, <2>2 DEF RequestsOK
<1>7. WindowsOK'
  <2>1. \A n : AtKey(n)' = {}
    BY <1>3, <1>5 DEF AtKey
  <2>2. \A n : Cardinality(AtKey(n)') = 0
    BY <2>1, FS_EmptySet
  <2>3. \A n \in DOMAIN ids : ids[n] \in Ids /\ n \in Names
    BY <1>1, IdFacts DEF KeysOK
  <2>. QED  BY <1>2, <2>2, <2>3 DEF WindowsOK
<1>8. \A r \in Requests : /\ Answered(r)' <=> Answered(r)
                          /\ Answered(r) => request'[r] = request[r]
  BY <1>3, <1>5 DEF Answered
<1>9. UsageOK'
  <2>1. \A r \in Requests : Answered(r) => Job(r)' = Job(r)
    BY <1>8 DEF Job
  <2>2. \A r \in Requests : r \notin lost' => r \notin lost /\ Job(r) \notin jobs
    BY <1>2 DEF Job
  <2>3. lost' \subseteq Requests
    BY <1>1, <1>2 DEF UsageOK
  <2>. QED  BY <1>1, <1>2, <1>8, <2>1, <2>2, <2>3 DEF UsageOK
<1>. QED  BY <1>4, <1>6, <1>7, <1>9 DEF IInv

LEMMA NextIInv == IInv /\ [Next]_vars => IInv'
<1> SUFFICES ASSUME IInv, [Next]_vars PROVE IInv'
  OBVIOUS
<1>1. CASE \E name \in Names : CreateKey(name) \/ RevokeKey(name) \/ DeleteKey(name)
  BY <1>1, CreateKeyKeeps, RevokeKeyKeeps, DeleteKeyKeeps
<1>2. ASSUME NEW r \in Requests, NEW route \in Routes, NEW name \in Names \cup {NoName},
             NEW good \in BOOLEAN, Arrive(r, route, name, good)
      PROVE  IInv'
  BY <1>2, ArriveKeeps
<1>3. ASSUME NEW r \in Requests, Proceeds(r)
      PROVE  IInv'
  <2>1. CASE GlobalCheck(r) \/ Header(r) \/ Lookup(r)
    BY <2>1, GlobalCheckKeeps, HeaderKeeps, LookupKeeps
  <2>2. CASE Verify(r) \/ KeyCheck(r) \/ AdminCheck(r)
    BY <2>2, VerifyKeeps, KeyCheckKeeps, AdminCheckKeeps
  <2>3. CASE ParseFails(r) \/ Handle(r) \/ Respond(r)
    BY <2>3, HandleKeeps, RespondKeeps
  <2>. QED  BY <1>3, <2>1, <2>2, <2>3 DEF Proceeds
<1>4. CASE \E job \in jobs : LogUsage(job) \/ LogUsageFails(job)
  BY <1>4, LogKeeps
<1>5. CASE SlideGlobal \/ \E id \in Ids : SlideKey(id)
  BY <1>5, SlideKeeps
<1>6. CASE Restart
  BY <1>6, RestartKeeps
<1>7. CASE UNCHANGED vars
  <2>1. /\ UNCHANGED <<rows, lastId, ids, usage, used, usedGlobal>>
        /\ UNCHANGED <<request, jobs, lost, proven>>
    BY <1>7 DEF vars, database, limiter
  <2>2. \A n : AtKey(n)' = AtKey(n)
    BY <2>1 DEF AtKey
  <2>3. WindowsOK' /\ UsageOK'
    BY <2>1, <2>2 DEF IInv, WindowsOK, UsageOK, Answered, Job
  <2>. QED  BY <2>1, <2>3 DEF IInv, KeysOK, RequestsOK, Alive
<1>. QED  BY <1>1, <1>2, <1>3, <1>4, <1>5, <1>6, <1>7 DEF Next, Command

LEMMA Inductive == Spec => []IInv
BY InitIInv, NextIInv, PTL DEF Spec

-----------------------------------------------------------------------------
\* What the code keeps in its tables, its limiter and its requests has the type it
\* should, no two keys ever share an id, and a row carries the id of its name.
THEOREM TypeCorrect == Spec => []TypeOK
<1>1. ASSUME IInv PROVE TypeOK
  <2>1. KeysOK /\ RequestsOK /\ WindowsOK /\ UsageOK
    BY <1>1 DEF IInv
  <2>2. IsInjective(ids) /\ lastId \in Ids
    BY <1>1, <2>1, IdFacts DEF KeysOK, IsInjective
  <2>3. ASSUME NEW u \in usage \cup jobs
        PROVE  u \in [request : Requests, id : 1..lastId, status : Statuses \ {0}]
    <3>1. u.request \in Requests /\ Answered(u.request) /\ u = Job(u.request)
      BY <2>1 DEF UsageOK
    <3>2. PICK r \in Requests : r = u.request
      BY <3>1
    <3>3. RequestOK(ids, Alive, request[r]) /\ request[r] \in Records
      BY <1>1, RequestParts
    <3>4. /\ request[r].authId = ids[request[r].name] /\ request[r].name \in DOMAIN ids
          /\ request[r].status # 0 /\ request[r].status \in Statuses
      BY <3>1, <3>2, <3>3 DEF RequestOK, Answered, Records
    <3>5. request[r].authId \in 1..lastId
      BY <2>1, <3>4 DEF KeysOK
    <3>. QED  BY <3>1, <3>2, <3>4, <3>5 DEF Job
  <2>4. {usage, jobs} \subseteq
            SUBSET [request : Requests, id : 1..lastId, status : Statuses \ {0}]
    BY <2>3
  <2>5. request \in [Requests -> [pc : Steps, route : Routes, name : Names \cup {NoName},
            good : BOOLEAN, row : [id : Ids, active : BOOLEAN], info : {"none", "global", "perKey"},
            authId : Ids, status : Statuses, barred : BOOLEAN]]
    BY <2>1 DEF RequestsOK, Records
  <2>. QED  BY <2>1, <2>2, <2>4, <2>5 DEF TypeOK, KeysOK, WindowsOK, UsageOK
<1>. QED  BY <1>1, Inductive, PTL

\* Whatever the CLI does while requests are on their way, a handler behind a key
\* runs only for the right secret of a key that was active when the request
\* arrived, and an admin handler only for an admin key.
THEOREM OnlyTheEntitledRun == Spec => []OnlyEntitledRequestsRun
<1>1. IInv => OnlyEntitledRequestsRun
  BY RequestParts DEF OnlyEntitledRequestsRun, RequestOK
<1>. QED  BY <1>1, Inductive, PTL

\* A key's window counts only requests that proved that key's secret since the
\* service started, whatever keys are created, revoked or deleted meanwhile.
THEOREM NobodyElseFillsAWindow == Spec => []WindowsAreOwn
<1>1. ASSUME IInv PROVE WindowsAreOwn
  <2>1. ASSUME NEW name \in DOMAIN ids PROVE used[ids[name]] <= proven[name]
    <3>1. /\ used[ids[name]] + Cardinality(AtKey(name)) <= proven[name]
          /\ used \in [Ids -> Nat] /\ proven \in [Names -> Nat] /\ name \in Names
      BY <1>1 DEF IInv, WindowsOK, KeysOK
    <3>2. used[ids[name]] \in Nat /\ proven[name] \in Nat
      BY <1>1, <3>1, IdFacts DEF IInv
    <3>. QED  BY <3>1, <3>2, AtKeyFinite
  <2>. QED  BY <2>1 DEF WindowsAreOwn
<1>. QED  BY <1>1, Inductive, PTL

\* With the per-key limit on (a limit of 0 turns it off, and then no response tells
\* it), a response to a proven key tells that key's limits, and a request refused
\* before its key was proven is told the global ones.
THEOREM HeadersTellTheRightLimit ==
  ASSUME KeyLimit > 0
  PROVE  Spec => []HeadersAreOwn
<1>1. IInv => HeadersAreOwn
  BY RequestParts DEF HeadersAreOwn, RequestOK, RetryAfter
<1>. QED  BY <1>1, Inductive, PTL

\* Every response to a proven key is logged once, under that key and with the
\* status it was sent with, or on its way to the log, unless the key is deleted,
\* the insert failed or the service crashed; nothing else is ever logged.
THEOREM UsageIsLoggedOnce == Spec => []UsageIsComplete
<1>1. ASSUME IInv PROVE UsageIsComplete
  <2>1. UsageOK
    BY <1>1 DEF IInv
  <2>2. ASSUME NEW r \in Requests
        PROVE  LET entries == {u \in usage \cup jobs : u.request = r}
                   q == request[r]
               IN  IF q.pc = "done" /\ q.authId # 0 /\ r \notin lost /\ q.name \in DOMAIN rows
                   THEN entries = {[request |-> r, id |-> ids[q.name], status |-> q.status]}
                   ELSE q.pc # "done" \/ q.authId = 0 => entries = {}
    <3> DEFINE entries == {u \in usage \cup jobs : u.request = r}
    <3>1. entries \subseteq {Job(r)} /\ (entries # {} => Answered(r)) /\ Job(r).request = r
      BY <2>1 DEF UsageOK, Job
    <3>2. CASE Answered(r) /\ r \notin lost /\ request[r].name \in DOMAIN rows
      <4>1. Job(r) \in entries
        BY <2>1, <3>1, <3>2 DEF UsageOK
      <4>2. Job(r) = [request |-> r, id |-> ids[request[r].name], status |-> request[r].status]
        BY <1>1, <3>2, RequestParts DEF Job, Answered, RequestOK
      <4>. QED  BY <3>1, <3>2, <4>1, <4>2 DEF Answered
    <3>3. CASE ~(Answered(r) /\ r \notin lost /\ request[r].name \in DOMAIN rows)
      BY <3>1, <3>3 DEF Answered
    <3>. QED  BY <3>2, <3>3
  <2>3. usage \cap jobs = {}
    BY <2>1 DEF UsageOK
  <2>. QED  BY <2>2, <2>3 DEF UsageIsComplete
<1>. QED  BY <1>1, Inductive, PTL
=============================================================================

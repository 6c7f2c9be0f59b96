------------------------- MODULE CachedReadsProofs -------------------------
(***************************************************************************)
(* Proofs about CachedReads, for any requests, PUTs and start-ups.         *)
(*                                                                         *)
(* Its steps are steps of Registry (or leave it alone), so Registry's      *)
(* invariant IInv holds here too.  CInv adds why a guard kept over the     *)
(* cache call keeps stale answers out: while it is held no provider is     *)
(* swapped in, so what such a handler fetches from the provider, inserts   *)
(* and answers comes from the one in use.                                  *)
(***************************************************************************)
EXTENDS CachedReads, RegistryProofs, FiniteSetTheorems

Steps == {"idle", "lookup", "join", "reply"} \cup Leading
Reads == [pc : Steps, at : Kinds, value : Nat \cup {Empty, Error}, since : Nat]

ReadTypes == cache \in [Kinds -> Nat \cup {Empty}] /\ read \in [Handlers -> Reads]

\* Who holds or awaits the guard is at a step that needs it.
InGuard(r) == IF r \in Outside THEN read[r] # NoRead ELSE read[r].pc \in {"guard", "fetch"}
GuardedSteps == \A r \in Handlers : handler[r] = "busy" <=> InGuard(r)

\* Only handlers of the inside kind ask that cache.
OwnCache == \A r \in Handlers : read[r].pc # "idle" => (KindOf(r) = "inside" <=> r \in Inside)

OneLeader ==
    \A r, q \in Handlers :
        KindOf(r) = KindOf(q) /\ read[r].pc \in Leading /\ read[q].pc \in Leading => r = q

NothingUnlessUp ==
    server # "up" => cache = [kind \in Kinds |-> Empty] /\ read = [r \in Handlers |-> NoRead]

\* What a PUT acknowledges has been installed.
AckedInstalled ==
    /\ acked \in Nat /\ acked <= generation
    /\ \A a \in Admins : put[a].pc = "invalidate" => put[a].gen <= generation

Fetched ==
    \A r \in Handlers : /\ read[r].pc \in {"fetch", "insert"} => read[r].value \in Nat
                        /\ read[r].pc = "reply" => read[r].value \in Nat \cup {Error}

\* A handler that keeps the guard has it from its look-up on, and fetches from
\* the provider in use, unless it fetches a taker's list.
OutsideHolds ==
    \A r \in Outside :
        /\ read[r].pc \notin {"guard", "insert"}
        /\ read[r].pc \in {"fetch", "join", "reply"} => Reading(lock, r)
        /\ read[r].pc = "fetch" /\ KindOf(r) = "outside" => read[r].value = generation

CameBefore == \A r \in Handlers : read[r].since <= acked

\* The entry of the guarded caches is as new as the last PUT that returned 200.
EntryIsRecent == cache["outside"] # Empty => cache["outside"] >= acked

ReadInv ==
    /\ ReadTypes /\ GuardedSteps /\ OwnCache /\ OneLeader /\ NothingUnlessUp
    /\ AckedInstalled /\ Fetched /\ OutsideHolds /\ CameBefore /\ EntryIsRecent
    /\ OutsideFresh /\ OutsideCacheCurrent

CInv == IInv /\ ReadInv

-----------------------------------------------------------------------------
USE KindsAssumption, ValuesAssumption

\* CachedReads does nothing to Registry that Registry does not do.
LEMMA CachedStepIsStep == [CachedNext]_allVars => [Next]_vars
<1> SUFFICES ASSUME [CachedNext]_allVars PROVE [Next]_vars
  OBVIOUS
<1>1. CASE RegistryStep
  BY <1>1 DEF RegistryStep, Next
<1>2. CASE ExitWithCaches
  BY <1>2 DEF ExitWithCaches, Next
<1>3. ASSUME NEW a \in Admins, PutInvalidateAll(a)  PROVE Next
  BY <1>3 DEF PutInvalidateAll, PutProceeds, Next
<1>4. ASSUME NEW r \in Handlers, OutsideStart(r)  PROVE Next
  BY <1>4 DEF OutsideStart, Next
<1>5. ASSUME NEW r \in Handlers, InsideStart(r)  PROVE UNCHANGED vars
  BY <1>5 DEF InsideStart, registryVars
<1>6. ASSUME NEW r \in Handlers, ReadProceeds(r)
      PROVE  HandlerStart(r) \/ HandlerEnd(r) \/ UNCHANGED vars
  BY <1>6 DEF ReadProceeds, OutsideLookup, OutsideFetched, TakerGoesOn, OutsideReply, InsideLookup,
     InsideFetch, InsideFetched, InsideInsert, InsideReply, FetchFails, registryVars
<1>7. ASSUME NEW kind \in Kinds, Expire(kind)  PROVE UNCHANGED vars
  BY <1>7 DEF Expire, registryVars
<1>8. CASE UNCHANGED allVars
  BY <1>8 DEF allVars
<1>9. ASSUME NEW r \in Handlers, HandlerStart(r) \/ HandlerEnd(r)  PROVE Next
  BY <1>9 DEF Next
<1>. QED
  BY <1>1, <1>2, <1>3, <1>4, <1>5, <1>6, <1>7, <1>8, <1>9 DEF CachedNext

LEMMA NoReadFacts ==
  /\ NoRead \in Reads /\ NoRead.pc = "idle" /\ NoRead.value = Empty /\ NoRead.since = 0
  BY DEF NoRead, Reads, Steps, Kinds

\* Nobody reads and nothing is cached: the invariant holds.
NothingThere ==
    /\ cache = [kind \in Kinds |-> Empty] /\ read = [r \in Handlers |-> NoRead]
    /\ handler = [h \in Handlers |-> "idle"] /\ AckedInstalled

LEMMA AllIdle == NothingThere => ReadInv
<1> SUFFICES ASSUME NothingThere PROVE ReadInv
  OBVIOUS
<1>1. \A r \in Handlers : read[r] = NoRead /\ handler[r] = "idle"
  BY DEF NothingThere
<1>2. cache["outside"] = Empty /\ ReadTypes
  BY NoReadFacts DEF ReadTypes, Kinds, NothingThere
<1>6. acked \in Nat
  BY DEF NothingThere, AckedInstalled
<1>3. GuardedSteps
  BY <1>1, NoReadFacts DEF GuardedSteps, InGuard
<1>4. OneLeader /\ OwnCache /\ Fetched /\ CameBefore
  BY <1>1, <1>6, NoReadFacts DEF OneLeader, OwnCache, Fetched, CameBefore, Leading
<1>5. OutsideHolds /\ OutsideFresh
  BY <1>1, NoReadFacts DEF OutsideHolds, OutsideFresh, Fresh, KindOf
<1>. QED
  BY <1>2, <1>3, <1>4, <1>5
     DEF NothingThere, ReadInv, NothingUnlessUp, EntryIsRecent, OutsideCacheCurrent

LEMMA AllIdleNext == NothingThere' => ReadInv'
  BY AllIdle, PTL

LEMMA CachedInitCInv == CachedInit => CInv
<1> SUFFICES ASSUME CachedInit PROVE CInv
  OBVIOUS
<1>1. AckedInstalled
  BY NoPutFacts DEF CachedInit, Init, AckedInstalled
<1>. QED  BY <1>1, InitIInv, AllIdle DEF CachedInit, Init, CInv, NothingThere

-----------------------------------------------------------------------------
\* The registry moves, the reads do not.

LEMMA BootCInv ==
  ASSUME CInv, Boot, UNCHANGED <<cache, read>>
  PROVE  ReadInv'
<1>1. server # "up" /\ UNCHANGED <<put, handler>> /\ DataOK
  BY TypeParts DEF Boot, BootFromDb, BootFromConfig, BootLoad, requestVars, CInv, IInv
<1>2. /\ cache = [kind \in Kinds |-> Empty] /\ read = [r \in Handlers |-> NoRead]
      /\ handler = [h \in Handlers |-> "idle"] /\ put = [a \in Admins |-> NoPut]
  BY <1>1 DEF CInv, ReadInv, IInv, NothingUnlessUp, IdleUnlessUp
<1>3. acked' \in Nat /\ acked' <= generation'
  BY <1>1 DEF Boot, BootFromDb, BootFromConfig, BootLoad, putHistory, CInv, ReadInv,
     AckedInstalled, DataOK
<1>4. AckedInstalled'
  BY <1>1, <1>2, <1>3, NoPutFacts DEF AckedInstalled
<1>. QED  BY <1>1, <1>2, <1>3, <1>4, AllIdleNext DEF NothingThere

\* What a PUT does before it clears the caches.
LEMMA PutCInv ==
  ASSUME CInv, NEW a \in Admins,
         \/ PutProceeds(a) /\ put[a].pc # "invalidate"
         \/ \E url \in Urls : PutStart(a, url),
         UNCHANGED <<cache, read>>
  PROVE  ReadInv'
<1>1. /\ server = "up" /\ server' = "up"
      /\ \A h \in Handlers : Reading(lock, h) => Reading(lock', h)
      /\ Writing(lock, a) => lock.readers = {}
  BY PutKeepsReaders DEF CInv
<1>2. DataOK /\ put \in [Admins -> Puts] /\ acked \in Nat /\ generation \in Nat
  BY TypeParts DEF CInv, IInv, DataOK
<1>3. UNCHANGED <<acked, handler>>
  BY DEF PutProceeds, PutStart, PutCopyDbPath, PutLoad, PutLoadFails, PutSave, PutSaveFails,
     PutSwap, PutInvalidate, PutStep, PutEnds, putHistory
<1>4. \A b \in Admins : put[b].pc = "invalidate" => put'[b] = put[b]
  BY <1>2, NoPutFacts DEF PutProceeds, PutStart, PutCopyDbPath, PutLoad, PutLoadFails, PutSave,
     PutSaveFails, PutSwap, PutInvalidate, PutStep, PutEnds
<1>5. CASE PutSwap(a)
  <2>1. generation' = generation + 1 /\ lock.readers = {}
    BY <1>1, <1>5 DEF PutSwap
  <2>2. put'[a].pc = "invalidate" /\ put'[a].gen = generation'
    BY <1>2, <1>5 DEF PutSwap, Puts
  <2>3. \A b \in Admins \ {a} : put'[b] = put[b]
    BY <1>2, <1>5 DEF PutSwap
  <2>4. AckedInstalled'
    <3>1. \A b \in Admins : put[b].gen \in Nat
      BY <1>2 DEF Puts
    <3>. QED  BY <1>2, <1>3, <2>1, <2>2, <2>3, <3>1 DEF AckedInstalled, CInv, ReadInv
  <2>5. OutsideHolds'
    BY <2>1 DEF CInv, ReadInv, OutsideHolds, KindOf, Reading
  <2>6. OutsideCacheCurrent'
    BY <2>2 DEF OutsideCacheCurrent
  <2>7. ReadTypes' /\ GuardedSteps' /\ OwnCache' /\ OneLeader' /\ NothingUnlessUp'
    BY <1>1, <1>3 DEF CInv, ReadInv, ReadTypes, GuardedSteps, InGuard, OwnCache, OneLeader, KindOf,
       NothingUnlessUp
  <2>8. Fetched' /\ CameBefore' /\ EntryIsRecent' /\ OutsideFresh'
    BY <1>3 DEF CInv, ReadInv, Fetched, CameBefore, EntryIsRecent, OutsideFresh, Fresh, KindOf
  <2>. QED  BY <2>4, <2>5, <2>6, <2>7, <2>8 DEF ReadInv
<1>6. CASE ~PutSwap(a)
  <2>1. generation' = generation
    BY <1>6 DEF PutProceeds, PutStart, PutCopyDbPath, PutLoad, PutLoadFails, PutSave,
       PutSaveFails, PutInvalidate, PutStep, PutEnds, putHistory
  <2>2. \A b \in Admins : put'[b].pc = "invalidate" => put'[b] = put[b]
    <3>1. \A b \in Admins \ {a} : put'[b] = put[b]
      BY <1>2, <1>6 DEF PutProceeds, PutStart, PutCopyDbPath, PutLoad, PutLoadFails, PutSave,
         PutSaveFails, PutInvalidate, PutStep, PutEnds
    <3>2. CASE \E url \in Urls : PutStart(a, url)
      BY <1>2, <3>1, <3>2 DEF PutStart
    <3>3. CASE PutCopyDbPath(a) \/ PutLoad(a) \/ PutSave(a)
      BY <1>2, <3>1, <3>3 DEF PutCopyDbPath, PutLoad, PutSave, PutStep, Puts
    <3>4. CASE PutLoadFails(a) \/ PutSaveFails(a)
      BY <1>2, <3>1, <3>4, NoPutFacts DEF PutLoadFails, PutSaveFails, PutEnds
    <3>5. ~PutInvalidate(a) \/ \E url \in Urls : PutStart(a, url)
      BY DEF PutInvalidate, PutEnds
    <3>. QED  BY <1>6, <3>2, <3>3, <3>4, <3>5 DEF PutProceeds
  <2>3. AckedInstalled' /\ OutsideCacheCurrent'
    BY <1>3, <1>4, <2>1, <2>2 DEF CInv, ReadInv, AckedInstalled, OutsideCacheCurrent
  <2>4. OutsideHolds'
    BY <1>1, <2>1 DEF CInv, ReadInv, OutsideHolds, KindOf
  <2>5. ReadTypes' /\ GuardedSteps' /\ OwnCache' /\ OneLeader' /\ NothingUnlessUp'
    BY <1>1, <1>3 DEF CInv, ReadInv, ReadTypes, GuardedSteps, InGuard, OwnCache, OneLeader, KindOf,
       NothingUnlessUp
  <2>6. Fetched' /\ CameBefore' /\ EntryIsRecent' /\ OutsideFresh'
    BY <1>3 DEF CInv, ReadInv, Fetched, CameBefore, EntryIsRecent, OutsideFresh, Fresh, KindOf
  <2>. QED  BY <2>3, <2>4, <2>5, <2>6 DEF ReadInv
<1>. QED  BY <1>5, <1>6

\* The PUT's last step: the caches are cleared as the PUT is acknowledged.
LEMMA InvalidateCInv ==
  ASSUME CInv, NEW a \in Admins, PutInvalidateAll(a)
  PROVE  ReadInv'
<1>1. DataOK /\ put \in [Admins -> Puts] /\ acked \in Nat /\ generation \in Nat
  BY TypeParts DEF CInv, IInv, DataOK
<1>2. /\ server = "up" /\ server' = "up" /\ put[a].pc = "invalidate"
      /\ put' = [put EXCEPT ![a] = NoPut]
      /\ acked' = (IF acked < put[a].gen THEN put[a].gen ELSE acked)
      /\ cache' = [kind \in Kinds |-> Empty] /\ UNCHANGED <<read, lock, handler, generation>>
  BY DEF PutInvalidateAll, PutInvalidate, PutEnds, bootVars
<1>3. acked' \in Nat /\ acked <= acked' /\ acked' <= generation
  BY <1>1, <1>2 DEF CInv, ReadInv, AckedInstalled, Puts
<1>4. AckedInstalled'
  BY <1>1, <1>2, <1>3, NoPutFacts DEF CInv, ReadInv, AckedInstalled
<1>5. cache'["outside"] = Empty
  BY <1>2 DEF Kinds
<1>6. ReadTypes' /\ GuardedSteps' /\ OwnCache' /\ OneLeader' /\ NothingUnlessUp'
  BY <1>2 DEF CInv, ReadInv, ReadTypes, GuardedSteps, InGuard, OwnCache, OneLeader, KindOf,
       NothingUnlessUp
<1>7. Fetched' /\ OutsideHolds' /\ OutsideFresh'
  BY <1>2 DEF CInv, ReadInv, Fetched, OutsideHolds, OutsideFresh, Fresh, KindOf, Reading
<1>8. CameBefore'
  <2>1. \A r \in Handlers : read[r].since \in Nat
    BY DEF CInv, ReadInv, ReadTypes, Reads
  <2>. QED  BY <1>1, <1>2, <1>3, <2>1 DEF CInv, ReadInv, CameBefore
<1>. QED
  BY <1>4, <1>5, <1>6, <1>7, <1>8 DEF ReadInv, EntryIsRecent, OutsideCacheCurrent

LEMMA ExitCInv ==
  ASSUME CInv, ExitWithCaches
  PROVE  ReadInv'
<1>1. acked \in Nat
  BY TypeParts DEF CInv, IInv, DataOK
<1>2. AckedInstalled'
  BY <1>1, NoPutFacts DEF ExitWithCaches, Exit, putHistory, CInv, ReadInv, AckedInstalled
<1>. QED  BY <1>1, <1>2, AllIdleNext DEF NothingThere, ExitWithCaches, Exit, putHistory

-----------------------------------------------------------------------------
\* The reads move; the registry only grants and takes back the request's guard.

\* What a step of request r leaves alone.
Beside(r) ==
    /\ server = "up" /\ UNCHANGED <<server, put, acked, generation>>
    /\ \A q \in Handlers \ {r} :
        handler'[q] = handler[q] /\ (Reading(lock, q) => Reading(lock', q))

LEMMA HandlerBeside ==
  ASSUME CInv, NEW r \in Handlers, HandlerStart(r) \/ HandlerEnd(r)
  PROVE  /\ Beside(r)
         /\ HandlerStart(r) => handler[r] = "idle" /\ handler'[r] = "busy"
         /\ HandlerEnd(r) => Reading(lock, r) /\ handler[r] = "busy" /\ handler'[r] = "idle"
<1>1. /\ DataOK /\ GuardsOK /\ r \in Processes /\ (r \in Busy <=> handler[r] = "busy")
      /\ handler \in [Handlers -> {"idle", "busy"}]
  BY TypeParts, HandlerFacts DEF CInv, IInv, DataOK
<1>2. CASE HandlerStart(r)
  <2>1. handler[r] = "idle" /\ lock' = Request(lock, r, "read") /\ server = "up"
    BY <1>2 DEF HandlerStart
  <2>2. r \notin ReadSide(lock) \cup WriteSide(lock)
    BY <1>1, <2>1, HandlerFacts DEF GuardsOK, CInv
  <2>3. lock.readers \subseteq lock'.readers
    BY <1>1, <2>1, <2>2, RequestFacts DEF GuardsOK, Modes
  <2>4. ~HandlerEnd(r)
    BY <2>2 DEF HandlerEnd, Reading, ReadSide
  <2>. QED
    BY <1>1, <1>2, <2>1, <2>3, <2>4 DEF HandlerStart, Beside, Reading, bootVars, putHistory
<1>3. CASE HandlerEnd(r)
  <2>1. Reading(lock, r) /\ lock' = Release(lock, r)
    BY <1>3 DEF HandlerEnd
  <2>2. server = "up" /\ handler[r] = "busy"
    BY <1>1, <2>1, ReadingHandler DEF CInv
  <2>3. lock'.readers = lock.readers \ {r}
    BY <1>1, <2>1, ReleaseReaderFacts DEF GuardsOK
  <2>4. ~HandlerStart(r)
    BY <2>2 DEF HandlerStart
  <2>. QED
    BY <1>1, <1>3, <2>1, <2>2, <2>3, <2>4 DEF HandlerEnd, Beside, Reading, bootVars, putHistory
<1>. QED  BY <1>2, <1>3

LEMMA QuietBeside ==
  ASSUME server = "up", UNCHANGED vars, NEW r \in Handlers
  PROVE  Beside(r) /\ UNCHANGED <<handler, lock>>
  BY DEF Beside, vars, bootVars, requestVars, putHistory

\* Requests exist only while the service is up.
LEMMA UpWhileRead ==
  ASSUME CInv, NEW r \in Handlers, read[r] # NoRead
  PROVE  server = "up"
  BY DEF CInv, ReadInv, NothingUnlessUp

\* One request goes on to n, on its own.
LEMMA OneMoves ==
  ASSUME CInv, NEW r \in Handlers, NEW n \in Reads, read' = [read EXCEPT ![r] = n],
         UNCHANGED cache, Beside(r),
         handler'[r] = "busy" <=>
            IF r \in Outside THEN n # NoRead ELSE n.pc \in {"guard", "fetch"},
         n.pc \in Leading =>
            n.at = read[r].at /\ (read[r].pc \in Leading \/ Leaders(KindOf(r)) = {}),
         n.pc # "idle" => (n.at = "inside" <=> r \in Inside),
         n.pc \in {"fetch", "insert"} => n.value \in Nat,
         n.pc = "reply" => n.value \in Nat \cup {Error},
         r \in Outside => /\ n.pc \notin {"guard", "insert"}
                          /\ n.pc \in {"fetch", "join", "reply"} => Reading(lock', r)
                          /\ n.pc = "fetch" /\ n.at = "outside" => n.value = generation
                          /\ n.pc = "reply" /\ n.at = "outside" /\ n.value # Error
                                => n.value >= n.since,
         n.since <= acked
  PROVE  ReadInv'
<1>1. ReadInv /\ read \in [Handlers -> Reads]
  BY DEF CInv, ReadInv, ReadTypes
<1>2. /\ read' \in [Handlers -> Reads] /\ read'[r] = n
      /\ \A q \in Handlers \ {r} : read'[q] = read[q]
  BY <1>1
<1>3. /\ server' = "up" /\ UNCHANGED <<server, put, acked, generation>>
      /\ \A q \in Handlers \ {r} :
            handler'[q] = handler[q] /\ (Reading(lock, q) => Reading(lock', q))
  BY DEF Beside
<1>4. ReadTypes' /\ NothingUnlessUp' /\ AckedInstalled' /\ EntryIsRecent' /\ OutsideCacheCurrent'
  BY <1>1, <1>2, <1>3 DEF ReadInv, ReadTypes, NothingUnlessUp, AckedInstalled, EntryIsRecent,
     OutsideCacheCurrent
<1>5. GuardedSteps'
  BY <1>1, <1>2, <1>3 DEF ReadInv, GuardedSteps, InGuard
<1>10. OwnCache'
  BY <1>1, <1>2 DEF ReadInv, OwnCache, KindOf
<1>6. OneLeader'
  <2> SUFFICES ASSUME NEW p \in Handlers, NEW q \in Handlers, KindOf(p)' = KindOf(q)',
                      read'[p].pc \in Leading, read'[q].pc \in Leading, p # q
               PROVE  FALSE
    BY DEF OneLeader
  <2>6. \A x \in Handlers : read'[x].pc \in Leading => KindOf(x)' = KindOf(x)
    BY <1>2 DEF KindOf
  <2>1. \A x \in Handlers : KindOf(x) = KindOf(r) /\ Leaders(KindOf(r)) = {}
                                => read[x].pc \notin Leading
    BY DEF Leaders
  <2>2. \A x, y \in Handlers :
            KindOf(x) = KindOf(y) /\ read[x].pc \in Leading /\ read[y].pc \in Leading => x = y
    BY <1>1 DEF ReadInv, OneLeader
  <2>3. CASE p = r
    BY <1>2, <2>1, <2>2, <2>3, <2>6
  <2>4. CASE q = r
    BY <1>2, <2>1, <2>2, <2>4, <2>6
  <2>5. CASE p # r /\ q # r
    BY <1>2, <2>2, <2>5, <2>6
  <2>. QED  BY <2>3, <2>4, <2>5
<1>7. Fetched' /\ CameBefore'
  BY <1>1, <1>2, <1>3 DEF ReadInv, Fetched, CameBefore
<1>8. OutsideHolds'
  BY <1>1, <1>2, <1>3 DEF ReadInv, OutsideHolds, KindOf
<1>9. OutsideFresh'
  BY <1>1, <1>2 DEF ReadInv, OutsideFresh, Fresh, KindOf
<1>. QED  BY <1>4, <1>5, <1>6, <1>7, <1>8, <1>9, <1>10 DEF ReadInv

\* A fetch ends: its leader and its joiners have the answer, and the entry is the
\* answer or what it was.
LEMMA AnswerMoves ==
  ASSUME CInv, NEW r \in Handlers, read[r].pc \in {"fetch", "insert"},
         NEW value \in Nat \cup {Error}, Answer(r, value), Beside(r),
         handler'[r] = "busy" <=> r \in Outside,
         r \in Outside => Reading(lock', r),
         KindOf(r) = "outside" => value \in {generation, Error},
         \/ UNCHANGED cache
         \/ value \in Nat /\ cache' = [cache EXCEPT ![KindOf(r)] = value]
  PROVE  ReadInv'
<1> DEFINE Told == {q \in Handlers : q = r \/ q \in Joiners(KindOf(r))}
<1>1. /\ ReadInv /\ read \in [Handlers -> Reads] /\ cache \in [Kinds -> Nat \cup {Empty}]
      /\ acked \in Nat /\ generation \in Nat /\ acked <= generation
  BY TypeParts DEF CInv, ReadInv, ReadTypes, AckedInstalled, IInv, DataOK
<1>2. \A q \in Told : read'[q] = [read[q] EXCEPT !.pc = "reply", !.value = value]
  BY DEF Answer
<1>3. ASSUME NEW q \in Told
      PROVE  /\ q \in Handlers /\ read'[q] \in Reads
             /\ read'[q].pc = "reply" /\ read'[q].value = value /\ read'[q].since = read[q].since
             /\ KindOf(q) = KindOf(r) /\ read'[q].at = read[q].at
             /\ (q \in Outside <=> r \in Outside)
             /\ read[q].pc \in {"fetch", "insert", "join"} /\ (q # r => read[q].pc = "join")
  <2>1. read[q] \in Reads /\ read'[q] = [read[q] EXCEPT !.pc = "reply", !.value = value]
    BY <1>1, <1>2
  <2>2. read'[q] = [pc |-> "reply", at |-> read[q].at, value |-> value, since |-> read[q].since]
    BY <2>1 DEF Reads
  <2>3. read'[q] \in Reads
    BY <2>1, <2>2 DEF Reads, Steps
  <2>4. KindOf(q) = KindOf(r) /\ (q # r => read[q].pc = "join")
    BY DEF Joiners
  <2>5. q \in Inside <=> r \in Inside
    BY <1>1, <2>4 DEF ReadInv, OwnCache
  <2>. QED  BY <2>2, <2>3, <2>4, <2>5
<1>4. \A q \in Handlers \ Told : read'[q] = read[q]
  BY DEF Answer
<1>5. DOMAIN read' = Handlers /\ read' \in [Handlers -> Reads]
  <2>1. read' = [q \in Handlers |-> read'[q]]
    BY DEF Answer
  <2>. QED  BY <1>1, <1>3, <1>4, <2>1
<1> HIDE DEF Told
<1>6. /\ server' = "up" /\ UNCHANGED <<server, put, acked, generation>>
      /\ \A q \in Handlers \ {r} :
            handler'[q] = handler[q] /\ (Reading(lock, q) => Reading(lock', q))
  BY DEF Beside
<1>7. r \in Told
  BY DEF Told
<1>8. ReadTypes' /\ NothingUnlessUp' /\ AckedInstalled'
  <2>1. cache' \in [Kinds -> Nat \cup {Empty}]
    BY <1>1
  <2>. QED  BY <1>1, <1>5, <1>6, <2>1 DEF ReadInv, ReadTypes, NothingUnlessUp, AckedInstalled
<1>9. EntryIsRecent' /\ OutsideCacheCurrent'
  <2>1. KindOf(r) = "outside" => cache'["outside"] \in {cache["outside"], generation}
    BY <1>1 DEF Kinds
  <2>2. KindOf(r) # "outside" => cache'["outside"] = cache["outside"]
    BY <1>1 DEF Kinds
  <2>3. EntryIsRecent'
    BY <1>1, <1>6, <2>1, <2>2 DEF ReadInv, EntryIsRecent
  <2>4. OutsideCacheCurrent'
    BY <1>1, <1>6, <2>1, <2>2 DEF ReadInv, OutsideCacheCurrent
  <2>. QED  BY <2>3, <2>4
<1>10. GuardedSteps'
  <2>1. ASSUME NEW q \in Handlers \ Told  PROVE handler'[q] = "busy" <=> InGuard(q)'
    BY <1>1, <1>4, <1>6, <1>7, <2>1 DEF ReadInv, GuardedSteps, InGuard
  <2>2. ASSUME NEW q \in Told, q # r  PROVE handler'[q] = "busy" <=> InGuard(q)'
    <3>1. handler'[q] = "busy" <=> InGuard(q)
      BY <1>1, <1>3, <1>6, <2>2 DEF ReadInv, GuardedSteps
    <3>. QED  BY <1>3, <2>2, <3>1, NoReadFacts DEF InGuard
  <2>3. handler'[r] = "busy" <=> InGuard(r)'
    BY <1>3, <1>7, NoReadFacts DEF InGuard
  <2>. QED  BY <2>1, <2>2, <2>3 DEF GuardedSteps
<1>15. \A q \in Handlers : KindOf(q)' = KindOf(q)
  BY <1>3, <1>4 DEF KindOf
<1>16. OwnCache'
  BY <1>1, <1>3, <1>4, <1>15 DEF ReadInv, OwnCache
<1>11. OneLeader'
  <2>1. \A q \in Handlers : read'[q].pc \in Leading => read[q].pc \in Leading
    BY <1>3, <1>4 DEF Leading
  <2>. QED  BY <1>1, <1>15, <2>1 DEF ReadInv, OneLeader
<1>12. Fetched' /\ CameBefore'
  BY <1>1, <1>3, <1>4, <1>6 DEF ReadInv, Fetched, CameBefore
<1>13. OutsideHolds'
  <2>1. ASSUME NEW q \in Outside, q \in Told  PROVE Reading(lock', q) /\ read'[q].pc = "reply"
    BY <1>1, <1>3, <1>6, <2>1 DEF ReadInv, OutsideHolds
  <2>2. ASSUME NEW q \in Outside, q \notin Told
        PROVE  q \in Handlers \ {r} /\ read'[q] = read[q] /\ (Reading(lock, q) => Reading(lock', q))
    BY <1>4, <1>6, <1>7, <2>2
  <2>. QED  BY <1>1, <1>6, <1>15, <2>1, <2>2 DEF ReadInv, OutsideHolds
<1>14. OutsideFresh'
  <2>1. ASSUME NEW q \in Outside, q \in Told, KindOf(q) = "outside"  PROVE Fresh(q)'
    <3>1. read[q].since \in Nat /\ read[q].since <= acked
      BY <1>1, <2>1 DEF ReadInv, CameBefore, Reads
    <3>. QED  BY <1>1, <1>3, <2>1, <3>1 DEF Fresh
  <2>2. ASSUME NEW q \in Outside, q \notin Told, KindOf(q) = "outside"  PROVE Fresh(q)'
    BY <1>1, <1>4, <2>2 DEF ReadInv, OutsideFresh, Fresh
  <2>. QED  BY <1>15, <2>1, <2>2 DEF OutsideFresh
<1>. QED
  BY <1>8, <1>9, <1>10, <1>11, <1>12, <1>13, <1>14, <1>16 DEF ReadInv

-----------------------------------------------------------------------------
\* What a request knows of itself.
LEMMA ReadFacts ==
  ASSUME CInv, NEW r \in Handlers
  PROVE  /\ read \in [Handlers -> Reads] /\ read[r] \in Reads
         /\ read[r].since \in Nat /\ read[r].since <= acked
         /\ acked \in Nat /\ generation \in Nat /\ acked <= generation
         /\ (handler[r] = "busy" <=> InGuard(r)) /\ handler[r] \in {"idle", "busy"}
         /\ cache[KindOf(r)] \in Nat \cup {Empty}
         /\ read[r].pc # "idle" => (KindOf(r) = "inside" <=> r \in Inside)
         /\ read[r].pc # "idle" => read[r] # NoRead /\ server = "up"
<1>1. ReadInv /\ DataOK
  BY TypeParts DEF CInv, IInv
<1>2. read \in [Handlers -> Reads] /\ cache[KindOf(r)] \in Nat \cup {Empty}
  BY <1>1 DEF ReadInv, ReadTypes, KindOf, Reads
<1>. QED
  BY <1>1, <1>2, NoReadFacts, UpWhileRead
     DEF ReadInv, AckedInstalled, CameBefore, GuardedSteps, OwnCache, Reads, DataOK

\* The two ways of changing a read's step and value at once.
LEMMA ReadUpdates ==
  ASSUME NEW x \in Reads, NEW pc \in Steps, NEW value \in Nat \cup {Empty, Error}
  PROVE  /\ [x EXCEPT !.pc = pc] = [pc |-> pc, at |-> x.at, value |-> x.value, since |-> x.since]
         /\ [x EXCEPT !.pc = pc, !.value = value]
                = [pc |-> pc, at |-> x.at, value |-> value, since |-> x.since]
         /\ [pc |-> pc, at |-> x.at, value |-> x.value, since |-> x.since] \in Reads
         /\ [pc |-> pc, at |-> x.at, value |-> value, since |-> x.since] \in Reads
<1>1. /\ [x EXCEPT !.pc = pc] = [pc |-> pc, at |-> x.at, value |-> x.value, since |-> x.since]
      /\ [x EXCEPT !.pc = pc] \in Reads
  BY DEF Reads
<1>2. ASSUME NEW y \in Reads
      PROVE  [y EXCEPT !.value = value]
                = [pc |-> y.pc, at |-> y.at, value |-> value, since |-> y.since]
  BY DEF Reads
<1>3. [x EXCEPT !.pc = pc, !.value = value] = [[x EXCEPT !.pc = pc] EXCEPT !.value = value]
  OBVIOUS
<1>4. [pc |-> pc, at |-> x.at, value |-> value, since |-> x.since] \in Reads
  BY DEF Reads
<1>. QED  BY <1>1, <1>2, <1>3, <1>4

\* One request goes on to another step, with another value or its own.
LEMMA OneGoesOn ==
  ASSUME CInv, NEW r \in Handlers, read[r].pc # "idle", NEW pc \in Steps \ {"idle"},
         NEW value \in Nat \cup {Empty, Error},
         \/ read' = [read EXCEPT ![r].pc = pc, ![r].value = value]
         \/ read' = [read EXCEPT ![r].pc = pc] /\ value = read[r].value,
         UNCHANGED cache, Beside(r),
         handler'[r] = "busy" <=> r \in Outside \/ pc \in {"guard", "fetch"},
         pc \in Leading => read[r].pc \in Leading \/ Leaders(KindOf(r)) = {},
         pc \in {"fetch", "insert"} => value \in Nat,
         pc = "reply" => value \in Nat \cup {Error},
         r \in Outside => /\ pc \notin {"guard", "insert"}
                          /\ pc \in {"fetch", "join", "reply"} => Reading(lock', r),
         KindOf(r) = "outside" => /\ pc = "fetch" => value = generation
                                  /\ pc = "reply" /\ value # Error => value >= read[r].since
  PROVE  ReadInv'
<1> DEFINE n == [pc |-> pc, at |-> read[r].at, value |-> value, since |-> read[r].since]
<1>1. read \in [Handlers -> Reads] /\ read[r] \in Reads /\ read[r].since <= acked
  BY ReadFacts
<1>2. ASSUME read' = [read EXCEPT ![r].pc = pc, ![r].value = value]
      PROVE  read' = [read EXCEPT ![r] = n]
  <2>1. read' = [read EXCEPT ![r] = [read[r] EXCEPT !.pc = pc, !.value = value]]
    BY <1>1, <1>2
  <2>2. [read[r] EXCEPT !.pc = pc, !.value = value] = n /\ n \in Reads
    BY <1>1, ReadUpdates, Zenon
  <2>. QED  BY <2>1, <2>2
<1>3. ASSUME read' = [read EXCEPT ![r].pc = pc] /\ value = read[r].value
      PROVE  read' = [read EXCEPT ![r] = n]
  <2>1. read' = [read EXCEPT ![r] = [read[r] EXCEPT !.pc = pc]]
    BY <1>1, <1>3
  <2>2. [read[r] EXCEPT !.pc = pc] = n /\ n \in Reads
    BY <1>1, <1>3, ReadUpdates, Zenon
  <2>. QED  BY <2>1, <2>2
<1>4. n \in Reads
  BY <1>1, ReadUpdates, Zenon
<1>5. /\ n.pc = pc /\ n.value = value /\ n.since = read[r].since /\ n # NoRead
      /\ n.at = read[r].at /\ n.at = KindOf(r)
  BY NoReadFacts DEF KindOf
<1>7. KindOf(r) = "inside" <=> r \in Inside
  BY ReadFacts
<1>6. read' = [read EXCEPT ![r] = n]
  BY <1>2, <1>3
<1> HIDE DEF n
<1>. QED  BY <1>1, <1>4, <1>5, <1>6, <1>7, OneMoves

LEMMA StepFacts ==
  /\ {"lookup", "join", "reply", "guard", "fetch", "insert"} \subseteq Steps \ {"idle"}
  /\ "join" \notin Leading /\ "reply" \notin Leading
  BY DEF Steps, Leading

LEMMA StartCInv ==
  ASSUME CInv, NEW r \in Handlers,
         (r \in Outside /\ OutsideStart(r)) \/ (r \in Inside /\ InsideStart(r))
  PROVE  ReadInv'
<1> DEFINE kind == IF r \in Inside THEN "inside" ELSE IF r \in Takers THEN "list" ELSE "outside"
           n == NewRead(kind)
<1>1. /\ n \in Reads /\ n # NoRead /\ n.pc = "lookup" /\ n.since = acked
      /\ n.at = "inside" <=> r \in Inside
  <2>1. acked \in Nat
    BY ReadFacts
  <2>. QED  BY <2>1, NoReadFacts DEF NewRead, Reads, Steps, Kinds
<1>2. read[r] = NoRead /\ read' = [read EXCEPT ![r] = n] /\ UNCHANGED cache
  BY DEF OutsideStart, InsideStart
<1> HIDE DEF n
<1>3. acked <= acked
  BY ReadFacts
<1>4. CASE r \in Outside /\ OutsideStart(r)
  <2>1. Beside(r) /\ handler'[r] = "busy"
    BY <1>4, HandlerBeside DEF OutsideStart
  <2>. QED  BY <1>1, <1>2, <1>3, <1>4, <2>1, OneMoves DEF Leading
<1>5. CASE r \in Inside /\ InsideStart(r)
  <2>1. server = "up" /\ UNCHANGED vars /\ r \notin Outside
    BY <1>5 DEF InsideStart, registryVars
  <2>2. Beside(r) /\ handler' = handler
    BY <2>1, QuietBeside
  <2>3. handler[r] # "busy"
    BY <1>2, <2>1, ReadFacts, NoReadFacts DEF InGuard
  <2>. QED  BY <1>1, <1>2, <1>3, <2>1, <2>2, <2>3, OneMoves DEF Leading
<1>. QED  BY <1>4, <1>5

LEMMA OutsideLookupCInv ==
  ASSUME CInv, NEW r \in Outside, OutsideLookup(r)
  PROVE  ReadInv'
<1>1. /\ r \in Handlers /\ Reading(lock, r) /\ read[r].pc = "lookup"
      /\ UNCHANGED vars /\ UNCHANGED cache
  BY DEF OutsideLookup, registryVars
<1>2. server = "up"
  BY <1>1, ReadFacts
<1>3. Beside(r) /\ handler' = handler /\ lock' = lock
  BY <1>1, <1>2, QuietBeside
<1>4. handler[r] = "busy"
  BY <1>1, ReadFacts DEF InGuard
<1>5. CASE Hit(r)
  <2>1. /\ cache[KindOf(r)] \in Nat
        /\ KindOf(r) = "outside" => cache[KindOf(r)] >= acked
    BY <1>1, <1>5, ReadFacts DEF Hit, CInv, ReadInv, EntryIsRecent
  <2>2. KindOf(r) = "outside" => cache[KindOf(r)] >= read[r].since
    BY <1>1, <2>1, ReadFacts
  <2>3. read' = [read EXCEPT ![r].pc = "reply", ![r].value = cache[KindOf(r)]]
    BY <1>5 DEF Hit
  <2>. QED  BY <1>1, <1>3, <1>4, <2>1, <2>2, <2>3, StepFacts, OneGoesOn
<1>6. CASE Join(r)
  <2>1. read' = [read EXCEPT ![r].pc = "join"] /\ read[r].value \in Nat \cup {Empty, Error}
    BY <1>1, <1>6, ReadFacts DEF Join, Reads
  <2>. QED  BY <1>1, <1>3, <1>4, <2>1, StepFacts, OneGoesOn
<1>7. CASE Miss(r) /\ read' = [read EXCEPT ![r].pc = "fetch", ![r].value = Source(r)]
  <2>1. /\ Leaders(KindOf(r)) = {} /\ Source(r) \in Nat
        /\ KindOf(r) = "outside" => Source(r) = generation
    BY <1>1, <1>7, ReadFacts DEF Miss, Source
  <2>. QED  BY <1>1, <1>3, <1>4, <1>7, <2>1, StepFacts, OneGoesOn
<1>. QED  BY <1>5, <1>6, <1>7 DEF OutsideLookup

LEMMA OutsideFetchedCInv ==
  ASSUME CInv, NEW r \in Outside, OutsideFetched(r)
  PROVE  ReadInv'
<1>1. r \in Handlers /\ read[r].pc = "fetch" /\ UNCHANGED vars /\ Insert(r)
  BY DEF OutsideFetched, registryVars
<1>2. server = "up" /\ handler[r] = "busy"
  BY <1>1, ReadFacts DEF InGuard
<1>3. /\ Reading(lock, r) /\ read[r].value \in Nat
      /\ KindOf(r) = "outside" => read[r].value = generation
  BY <1>1 DEF CInv, ReadInv, Fetched, OutsideHolds
<1>4. Beside(r) /\ handler' = handler /\ lock' = lock
  BY <1>1, <1>2, QuietBeside
<1>. QED  BY <1>1, <1>2, <1>3, <1>4, AnswerMoves DEF Insert

\* A taker's list is there; the request asks for a transaction next.
LEMMA TakerGoesOnCInv ==
  ASSUME CInv, NEW r \in Outside, TakerGoesOn(r)
  PROVE  ReadInv'
<1> DEFINE n == [pc |-> "lookup", at |-> "outside", value |-> read[r].value,
                 since |-> read[r].since]
<1>1. /\ r \in Handlers /\ read[r].pc = "reply" /\ UNCHANGED vars /\ UNCHANGED cache
      /\ read' = [read EXCEPT ![r].pc = "lookup", ![r].at = "outside"]
  BY DEF TakerGoesOn, registryVars
<1>2. /\ read \in [Handlers -> Reads] /\ read[r] \in Reads /\ read[r].since <= acked
      /\ server = "up" /\ handler[r] = "busy"
  BY <1>1, ReadFacts DEF InGuard
<1>3. Beside(r) /\ handler' = handler
  BY <1>1, <1>2, QuietBeside
<1>4. n \in Reads /\ n # NoRead /\ n.pc = "lookup" /\ n.at = "outside" /\ n.since <= acked
  BY <1>2, NoReadFacts DEF Reads, Steps, Kinds
<1>5. read' = [read EXCEPT ![r] = n]
  <2>1. read' = [read EXCEPT ![r] = [read[r] EXCEPT !.pc = "lookup", !.at = "outside"]]
    BY <1>1, <1>2
  <2>2. [read[r] EXCEPT !.pc = "lookup", !.at = "outside"] = n
    <3>1. [read[r] EXCEPT !.pc = "lookup"] \in Reads
      BY <1>2 DEF Reads, Steps
    <3>2. ASSUME NEW y \in Reads
          PROVE  [y EXCEPT !.at = "outside"]
                    = [pc |-> y.pc, at |-> "outside", value |-> y.value, since |-> y.since]
      BY DEF Reads
    <3>3. [read[r] EXCEPT !.pc = "lookup", !.at = "outside"]
            = [[read[r] EXCEPT !.pc = "lookup"] EXCEPT !.at = "outside"]
      OBVIOUS
    <3>4. LET y == [read[r] EXCEPT !.pc = "lookup"]
          IN  y.pc = "lookup" /\ y.value = read[r].value /\ y.since = read[r].since
      BY <1>2 DEF Reads
    <3>. QED  BY <3>1, <3>2, <3>3, <3>4
  <2>. QED  BY <2>1, <2>2
<1> HIDE DEF n
<1>. QED  BY <1>1, <1>2, <1>3, <1>4, <1>5, OneMoves DEF Leading

\* The request is over.
LEMMA ReplyCInv ==
  ASSUME CInv, NEW r \in Handlers,
         (r \in Outside /\ OutsideReply(r)) \/ (r \in Inside /\ InsideReply(r))
  PROVE  ReadInv'
<1>1. read' = [read EXCEPT ![r] = NoRead] /\ UNCHANGED cache /\ read[r].pc = "reply"
  BY DEF OutsideReply, InsideReply
<1>2. NoRead.since <= acked
  BY NoReadFacts, ReadFacts
<1>3. Beside(r) /\ handler'[r] # "busy"
  <2>1. CASE r \in Outside /\ OutsideReply(r)
    BY <2>1, HandlerBeside DEF OutsideReply
  <2>2. CASE r \in Inside /\ InsideReply(r)
    <3>1. server = "up" /\ UNCHANGED vars /\ handler[r] # "busy"
      BY <1>1, <2>2, ReadFacts DEF InsideReply, registryVars, InGuard
    <3>. QED  BY <3>1, QuietBeside
  <2>. QED  BY <2>1, <2>2
<1>. QED  BY <1>1, <1>2, <1>3, NoReadFacts, OneMoves DEF Leading

LEMMA InsideLookupCInv ==
  ASSUME CInv, NEW r \in Inside, InsideLookup(r)
  PROVE  ReadInv'
<1>1. r \in Handlers /\ r \notin Outside /\ read[r].pc = "lookup" /\ UNCHANGED cache
  BY DEF InsideLookup
<1>2. /\ server = "up" /\ handler[r] # "busy" /\ read[r].value \in Nat \cup {Empty, Error}
      /\ cache[KindOf(r)] \in Nat \cup {Empty} /\ KindOf(r) = "inside"
  BY <1>1, ReadFacts DEF InGuard, Reads
<1>3. CASE UNCHANGED registryVars /\ Hit(r)
  <2>1. Beside(r) /\ handler' = handler
    BY <1>1, <1>2, <1>3, QuietBeside DEF registryVars
  <2>2. cache[KindOf(r)] \in Nat
        /\ read' = [read EXCEPT ![r].pc = "reply", ![r].value = cache[KindOf(r)]]
    BY <1>2, <1>3 DEF Hit
  <2>. QED  BY <1>1, <1>2, <2>1, <2>2, StepFacts, OneGoesOn
<1>4. CASE UNCHANGED registryVars /\ Join(r)
  <2>1. Beside(r) /\ handler' = handler
    BY <1>1, <1>2, <1>4, QuietBeside DEF registryVars
  <2>2. read' = [read EXCEPT ![r].pc = "join"]
    BY <1>4 DEF Join
  <2>. QED  BY <1>1, <1>2, <2>1, <2>2, StepFacts, OneGoesOn
<1>5. CASE Miss(r) /\ HandlerStart(r) /\ read' = [read EXCEPT ![r].pc = "guard"]
  <2>1. Beside(r) /\ handler'[r] = "busy"
    BY <1>1, <1>5, HandlerBeside
  <2>2. Leaders(KindOf(r)) = {}
    BY <1>5 DEF Miss
  <2>. QED  BY <1>1, <1>2, <1>5, <2>1, <2>2, StepFacts, OneGoesOn
<1>. QED  BY <1>3, <1>4, <1>5 DEF InsideLookup

LEMMA InsideFetchCInv ==
  ASSUME CInv, NEW r \in Inside, InsideFetch(r)
  PROVE  ReadInv'
<1>1. /\ r \in Handlers /\ r \notin Outside /\ read[r].pc = "guard"
      /\ UNCHANGED vars /\ UNCHANGED cache
      /\ read' = [read EXCEPT ![r].pc = "fetch", ![r].value = Source(r)]
  BY DEF InsideFetch, registryVars
<1>2. server = "up" /\ handler[r] = "busy" /\ Source(r) \in Nat /\ KindOf(r) = "inside"
  BY <1>1, ReadFacts DEF InGuard, Source
<1>3. Beside(r) /\ handler' = handler
  BY <1>1, <1>2, QuietBeside
<1>. QED  BY <1>1, <1>2, <1>3, OneGoesOn DEF Steps, Leading

LEMMA InsideFetchedCInv ==
  ASSUME CInv, NEW r \in Inside, InsideFetched(r)
  PROVE  ReadInv'
<1>1. /\ r \in Handlers /\ r \notin Outside /\ read[r].pc = "fetch"
      /\ HandlerEnd(r) /\ UNCHANGED cache /\ read' = [read EXCEPT ![r].pc = "insert"]
  BY DEF InsideFetched, Step
<1>2. read[r].value \in Nat /\ KindOf(r) = "inside"
  BY <1>1, ReadFacts DEF CInv, ReadInv, Fetched
<1>3. Beside(r) /\ handler'[r] = "idle"
  BY <1>1, HandlerBeside
<1>. QED  BY <1>1, <1>2, <1>3, OneGoesOn DEF Steps, Leading

LEMMA InsideInsertCInv ==
  ASSUME CInv, NEW r \in Inside, InsideInsert(r)
  PROVE  ReadInv'
<1>1. r \in Handlers /\ r \notin Outside /\ read[r].pc = "insert" /\ UNCHANGED vars /\ Insert(r)
  BY DEF InsideInsert, registryVars
<1>2. server = "up" /\ handler[r] # "busy"
  BY <1>1, ReadFacts DEF InGuard
<1>3. read[r].value \in Nat /\ KindOf(r) = "inside"
  BY <1>1, ReadFacts DEF CInv, ReadInv, Fetched
<1>4. Beside(r) /\ handler' = handler
  BY <1>1, <1>2, QuietBeside
<1>. QED  BY <1>1, <1>2, <1>3, <1>4, AnswerMoves DEF Insert

LEMMA FetchFailsCInv ==
  ASSUME CInv, NEW r \in Handlers, FetchFails(r)
  PROVE  ReadInv'
<1>1. read[r].pc = "fetch" /\ Answer(r, Error) /\ UNCHANGED cache
  BY DEF FetchFails
<1>2. CASE r \in Outside
  <2>1. UNCHANGED vars /\ server = "up" /\ handler[r] = "busy"
    BY <1>1, <1>2, ReadFacts DEF FetchFails, InGuard, registryVars
  <2>2. Reading(lock, r)
    BY <1>1, <1>2 DEF CInv, ReadInv, OutsideHolds
  <2>3. Beside(r) /\ handler' = handler /\ lock' = lock
    BY <2>1, QuietBeside
  <2>. QED  BY <1>1, <1>2, <2>1, <2>2, <2>3, AnswerMoves
<1>3. CASE r \notin Outside
  <2>1. Beside(r) /\ handler'[r] = "idle"
    BY <1>3, HandlerBeside DEF FetchFails
  <2>. QED  BY <1>1, <1>3, <2>1, AnswerMoves
<1>. QED  BY <1>2, <1>3

LEMMA ExpireCInv ==
  ASSUME CInv, NEW kind \in Kinds, Expire(kind)
  PROVE  ReadInv'
<1>1. /\ UNCHANGED vars /\ UNCHANGED read /\ cache' = [cache EXCEPT ![kind] = Empty]
      /\ cache \in [Kinds -> Nat \cup {Empty}] /\ cache[kind] # Empty
  BY DEF Expire, registryVars, CInv, ReadInv, ReadTypes
<1>2. UNCHANGED <<server, put, acked, generation, handler, lock>>
  BY <1>1 DEF vars, bootVars, requestVars, putHistory
<1>3. cache'["outside"] \in {cache["outside"], Empty}
  BY <1>1 DEF Kinds
<1>4. /\ ReadTypes' /\ GuardedSteps' /\ OwnCache' /\ OneLeader'
      /\ AckedInstalled' /\ Fetched' /\ CameBefore'
  BY <1>1, <1>2 DEF CInv, ReadInv, ReadTypes, GuardedSteps, InGuard, OwnCache, OneLeader, KindOf,
     AckedInstalled, Fetched, CameBefore
<1>5. NothingUnlessUp'
  BY <1>1, <1>2 DEF CInv, ReadInv, NothingUnlessUp
<1>6. OutsideHolds' /\ OutsideFresh'
  BY <1>1, <1>2 DEF CInv, ReadInv, OutsideHolds, OutsideFresh, Fresh, KindOf
<1>7. EntryIsRecent' /\ OutsideCacheCurrent'
  BY <1>2, <1>3 DEF CInv, ReadInv, EntryIsRecent, OutsideCacheCurrent
<1>. QED  BY <1>4, <1>5, <1>6, <1>7 DEF ReadInv

-----------------------------------------------------------------------------
LEMMA CachedNextCInv == CInv /\ [CachedNext]_allVars => CInv'
<1> SUFFICES ASSUME CInv, [CachedNext]_allVars PROVE CInv'
  OBVIOUS
<1>1. IInv'
  BY CachedStepIsStep, NextIInv DEF CInv
<1>10. \A r : r \in Outside \/ r \in Inside => r \in Handlers
  OBVIOUS
<1>2. ASSUME RegistryStep  PROVE ReadInv'
  BY <1>2, BootCInv, PutCInv DEF RegistryStep
<1>3. ASSUME ExitWithCaches  PROVE ReadInv'
  BY <1>3, ExitCInv
<1>4. ASSUME NEW a \in Admins, PutInvalidateAll(a)  PROVE ReadInv'
  BY <1>4, InvalidateCInv
<1>5. ASSUME NEW r \in Outside, OutsideStart(r)  PROVE ReadInv'
  BY <1>5, <1>10, StartCInv
<1>6. ASSUME NEW r \in Inside, InsideStart(r)  PROVE ReadInv'
  BY <1>6, <1>10, StartCInv
<1>7. ASSUME NEW r \in Handlers, ReadProceeds(r)  PROVE ReadInv'
  <2>1. CASE r \in Outside /\ (OutsideLookup(r) \/ OutsideFetched(r))
    BY <2>1, OutsideLookupCInv, OutsideFetchedCInv
  <2>5. CASE r \in Outside /\ (TakerGoesOn(r) \/ OutsideReply(r))
    BY <2>5, TakerGoesOnCInv, ReplyCInv
  <2>2. CASE r \in Inside /\ (InsideLookup(r) \/ InsideFetch(r) \/ InsideFetched(r))
    BY <2>2, InsideLookupCInv, InsideFetchCInv, InsideFetchedCInv
  <2>3. CASE r \in Inside /\ (InsideInsert(r) \/ InsideReply(r))
    BY <2>3, InsideInsertCInv, ReplyCInv
  <2>4. CASE FetchFails(r)
    BY <2>4, FetchFailsCInv
  <2>. QED  BY <1>7, <2>1, <2>2, <2>3, <2>4, <2>5 DEF ReadProceeds
<1>8. ASSUME NEW kind \in Kinds, Expire(kind)  PROVE ReadInv'
  BY <1>8, ExpireCInv
<1>9. ASSUME UNCHANGED allVars  PROVE ReadInv'
  <2>1. UNCHANGED <<server, put, acked, generation, handler, lock, cache, read>>
    BY <1>9 DEF allVars, vars, bootVars, requestVars, putHistory
  <2>2. ReadTypes' /\ GuardedSteps' /\ OwnCache' /\ OneLeader' /\ NothingUnlessUp' /\ AckedInstalled'
    BY <2>1 DEF CInv, ReadInv, ReadTypes, GuardedSteps, InGuard, OwnCache, OneLeader, KindOf,
       NothingUnlessUp,
       AckedInstalled
  <2>3. Fetched' /\ OutsideHolds' /\ CameBefore' /\ EntryIsRecent'
    BY <2>1 DEF CInv, ReadInv, Fetched, OutsideHolds, KindOf, CameBefore, EntryIsRecent, Reading
  <2>4. OutsideFresh' /\ OutsideCacheCurrent'
    BY <2>1 DEF CInv, ReadInv, OutsideFresh, Fresh, KindOf, OutsideCacheCurrent
  <2>. QED  BY <2>2, <2>3, <2>4 DEF ReadInv
<1>. QED
  BY <1>1, <1>2, <1>3, <1>4, <1>5, <1>6, <1>7, <1>8, <1>9 DEF CachedNext, CInv

LEMMA CachedInductive == CachedSpec => []CInv
  BY CachedInitCInv, CachedNextCInv, PTL DEF CachedSpec

\* With the caches and their requests around it, the registry does nothing else
\* than alone: what is proved of Registry holds here.
THEOREM RegistryIsKept == CachedSpec => Spec
<1>1. CachedInit => Init
  BY DEF CachedInit
<1>. QED  BY <1>1, CachedStepIsStep, PTL DEF CachedSpec, Spec

\* Types; the guard is held or awaited at the steps that need it and nowhere
\* else, and the misses of a key share one fetch.
THEOREM CachedTypeCorrect == CachedSpec => []CachedTypeOK
<1>1. CInv => CachedTypeOK
  <2> SUFFICES ASSUME CInv PROVE CachedTypeOK
    OBVIOUS
  <2>1. \A kind \in Kinds : Cardinality(Leaders(kind)) <= 1
    <3> SUFFICES ASSUME NEW kind \in Kinds PROVE Cardinality(Leaders(kind)) <= 1
      OBVIOUS
    <3>1. \A r, q \in Leaders(kind) : r = q
      BY DEF Leaders, CInv, ReadInv, OneLeader
    <3>2. CASE Leaders(kind) = {}
      BY <3>2, FS_EmptySet
    <3>3. CASE Leaders(kind) # {}
      <4>1. PICK r \in Leaders(kind) : Leaders(kind) = {r}
        BY <3>1, <3>3
      <4>2. Cardinality(Leaders(kind)) = 1
        BY <4>1, FS_Singleton
      <4>. QED  BY <4>2
    <3>. QED  BY <3>2, <3>3
  <2>. QED
    BY <2>1 DEF CInv, IInv, ReadInv, ReadTypes, Reads, Steps, GuardedSteps, InGuard, CachedTypeOK
<1>. QED  BY <1>1, CachedInductive, PTL

\* Where the read guard is kept over the cache call and the fetch asks the provider
\* it guards (not for a taker's list), no request that comes after a PUT returned
\* 200 is answered from the registry that PUT replaced: not from the cache, not
\* from a fetch it joined, not from its own.
THEOREM GuardedReadsAreFresh == CachedSpec => []OutsideFresh
<1>1. CInv => OutsideFresh
  BY DEF CInv, ReadInv
<1>. QED  BY <1>1, CachedInductive, PTL

\* Once every PUT has cleared its caches, an entry of those handlers' caches (not
\* of the cache of takers' lists) comes from the provider in use.
THEOREM GuardedCachesAreCurrent == CachedSpec => []OutsideCacheCurrent
<1>1. CInv => OutsideCacheCurrent
  BY DEF CInv, ReadInv
<1>. QED  BY <1>1, CachedInductive, PTL
=============================================================================

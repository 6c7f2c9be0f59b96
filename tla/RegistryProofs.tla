--------------------------- MODULE RegistryProofs ---------------------------
(***************************************************************************)
(* Proofs about Registry, for any requests, URLs and number of PUTs.       *)
(*                                                                         *)
(* The lock comes first: what granting does to who reads, writes and       *)
(* waits (LockOK, SettleFacts and what follows from them).  On top of it   *)
(* the inductive invariant IInv ties the row, the provider and the PUT     *)
(* that holds the write guard together.                                    *)
(***************************************************************************)
EXTENDS Registry, NaturalFacts, SequenceTheorems, TLAPS

Modes == {"read", "write"}
Locks == [readers : SUBSET Processes, writer : Processes \cup {Nobody}, queue : Seq(Waiting)]

\* Nobody is in the lock twice: waiting at two places, or holding and waiting.
NoneTwice(l) ==
    /\ \A i, j \in 1..Len(l.queue) : l.queue[i].who = l.queue[j].who => i = j
    /\ \A i \in 1..Len(l.queue) : l.queue[i].who \notin l.readers \cup {l.writer}

\* Who can be granted is not kept waiting: only a writer waits for readers.
Granted(l) == NoWriter(l) /\ Len(l.queue) > 0 => l.queue[1].mode = "write"

\* Readers and the writer that wait or hold.
ReadSide(l) == l.readers \cup Asking(l, "read")
WriteSide(l) == Asking(l, "write") \cup ({l.writer} \ {Nobody})

LockOK(l) == l \in Locks /\ Exclusive(l) /\ NoneTwice(l)

-----------------------------------------------------------------------------
USE ProcessAssumption, UrlAssumption

LEMMA NobodyIsNoProcess == Nobody \notin Processes /\ Admins \cap Handlers = {}
  BY DEF Processes

\* Asking, entry by entry.
LEMMA AskingEntries ==
  ASSUME NEW l \in Locks, NEW mode \in Modes
  PROVE  \A p : p \in Asking(l, mode) <=>
            \E i \in 1..Len(l.queue) : l.queue[i].who = p /\ l.queue[i].mode = mode
<1>1. l.queue \in Seq(Waiting) /\ DOMAIN l.queue = 1..Len(l.queue)
  BY DEF Locks
<1>. QED  BY <1>1, Zenon DEF Asking

LEMMA QueueEntries ==
  ASSUME NEW q \in Seq(Waiting)
  PROVE  \A i \in 1..Len(q) : q[i] \in Waiting /\ q[i].who \in Processes /\ q[i].mode \in Modes
<1>1. \A w \in Waiting : w.who \in Processes /\ w.mode \in Modes
  BY DEF Waiting, Modes
<1>2. \A i \in 1..Len(q) : q[i] \in Waiting
  OBVIOUS
<1>. QED  BY <1>1, <1>2

\* The readers at the head of a queue can be counted.
LEMMA ReadersAheadFacts ==
  ASSUME NEW q \in Seq(Waiting)
  PROVE  /\ ReadersAhead(q) \in 0..Len(q)
         /\ \A i \in 1..ReadersAhead(q) : q[i].mode = "read"
         /\ ReadersAhead(q) < Len(q) => q[ReadersAhead(q) + 1].mode = "write"
<1> DEFINE Ahead(n) == /\ \A i \in 1..n : q[i].mode = "read"
                       /\ n < Len(q) => q[n + 1].mode = "write"
           Writers == {i \in 1..Len(q) : q[i].mode = "write"}
<1>0. \A i \in 1..Len(q) : q[i].mode \in {"read", "write"}
  BY QueueEntries DEF Modes
<1>1. \E n \in 0..Len(q) : Ahead(n)
  <2>1. CASE Writers = {}
    <3>1. Ahead(Len(q))  BY <2>1, <1>0
    <3>. QED  BY <3>1
  <2>2. CASE Writers # {}
    <3>1. Writers \subseteq Nat
      OBVIOUS
    <3>2. PICK m \in Writers : \A n \in Writers : m <= n
      BY <2>2, <3>1, LeastNatural
    <3>3. m - 1 \in 0..Len(q) /\ Ahead(m - 1)
      BY <3>2, <1>0
    <3>. QED  BY <3>3
  <2>. QED  BY <2>1, <2>2
<1>. QED  BY <1>1 DEF ReadersAhead

\* The queue of s is that of l without its first n entries.
Cut(l, s, n) ==
    /\ n \in 0..Len(l.queue) /\ Len(s.queue) = Len(l.queue) - n
    /\ \A i \in 1..Len(s.queue) : s.queue[i] = l.queue[n + i]

LEMMA AskingCut ==
  ASSUME NEW l \in Locks, NEW s \in Locks, NEW n, Cut(l, s, n), NEW mode \in Modes
  PROVE  \A p : p \in Asking(l, mode) <=>
            \/ p \in Asking(s, mode)
            \/ \E i \in 1..n : l.queue[i].who = p /\ l.queue[i].mode = mode
<1>0. Len(l.queue) \in Nat /\ Len(s.queue) \in Nat
  BY DEF Locks
<1>1. ASSUME NEW p, NEW i \in 1..Len(l.queue), l.queue[i].who = p, l.queue[i].mode = mode,
             ~(i \in 1..n)
      PROVE  p \in Asking(s, mode)
  <2>1. i - n \in 1..Len(s.queue) /\ s.queue[i - n] = l.queue[i]
    BY <1>0, <1>1 DEF Cut
  <2>. QED  BY <1>1, <2>1, AskingEntries
<1>2. ASSUME NEW p, NEW i \in 1..Len(s.queue), s.queue[i].who = p, s.queue[i].mode = mode
      PROVE  p \in Asking(l, mode)
  <2>1. n + i \in 1..Len(l.queue) /\ s.queue[i] = l.queue[n + i]
    BY <1>0, <1>2 DEF Cut
  <2>. QED  BY <1>2, <2>1, AskingEntries
<1>3. ASSUME NEW i \in 1..n  PROVE i \in 1..Len(l.queue)
  BY <1>0 DEF Cut
<1>. QED  BY <1>1, <1>2, <1>3, AskingEntries

LEMMA NoneTwiceCut ==
  ASSUME NEW l \in Locks, NEW s \in Locks, NEW n, Cut(l, s, n), NoneTwice(l),
         \A i \in 1..Len(s.queue) :
            s.queue[i].who \notin (s.readers \cup {s.writer}) \ (l.readers \cup {l.writer})
  PROVE  NoneTwice(s)
<1>0. Len(l.queue) \in Nat /\ Len(s.queue) \in Nat
  BY DEF Locks
<1>1. ASSUME NEW i \in 1..Len(s.queue)
      PROVE  n + i \in 1..Len(l.queue) /\ s.queue[i] = l.queue[n + i]
  BY <1>0 DEF Cut
<1>2. ASSUME NEW i \in 1..Len(s.queue), NEW j \in 1..Len(s.queue),
             s.queue[i].who = s.queue[j].who
      PROVE  i = j
  <2>1. n + i = n + j
    BY <1>1, <1>2 DEF NoneTwice
  <2>. QED  BY <2>1 DEF Cut
<1>. QED  BY <1>1, <1>2 DEF NoneTwice

\* What granting does: readers and writers stay who they are, whether they hold
\* or wait; nobody loses a guard; and no reader comes in beside a writer.
LEMMA SettleFacts ==
  ASSUME NEW l, LockOK(l)
  PROVE  LET s == Settle(l) IN
         /\ LockOK(s) /\ Granted(s)
         /\ ReadSide(s) = ReadSide(l) /\ WriteSide(s) = WriteSide(l)
         /\ l.readers \subseteq s.readers
         /\ l.writer # Nobody => s.writer = l.writer
         /\ s.readers # l.readers => s.writer = Nobody /\ l.writer = Nobody
         /\ Granted(l) => s.readers = l.readers
<1> DEFINE q == l.queue
           n == ReadersAhead(q)
           Rest(k) == SubSeq(q, k + 1, Len(q))
           s == Settle(l)
<1>0. /\ l \in Locks /\ q \in Seq(Waiting) /\ l.readers \subseteq Processes
      /\ l.writer \in Processes \cup {Nobody}
      /\ Exclusive(l) /\ NoneTwice(l)
  BY DEF LockOK, Locks
<1>1. /\ n \in 0..Len(q)
      /\ \A i \in 1..n : q[i].mode = "read"
      /\ n < Len(q) => q[n + 1].mode = "write"
  BY <1>0, ReadersAheadFacts
<1>2. \A i \in 1..Len(q) : q[i] \in Waiting /\ q[i].who \in Processes /\ q[i].mode \in Modes
  BY <1>0, QueueEntries
<1>3. ASSUME NEW k \in 0..Len(q)
      PROVE  /\ Rest(k) \in Seq(Waiting) /\ Len(Rest(k)) = Len(q) - k
             /\ \A i \in 1..(Len(q) - k) : Rest(k)[i] = q[k + i]
  <2>1. \A i \in (k + 1)..Len(q) : q[i] \in Waiting
    BY <1>2
  <2>. QED  BY <1>0, <2>1, SubSeqProperties
<1> HIDE DEF n, Rest
<1>4. CASE q # <<>> /\ q[1].mode = "write" /\ NoHolder(l)
  <2>1. s = [l EXCEPT !.writer = q[1].who, !.queue = Rest(1)]
    BY <1>4 DEF Settle, Rest
  <2>2. l.readers = {} /\ l.writer = Nobody /\ Len(q) \in Nat /\ 1 \in 1..Len(q)
    BY <1>0, <1>4, EmptySeq DEF NoHolder, NoWriter
  <2>3. Rest(1) \in Seq(Waiting) /\ q[1].who \in Processes
    BY <1>2, <1>3, <2>2
  <2> HIDE DEF s
  <2>4. s.readers = {} /\ s.writer = q[1].who /\ s.queue = Rest(1) /\ s \in Locks
    BY <1>0, <2>1, <2>2, <2>3 DEF Locks
  <2>5. Cut(l, s, 1)
    BY <1>3, <2>2, <2>4 DEF Cut
  <2>6. s.writer # Nobody /\ Exclusive(s) /\ Granted(s)
    BY <2>3, <2>4, NobodyIsNoProcess DEF Exclusive, Granted, NoWriter
  <2>7. NoneTwice(s)
    <3>1. ASSUME NEW i \in 1..Len(s.queue)  PROVE s.queue[i].who # s.writer
      <4>1. 1 + i \in 1..Len(q) /\ s.queue[i] = q[1 + i] /\ 1 + i # 1
        BY <2>2, <2>5 DEF Cut
      <4>. QED  BY <1>0, <2>2, <2>4, <4>1 DEF NoneTwice
    <3>. QED  BY <1>0, <2>4, <2>5, <3>1, NoneTwiceCut
  <2>8. Asking(l, "read") = Asking(s, "read")
    <3>1. \A p : p \in Asking(l, "read") <=> p \in Asking(s, "read")
      BY <1>0, <1>4, <2>4, <2>5, AskingCut DEF Modes
    <3>. QED  BY <3>1
  <2>9. Asking(l, "write") = Asking(s, "write") \cup {s.writer}
    <3>1. \A p : p \in Asking(l, "write") <=> p \in Asking(s, "write") \/ p = s.writer
      BY <1>0, <1>4, <2>4, <2>5, AskingCut DEF Modes
    <3>. QED  BY <3>1
  <2>. QED  BY <2>2, <2>4, <2>6, <2>7, <2>8, <2>9 DEF LockOK, ReadSide, WriteSide, s
<1>5. CASE ~(q # <<>> /\ q[1].mode = "write" /\ NoHolder(l)) /\ NoWriter(l)
  <2> DEFINE Let == {q[i].who : i \in 1..n}
  <2>1. s = [l EXCEPT !.readers = @ \cup Let, !.queue = Rest(n)]
    BY <1>5 DEF Settle, Rest, n
  <2>2. Let \subseteq Processes /\ Rest(n) \in Seq(Waiting) /\ l.writer = Nobody
    <3>1. \A i \in 1..n : i \in 1..Len(q)
      BY <1>0, <1>1
    <3>2. Let \subseteq Processes
      BY <1>2, <3>1
    <3>. QED  BY <1>1, <1>3, <1>5, <3>2 DEF NoWriter
  <2> HIDE DEF s, Let
  <2>4. /\ s.readers = l.readers \cup Let /\ s.writer = Nobody /\ s.queue = Rest(n)
        /\ s \in Locks
    BY <1>0, <2>1, <2>2 DEF Locks
  <2>5. Cut(l, s, n)
    BY <1>1, <1>3, <2>4 DEF Cut
  <2>6. Exclusive(s) /\ Granted(s)
    <3>1. Len(s.queue) > 0 => n < Len(q) /\ s.queue[1] = q[n + 1]
      BY <1>0, <2>5 DEF Cut
    <3>. QED  BY <1>1, <2>4, <3>1 DEF Exclusive, Granted, NoWriter
  <2>7. NoneTwice(s)
    <3>1. ASSUME NEW i \in 1..Len(s.queue)  PROVE s.queue[i].who \notin Let
      <4>1. n + i \in 1..Len(q) /\ s.queue[i] = q[n + i] /\ \A j \in 1..n : j \in 1..Len(q) /\ j # n + i
        BY <1>0, <1>1, <2>5 DEF Cut
      <4>. QED  BY <1>0, <4>1 DEF NoneTwice, Let
    <3>. QED  BY <1>0, <2>2, <2>4, <2>5, <3>1, NoneTwiceCut
  <2>8. Asking(l, "read") = Asking(s, "read") \cup Let
    <3>1. \A p : p \in Asking(l, "read") <=> p \in Asking(s, "read") \/ p \in Let
      BY <1>0, <1>1, <2>4, <2>5, AskingCut DEF Modes, Let
    <3>. QED  BY <3>1
  <2>9. Asking(l, "write") = Asking(s, "write")
    <3>1. \A p : p \in Asking(l, "write") <=> p \in Asking(s, "write")
      BY <1>0, <1>1, <2>4, <2>5, AskingCut DEF Modes
    <3>. QED  BY <3>1
  <2>10. Granted(l) => Let = {}
    <3>1. CASE n = 0
      BY <3>1 DEF Let
    <3>2. CASE n # 0
      BY <1>0, <1>1, <2>2, <3>2 DEF Granted, NoWriter
    <3>. QED  BY <3>1, <3>2
  <2>. QED
    BY <1>0, <2>2, <2>4, <2>6, <2>7, <2>8, <2>9, <2>10 DEF LockOK, ReadSide, WriteSide, s
<1>6. CASE ~NoWriter(l)
  <2>1. s = l
    BY <1>6 DEF Settle, NoHolder
  <2>. QED  BY <1>0, <1>6, <2>1 DEF LockOK, NoWriter, Granted
<1>. QED  BY <1>4, <1>5, <1>6

\* read().await and write().await: the caller joins its side; guards are kept.
LEMMA RequestFacts ==
  ASSUME NEW l, LockOK(l), NEW p \in Processes, NEW mode \in Modes,
         p \notin ReadSide(l) \cup WriteSide(l)
  PROVE  LET s == Request(l, p, mode) IN
         /\ LockOK(s) /\ Granted(s)
         /\ ReadSide(s) = ReadSide(l) \cup (IF mode = "read" THEN {p} ELSE {})
         /\ WriteSide(s) = WriteSide(l) \cup (IF mode = "write" THEN {p} ELSE {})
         /\ l.readers \subseteq s.readers
         /\ l.writer # Nobody => s.writer = l.writer
         /\ s.readers # l.readers => s.writer = Nobody /\ l.writer = Nobody
<1> DEFINE e == [who |-> p, mode |-> mode]
           t == [l EXCEPT !.queue = Append(@, e)]
<1>0. l \in Locks /\ l.queue \in Seq(Waiting) /\ Len(l.queue) \in Nat /\ Exclusive(l) /\ NoneTwice(l)
  BY DEF LockOK, Locks
<1>1. e \in Waiting /\ e.who = p /\ e.mode = mode
  BY DEF Waiting, Modes
<1> HIDE DEF e
<1>2. /\ t.readers = l.readers /\ t.writer = l.writer /\ t.queue = Append(l.queue, e)
      /\ t \in Locks
  BY <1>0, <1>1 DEF Locks
<1> HIDE DEF t
<1>3. /\ Len(t.queue) = Len(l.queue) + 1 /\ t.queue[Len(l.queue) + 1] = e
      /\ \A i \in 1..Len(l.queue) : t.queue[i] = l.queue[i]
  BY <1>0, <1>1, <1>2
<1>4. \A m \in Modes : \A r : r \in Asking(t, m) <=> r \in Asking(l, m) \/ (m = mode /\ r = p)
  <2> SUFFICES ASSUME NEW m \in Modes, NEW r
               PROVE  r \in Asking(t, m) <=> r \in Asking(l, m) \/ (m = mode /\ r = p)
    OBVIOUS
  <2>1. \A i : i \in 1..Len(t.queue) <=> i \in 1..Len(l.queue) \/ i = Len(l.queue) + 1
    BY <1>0, <1>3
  <2>2. r \in Asking(t, m) <=>
            \E i \in 1..Len(t.queue) : t.queue[i].who = r /\ t.queue[i].mode = m
    <3>1. t \in Locks
      BY <1>2
    <3>2. \A q : q \in Asking(t, m) <=>
            \E i \in 1..Len(t.queue) : t.queue[i].who = q /\ t.queue[i].mode = m
      BY <3>1, AskingEntries
    <3>. QED  BY <3>2, Zenon
  <2>3. r \in Asking(l, m) <=>
            \E i \in 1..Len(l.queue) : l.queue[i].who = r /\ l.queue[i].mode = m
    BY <1>0, AskingEntries
  <2>. QED  BY <1>0, <1>1, <1>3, <2>1, <2>2, <2>3
<1>5. \A i \in 1..Len(l.queue) : l.queue[i].who # p
  <2>1. ASSUME NEW i \in 1..Len(l.queue), l.queue[i].who = p
        PROVE  FALSE
    <3>1. l.queue[i].mode \in Modes
      BY <1>0, QueueEntries
    <3>2. p \in Asking(l, "read") \/ p \in Asking(l, "write")
      BY <1>0, <2>1, <3>1, AskingEntries DEF Modes
    <3>. QED  BY <3>2 DEF ReadSide, WriteSide
  <2>. QED  BY <2>1
<1>6. NoneTwice(t)
  <2>1. p \notin l.readers \cup {l.writer}
    BY NobodyIsNoProcess DEF ReadSide, WriteSide
  <2>. QED  BY <1>0, <1>1, <1>2, <1>3, <1>5, <2>1 DEF NoneTwice
<1>7. LockOK(t)
  BY <1>0, <1>2, <1>6 DEF LockOK, Exclusive, NoWriter
<1>8. /\ ReadSide(t) = ReadSide(l) \cup (IF mode = "read" THEN {p} ELSE {})
      /\ WriteSide(t) = WriteSide(l) \cup (IF mode = "write" THEN {p} ELSE {})
  <2>1. /\ Asking(t, "read") = Asking(l, "read") \cup (IF mode = "read" THEN {p} ELSE {})
        /\ Asking(t, "write") = Asking(l, "write") \cup (IF mode = "write" THEN {p} ELSE {})
    BY <1>4 DEF Modes
  <2>. QED  BY <1>2, <2>1 DEF ReadSide, WriteSide
<1>9. Request(l, p, mode) = Settle(t)
  BY DEF Request, t, e
<1>. QED  BY <1>2, <1>7, <1>8, <1>9, SettleFacts

\* Dropping a read guard lets no other reader in.
LEMMA ReleaseReaderFacts ==
  ASSUME NEW l, LockOK(l), Granted(l), NEW p \in Processes, Reading(l, p)
  PROVE  LET s == Release(l, p) IN
         /\ LockOK(s) /\ Granted(s)
         /\ ReadSide(s) = ReadSide(l) \ {p} /\ WriteSide(s) = WriteSide(l)
         /\ s.readers = l.readers \ {p}
         /\ l.writer = Nobody
<1> DEFINE t == [l EXCEPT !.readers = @ \ {p}, !.writer = IF @ = p THEN Nobody ELSE @]
<1>0. l \in Locks /\ Exclusive(l) /\ NoneTwice(l) /\ p \in l.readers /\ l.writer = Nobody
  BY DEF LockOK, Exclusive, NoWriter, Reading
<1>1. /\ t.readers = l.readers \ {p} /\ t.writer = l.writer /\ t.queue = l.queue
      /\ t \in Locks
  BY <1>0, NobodyIsNoProcess DEF Locks
<1>2. Release(l, p) = Settle(t)
  BY DEF Release
<1> HIDE DEF t
<1>3. LockOK(t) /\ Granted(t)
  BY <1>0, <1>1 DEF LockOK, Exclusive, NoneTwice, Granted, NoWriter
<1>4. \A m \in Modes : Asking(t, m) = Asking(l, m)
  BY <1>1 DEF Asking
<1>5. p \notin Asking(l, "read")
  BY <1>0, AskingEntries DEF NoneTwice, Modes
<1>6. ReadSide(t) = ReadSide(l) \ {p} /\ WriteSide(t) = WriteSide(l)
  BY <1>0, <1>1, <1>4, <1>5 DEF ReadSide, WriteSide, Modes
<1>. QED  BY <1>0, <1>1, <1>2, <1>3, <1>6, SettleFacts

\* Dropping the write guard may let in whoever comes next.
LEMMA ReleaseWriterFacts ==
  ASSUME NEW l, LockOK(l), NEW p \in Processes, Writing(l, p)
  PROVE  LET s == Release(l, p) IN
         /\ LockOK(s) /\ Granted(s)
         /\ ReadSide(s) = ReadSide(l) /\ WriteSide(s) = WriteSide(l) \ {p}
         /\ l.readers = {}
         /\ s.readers # {} => s.writer = Nobody
<1> DEFINE t == [l EXCEPT !.readers = @ \ {p}, !.writer = IF @ = p THEN Nobody ELSE @]
<1>0. l \in Locks /\ Exclusive(l) /\ NoneTwice(l) /\ l.writer = p /\ l.readers = {}
  BY NobodyIsNoProcess DEF LockOK, Exclusive, NoWriter, Writing
<1>1. t.readers = {} /\ t.writer = Nobody /\ t.queue = l.queue /\ t \in Locks
  BY <1>0 DEF Locks
<1>2. Release(l, p) = Settle(t)
  BY DEF Release
<1> HIDE DEF t
<1>3. \A i \in 1..Len(l.queue) : l.queue[i].who \in Processes
  BY <1>0, QueueEntries DEF Locks
<1>4. LockOK(t)
  BY <1>0, <1>1, <1>3, NobodyIsNoProcess DEF LockOK, Exclusive, NoneTwice, NoWriter
<1>5. \A m \in Modes : Asking(t, m) = Asking(l, m)
  BY <1>1 DEF Asking
<1>6. p \notin Asking(l, "write")
  BY <1>0, AskingEntries DEF NoneTwice, Modes
<1>7. ReadSide(t) = ReadSide(l) /\ WriteSide(t) = WriteSide(l) \ {p}
  BY <1>0, <1>1, <1>5, <1>6, NobodyIsNoProcess DEF ReadSide, WriteSide, Modes
<1>. QED  BY <1>0, <1>1, <1>2, <1>4, <1>7, SettleFacts

LEMMA UnlockedFacts ==
  LockOK(Unlocked) /\ Granted(Unlocked) /\ ReadSide(Unlocked) = {} /\ WriteSide(Unlocked) = {}
<1>1. Unlocked \in Locks /\ Unlocked.readers = {} /\ Unlocked.writer = Nobody /\ Unlocked.queue = <<>>
  BY DEF Unlocked, Locks
<1>2. \A m \in Modes : Asking(Unlocked, m) = {}
  BY <1>1, AskingEntries
<1>. QED
  BY <1>1, <1>2 DEF LockOK, Exclusive, NoneTwice, Granted, NoWriter, ReadSide, WriteSide, Modes

-----------------------------------------------------------------------------
\* The inductive invariant.

LockInv == NoneTwice(lock) /\ Granted(lock)

\* Requests and guards exist only while the service is up.
IdleUnlessUp ==
    server # "up" =>
        /\ lock = Unlocked
        /\ put = [a \in Admins |-> NoPut] /\ handler = [h \in Handlers |-> "idle"]

ProviderLoads ==
    /\ server = "down" => provider = NoUrl
    /\ server = "loading" => provider \in Urls
    /\ server = "up" => provider \in Loadable

\* A PUT that asks for the write guard has a registry that loads, and between
\* its two writes the row has it already.
PutsKnown ==
    \A a \in Admins :
        /\ put[a].pc # "idle" => put[a].url \in Urls
        /\ put[a].pc \in {"save", "swap", "invalidate"} => put[a].url \in Loadable
        /\ put[a].pc = "swap" => dbUrl = put[a].url /\ lastPut = put[a].url

\* The provider is the row's, but for an unsaved start and a PUT between its writes.
Matches == server # "down" /\ ~unsaved /\ PutsAt({"swap"}) = {} => provider = dbUrl

\* A start-up goes by the row, unless there is none or it could not be read.
StartsFromRow == server = "loading" => provider = dbUrl \/ dbUrl = NoUrl \/ unread

IInv ==
    /\ TypeOK /\ LockInv
    /\ IdleUnlessUp /\ ProviderLoads /\ PutsKnown /\ Matches /\ StartsFromRow
    /\ PutSurvivesRestarts

-----------------------------------------------------------------------------
Puts == [pc : PutStates, url : Urls \cup {NoUrl}, gen : Nat]

\* TypeOK by its parts: the data, and the guards as the two sides of the lock.
DataOK ==
    /\ dbUrl \in Urls \cup {NoUrl} /\ cfgUrl \in Urls \cup {NoUrl}
    /\ provider \in Urls \cup {NoUrl} /\ lastPut \in Urls \cup {NoUrl}
    /\ server \in {"down", "loading", "up"}
    /\ put \in [Admins -> Puts]
    /\ handler \in [Handlers -> {"idle", "busy"}]
    /\ puts \in Nat /\ generation \in Nat /\ acked \in Nat
    /\ unread \in BOOLEAN /\ unsaved \in BOOLEAN

GuardsOK ==
    /\ LockOK(lock) /\ Granted(lock)
    /\ ReadSide(lock) = PutsAt({"dbPath"}) \cup Busy
    /\ WriteSide(lock) = PutsAt({"save", "swap"})
    /\ \A a \in PutsAt({"swap"}) : Writing(lock, a)

LEMMA TypeParts == TypeOK /\ LockInv <=> DataOK /\ GuardsOK
<1>1. TypeOK <=> /\ DataOK
                 /\ lock \in Locks /\ Exclusive(lock)
                 /\ ReadSide(lock) = PutsAt({"dbPath"}) \cup Busy
                 /\ WriteSide(lock) = PutsAt({"save", "swap"})
                 /\ \A a \in PutsAt({"swap"}) : Writing(lock, a)
  BY DEF TypeOK, GuardsMatchSteps, DataOK, Locks, Puts, ReadSide, WriteSide
<1>. QED  BY <1>1 DEF GuardsOK, LockInv, LockOK

LEMMA TypePartsNext == TypeOK' /\ LockInv' <=> DataOK' /\ GuardsOK'
  BY TypeParts, PTL

\* One PUT moves: who is where afterwards.
LEMMA PutMoves ==
  ASSUME put \in [Admins -> Puts], NEW a \in Admins, NEW p \in Puts,
         put' = [put EXCEPT ![a] = p]
  PROVE  /\ put' \in [Admins -> Puts]
         /\ put'[a] = p /\ \A b \in Admins \ {a} : put'[b] = put[b]
         /\ PutsAt({"dbPath"})' =
                (PutsAt({"dbPath"}) \ {a}) \cup (IF p.pc = "dbPath" THEN {a} ELSE {})
         /\ PutsAt({"save", "swap"})' =
                (PutsAt({"save", "swap"}) \ {a})
                    \cup (IF p.pc \in {"save", "swap"} THEN {a} ELSE {})
         /\ PutsAt({"swap"})' =
                (PutsAt({"swap"}) \ {a}) \cup (IF p.pc = "swap" THEN {a} ELSE {})
  BY DEF PutsAt

LEMMA PutStepMoves ==
  ASSUME put \in [Admins -> Puts], NEW a \in Admins, NEW from, NEW to \in PutStates,
         PutStep(a, from, to)
  PROVE  LET p == [put[a] EXCEPT !.pc = to] IN
         /\ p \in Puts /\ p.pc = to /\ p.url = put[a].url
         /\ put[a].pc = from /\ put' = [put EXCEPT ![a] = p]
  BY DEF PutStep, Puts

LEMMA NoPutFacts == NoPut \in Puts /\ NoPut.pc = "idle" /\ NoPut.url = NoUrl
  BY DEF NoPut, Puts, PutStates

LEMMA NoPuts ==
  ASSUME put = [a \in Admins |-> NoPut], handler = [h \in Handlers |-> "idle"]
  PROVE  /\ put \in [Admins -> Puts] /\ handler \in [Handlers -> {"idle", "busy"}]
         /\ Busy = {} /\ \A pcs : "idle" \notin pcs => PutsAt(pcs) = {}
  BY NoPutFacts DEF PutsAt, Busy

LEMMA InitIInv == Init => IInv
<1> SUFFICES ASSUME Init PROVE IInv
  OBVIOUS
<1>1. /\ put \in [Admins -> Puts] /\ handler \in [Handlers -> {"idle", "busy"}]
      /\ Busy = {} /\ \A pcs : "idle" \notin pcs => PutsAt(pcs) = {}
  BY NoPuts DEF Init
<1>2. DataOK
  BY <1>1 DEF Init, DataOK
<1>3. GuardsOK
  <2>1. PutsAt({"dbPath"}) = {} /\ PutsAt({"save", "swap"}) = {} /\ PutsAt({"swap"}) = {}
    BY <1>1
  <2>2. lock = Unlocked
    BY DEF Init
  <2>. QED  BY <1>1, <2>1, <2>2, UnlockedFacts DEF GuardsOK
<1>4. IdleUnlessUp /\ ProviderLoads /\ Matches /\ StartsFromRow /\ PutSurvivesRestarts
  BY DEF Init, IdleUnlessUp, ProviderLoads, Matches, StartsFromRow, PutSurvivesRestarts
<1>5. PutsKnown
  BY NoPutFacts DEF Init, PutsKnown
<1>. QED  BY <1>2, <1>3, <1>4, <1>5, TypeParts DEF IInv

Boots == (\E url \in Urls \cup {NoUrl} : EditConfig(url)) \/ Boot

LEMMA BootIInv ==
  ASSUME IInv, Boots
  PROVE  IInv'
<1> USE DEF IInv
<1>0. UNCHANGED <<lock, put, handler>> /\ server # "up"
  BY DEF Boots, Boot, EditConfig, BootFromDb, BootFromConfig, BootLoad, requestVars
<1>1. DataOK /\ GuardsOK
  BY TypeParts
<1>2. /\ \A pcs : "idle" \notin pcs => PutsAt(pcs) = {}
      /\ \A a \in Admins : put[a] = NoPut
  BY <1>0, NoPuts DEF IdleUnlessUp
<1>3. PutsAt({"swap"}) = {} /\ PutsAt({"swap"})' = {}
  BY <1>0, <1>2 DEF PutsAt
<1>4. GuardsOK'
  <2>1. UNCHANGED <<PutsAt({"dbPath"}), PutsAt({"save", "swap"}), Busy>>
    BY <1>0 DEF PutsAt, Busy
  <2>. QED  BY <1>0, <1>1, <1>3, <2>1 DEF GuardsOK
<1>5. PutsKnown'
  BY <1>0, <1>2, NoPutFacts DEF PutsKnown
<1>6. ASSUME NEW url \in Urls \cup {NoUrl}, EditConfig(url)
      PROVE  DataOK' /\ IdleUnlessUp' /\ ProviderLoads' /\ Matches' /\ StartsFromRow'
             /\ PutSurvivesRestarts'
  BY <1>0, <1>1, <1>3, <1>6 DEF EditConfig, putHistory, DataOK, IdleUnlessUp, ProviderLoads,
     Matches, StartsFromRow, PutSurvivesRestarts
<1>7. ASSUME BootFromDb
      PROVE  DataOK' /\ IdleUnlessUp' /\ ProviderLoads' /\ Matches' /\ StartsFromRow'
             /\ PutSurvivesRestarts'
  BY <1>0, <1>1, <1>3, <1>7 DEF BootFromDb, putHistory, DataOK, IdleUnlessUp, ProviderLoads,
     Matches, StartsFromRow, PutSurvivesRestarts
<1>8. ASSUME BootFromConfig
      PROVE  DataOK' /\ IdleUnlessUp' /\ ProviderLoads' /\ Matches' /\ StartsFromRow'
             /\ PutSurvivesRestarts'
  <2>1. PICK saved \in BOOLEAN : /\ dbUrl' = IF saved THEN cfgUrl ELSE dbUrl
                                 /\ unsaved' = (dbUrl' # cfgUrl)
    BY <1>8 DEF BootFromConfig
  <2>2. /\ server = "down" /\ cfgUrl # NoUrl /\ unread' = (unread \/ dbUrl # NoUrl)
        /\ server' = "loading" /\ provider' = cfgUrl
        /\ UNCHANGED <<cfgUrl, puts, generation, acked, lastPut>>
    BY <1>8 DEF BootFromConfig, putHistory
  <2>3. DataOK'
    BY <1>0, <1>1, <2>1, <2>2 DEF DataOK
  <2>4. IdleUnlessUp' /\ ProviderLoads' /\ Matches'
    BY <1>0, <1>1, <2>1, <2>2 DEF IdleUnlessUp, ProviderLoads, Matches, DataOK
  <2>5. StartsFromRow' /\ PutSurvivesRestarts'
    BY <1>1, <2>1, <2>2 DEF StartsFromRow, PutSurvivesRestarts, DataOK
  <2>. QED  BY <2>3, <2>4, <2>5
<1>9. ASSUME BootLoad
      PROVE  DataOK' /\ IdleUnlessUp' /\ ProviderLoads' /\ Matches' /\ StartsFromRow'
             /\ PutSurvivesRestarts'
  BY <1>0, <1>1, <1>3, <1>9 DEF BootLoad, DataOK, IdleUnlessUp, ProviderLoads,
     Matches, StartsFromRow, PutSurvivesRestarts
<1>. QED  BY <1>4, <1>5, <1>6, <1>7, <1>8, <1>9, TypePartsNext DEF Boots, Boot

LEMMA ExitIInv ==
  ASSUME IInv, Exit
  PROVE  IInv'
<1>1. DataOK /\ GuardsOK
  BY TypeParts DEF IInv
<1>2. /\ put' \in [Admins -> Puts] /\ handler' \in [Handlers -> {"idle", "busy"}]
      /\ Busy' = {} /\ \A pcs : "idle" \notin pcs => PutsAt(pcs)' = {}
  BY NoPutFacts DEF Exit, Busy, PutsAt
<1>3. DataOK'
  BY <1>1, <1>2 DEF Exit, DataOK, putHistory
<1>4. GuardsOK'
  <2>1. /\ PutsAt({"dbPath"})' = {} /\ PutsAt({"save", "swap"})' = {}
        /\ PutsAt({"swap"})' = {} /\ lock' = Unlocked
    BY <1>2 DEF Exit
  <2>. QED  BY <1>2, <2>1, UnlockedFacts DEF GuardsOK
<1>5. IdleUnlessUp' /\ ProviderLoads' /\ Matches' /\ StartsFromRow' /\ PutSurvivesRestarts'
  BY DEF IInv, Exit, putHistory, IdleUnlessUp, ProviderLoads, Matches, StartsFromRow,
     PutSurvivesRestarts
<1>6. PutsKnown'
  BY NoPutFacts DEF Exit, PutsKnown
<1>. QED  BY <1>3, <1>4, <1>5, <1>6, TypePartsNext DEF IInv

-----------------------------------------------------------------------------
\* What a PUT can rely on.
LEMMA PutFacts ==
  ASSUME IInv, NEW a \in Admins
  PROVE  /\ a \in Processes /\ a # Nobody /\ a \notin Busy /\ put[a] \in Puts
         /\ \A b \in PutsAt({"swap"}) : lock.writer = b
         /\ \A b \in Admins : \A pcs : b \in PutsAt(pcs) <=> put[b].pc \in pcs
  BY TypeParts, NobodyIsNoProcess DEF IInv, DataOK, GuardsOK, Processes, Busy, PutsAt, Writing

\* While a PUT moves, what does not concern its row, provider and lock holds on.
LEMMA PutFrame ==
  ASSUME IInv, server = "up", server' = "up", NEW a \in Admins, NEW p \in Puts,
         put' = [put EXCEPT ![a] = p],
         UNCHANGED <<dbUrl, provider, cfgUrl, unread, unsaved, handler, lastPut>>,
         puts' \in Nat, generation' \in Nat, acked' \in Nat,
         p.pc \in PutStates \ {"swap"}, p.pc # "idle" => p.url \in Urls,
         p.pc \in {"save", "invalidate"} => p.url \in Loadable,
         put[a].pc # "swap"
  PROVE  /\ DataOK' /\ IdleUnlessUp' /\ ProviderLoads' /\ PutsKnown' /\ Matches'
         /\ StartsFromRow' /\ PutSurvivesRestarts'
         /\ Busy' = Busy /\ PutsAt({"swap"})' = PutsAt({"swap"})
<1>1. DataOK
  BY TypeParts DEF IInv
<1>2. /\ put' \in [Admins -> Puts] /\ put'[a] = p
      /\ \A b \in Admins \ {a} : put'[b] = put[b]
  BY <1>1, PutMoves DEF DataOK
<1>3. Busy' = Busy /\ PutsAt({"swap"})' = PutsAt({"swap"})
  BY <1>2 DEF Busy, PutsAt
<1>4. DataOK'
  BY <1>1, <1>2 DEF DataOK
<1>5. PutsKnown'
  BY <1>2 DEF PutsKnown, IInv
<1>6. IdleUnlessUp' /\ ProviderLoads' /\ Matches' /\ StartsFromRow' /\ PutSurvivesRestarts'
  BY <1>3 DEF IInv, IdleUnlessUp, ProviderLoads, Matches, StartsFromRow, PutSurvivesRestarts
<1>. QED  BY <1>3, <1>4, <1>5, <1>6

LEMMA PutStartIInv ==
  ASSUME IInv, NEW a \in Admins, NEW url \in Urls, PutStart(a, url)
  PROVE  IInv'
<1> DEFINE p == [pc |-> "dbPath", url |-> url, gen |-> 0]
<1>1. DataOK /\ GuardsOK /\ put[a].pc = "idle"
  BY TypeParts, NoPutFacts DEF IInv, PutStart
<1>2. p \in Puts /\ put' = [put EXCEPT ![a] = p] /\ p.pc = "dbPath" /\ p.url = url
  BY DEF PutStart, Puts, PutStates
<1> HIDE DEF p
<1>3. /\ server = "up" /\ server' = "up" /\ puts' = puts + 1 /\ lock' = Request(lock, a, "read")
      /\ UNCHANGED <<dbUrl, provider, cfgUrl, unread, unsaved, handler, lastPut, generation, acked>>
  BY DEF PutStart, bootVars
<1>4. /\ DataOK' /\ IdleUnlessUp' /\ ProviderLoads' /\ PutsKnown' /\ Matches'
      /\ StartsFromRow' /\ PutSurvivesRestarts'
      /\ Busy' = Busy /\ PutsAt({"swap"})' = PutsAt({"swap"})
  <2>1. puts' \in Nat /\ generation' \in Nat /\ acked' \in Nat
    BY <1>1, <1>3 DEF DataOK
  <2>. QED  BY <1>1, <1>2, <1>3, <2>1, PutFrame DEF PutStates
<1>5. /\ PutsAt({"dbPath"})' = PutsAt({"dbPath"}) \cup {a}
      /\ PutsAt({"save", "swap"})' = PutsAt({"save", "swap"})
  BY <1>1, <1>2 DEF DataOK, PutsAt
<1>6. a \in Processes /\ a \notin ReadSide(lock) \cup WriteSide(lock)
  BY <1>1, PutFacts DEF GuardsOK
<1>7. GuardsOK'
  <2>1. /\ LockOK(lock') /\ Granted(lock')
        /\ ReadSide(lock') = ReadSide(lock) \cup {a} /\ WriteSide(lock') = WriteSide(lock)
        /\ lock.writer # Nobody => lock'.writer = lock.writer
    BY <1>1, <1>3, <1>6, RequestFacts DEF GuardsOK, Modes
  <2>2. \A b \in PutsAt({"swap"}) : lock.writer = b /\ b # Nobody
    BY PutFacts, NobodyIsNoProcess DEF PutsAt, Processes
  <2>. QED  BY <1>1, <1>4, <1>5, <2>1, <2>2 DEF GuardsOK, Writing
<1>. QED  BY <1>4, <1>7, TypePartsNext DEF IInv

LEMMA PutCopyDbPathIInv ==
  ASSUME IInv, NEW a \in Admins, PutCopyDbPath(a)
  PROVE  IInv'
<1> DEFINE p == [put[a] EXCEPT !.pc = "load"]
<1>1. DataOK /\ GuardsOK /\ put[a].pc = "dbPath" /\ put[a].url \in Urls
  BY TypeParts DEF IInv, PutCopyDbPath, PutStep, PutsKnown
<1>2. p \in Puts /\ put' = [put EXCEPT ![a] = p] /\ p.pc = "load" /\ p.url = put[a].url
  BY <1>1, PutStepMoves DEF PutCopyDbPath, DataOK, PutStates
<1> HIDE DEF p
<1>3. /\ server = "up" /\ server' = "up" /\ Reading(lock, a) /\ lock' = Release(lock, a)
      /\ UNCHANGED <<dbUrl, provider, cfgUrl, unread, unsaved, handler, lastPut>>
      /\ UNCHANGED <<puts, generation, acked>>
  BY DEF PutCopyDbPath, PutStep, bootVars, putHistory
<1>4. /\ DataOK' /\ IdleUnlessUp' /\ ProviderLoads' /\ PutsKnown' /\ Matches'
      /\ StartsFromRow' /\ PutSurvivesRestarts'
      /\ Busy' = Busy /\ PutsAt({"swap"})' = PutsAt({"swap"})
  <2>1. puts' \in Nat /\ generation' \in Nat /\ acked' \in Nat
    BY <1>1, <1>3 DEF DataOK
  <2>. QED  BY <1>1, <1>2, <1>3, <2>1, PutFrame DEF PutStates
<1>5. /\ PutsAt({"dbPath"})' = PutsAt({"dbPath"}) \ {a}
      /\ PutsAt({"save", "swap"})' = PutsAt({"save", "swap"})
  BY <1>1, <1>2 DEF DataOK, PutsAt
<1>6. GuardsOK'
  <2>1. /\ LockOK(lock') /\ Granted(lock')
        /\ ReadSide(lock') = ReadSide(lock) \ {a} /\ WriteSide(lock') = WriteSide(lock)
        /\ lock.writer = Nobody
    BY <1>1, <1>3, PutFacts, ReleaseReaderFacts DEF GuardsOK
  <2>2. PutsAt({"swap"}) = {} /\ a \notin Busy
    BY <2>1, PutFacts, NobodyIsNoProcess DEF PutsAt, Processes
  <2>. QED  BY <1>1, <1>4, <1>5, <2>1, <2>2 DEF GuardsOK
<1>. QED  BY <1>4, <1>6, TypePartsNext DEF IInv

LEMMA PutLoadIInv ==
  ASSUME IInv, NEW a \in Admins, PutLoad(a)
  PROVE  IInv'
<1> DEFINE p == [put[a] EXCEPT !.pc = "save"]
<1>1. DataOK /\ GuardsOK /\ put[a].pc = "load" /\ put[a].url \in Loadable
  BY TypeParts DEF IInv, PutLoad, PutStep
<1>2. p \in Puts /\ put' = [put EXCEPT ![a] = p] /\ p.pc = "save" /\ p.url = put[a].url
  BY <1>1, PutStepMoves DEF PutLoad, DataOK, PutStates
<1> HIDE DEF p
<1>3. /\ server = "up" /\ server' = "up" /\ lock' = Request(lock, a, "write")
      /\ UNCHANGED <<dbUrl, provider, cfgUrl, unread, unsaved, handler, lastPut>>
      /\ UNCHANGED <<puts, generation, acked>>
  BY DEF PutLoad, PutStep, bootVars, putHistory
<1>4. /\ DataOK' /\ IdleUnlessUp' /\ ProviderLoads' /\ PutsKnown' /\ Matches'
      /\ StartsFromRow' /\ PutSurvivesRestarts'
      /\ Busy' = Busy /\ PutsAt({"swap"})' = PutsAt({"swap"})
  <2>1. puts' \in Nat /\ generation' \in Nat /\ acked' \in Nat
    BY <1>1, <1>3 DEF DataOK
  <2>. QED  BY <1>1, <1>2, <1>3, <2>1, PutFrame DEF PutStates
<1>5. /\ PutsAt({"dbPath"})' = PutsAt({"dbPath"})
      /\ PutsAt({"save", "swap"})' = PutsAt({"save", "swap"}) \cup {a}
  BY <1>1, <1>2 DEF DataOK, PutsAt
<1>6. a \in Processes /\ a \notin ReadSide(lock) \cup WriteSide(lock)
  BY <1>1, PutFacts DEF GuardsOK
<1>7. GuardsOK'
  <2>1. /\ LockOK(lock') /\ Granted(lock')
        /\ ReadSide(lock') = ReadSide(lock) /\ WriteSide(lock') = WriteSide(lock) \cup {a}
        /\ lock.writer # Nobody => lock'.writer = lock.writer
    BY <1>1, <1>3, <1>6, RequestFacts DEF GuardsOK, Modes
  <2>2. \A b \in PutsAt({"swap"}) : lock.writer = b /\ b # Nobody
    BY PutFacts, NobodyIsNoProcess DEF PutsAt, Processes
  <2>. QED  BY <1>1, <1>4, <1>5, <2>1, <2>2 DEF GuardsOK, Writing
<1>. QED  BY <1>4, <1>7, TypePartsNext DEF IInv

\* The steps that only end a request, without a guard in hand.
LEMMA PutEndsIInv ==
  ASSUME IInv, NEW a \in Admins, NEW from \in {"load", "invalidate"}, PutEnds(a, from),
         UNCHANGED <<dbUrl, provider, lock, puts, generation, lastPut>>, acked' \in Nat
  PROVE  IInv'
<1>1. DataOK /\ GuardsOK /\ put[a].pc = from
  BY TypeParts DEF IInv, PutEnds
<1>2. /\ NoPut \in Puts /\ put' = [put EXCEPT ![a] = NoPut] /\ NoPut.pc = "idle"
      /\ server = "up" /\ server' = "up" /\ UNCHANGED <<cfgUrl, unread, unsaved, handler>>
  BY NoPutFacts DEF PutEnds, bootVars
<1>3. /\ DataOK' /\ IdleUnlessUp' /\ ProviderLoads' /\ PutsKnown' /\ Matches'
      /\ StartsFromRow' /\ PutSurvivesRestarts'
      /\ Busy' = Busy /\ PutsAt({"swap"})' = PutsAt({"swap"})
  <2>1. puts' \in Nat /\ generation' \in Nat
    BY <1>1 DEF DataOK
  <2>. QED  BY <1>1, <1>2, <2>1, PutFrame DEF PutStates
<1>4. UNCHANGED <<PutsAt({"dbPath"}), PutsAt({"save", "swap"})>>
  BY <1>1, <1>2 DEF DataOK, PutsAt
<1>5. GuardsOK'
  BY <1>1, <1>3, <1>4 DEF GuardsOK, Writing
<1>. QED  BY <1>3, <1>5, TypePartsNext DEF IInv

LEMMA PutLoadFailsIInv ==
  ASSUME IInv, NEW a \in Admins, PutLoadFails(a)
  PROVE  IInv'
<1>1. acked' \in Nat
  BY TypeParts DEF IInv, PutLoadFails, putHistory, DataOK
<1>. QED  BY <1>1, PutEndsIInv DEF PutLoadFails, putHistory

LEMMA PutInvalidateIInv ==
  ASSUME IInv, NEW a \in Admins, PutInvalidate(a)
  PROVE  IInv'
<1>1. acked' \in Nat
  BY TypeParts DEF IInv, PutInvalidate, DataOK, Puts
<1>. QED  BY <1>1, PutEndsIInv DEF PutInvalidate

LEMMA PutSaveIInv ==
  ASSUME IInv, NEW a \in Admins, PutSave(a)
  PROVE  IInv'
<1> DEFINE p == [put[a] EXCEPT !.pc = "swap"]
<1>1. /\ DataOK /\ GuardsOK /\ put[a].pc = "save"
      /\ put[a].url \in Loadable /\ put[a].url \in Urls
  BY TypeParts DEF IInv, PutSave, PutStep, PutsKnown
<1>2. p \in Puts /\ put' = [put EXCEPT ![a] = p] /\ p.pc = "swap" /\ p.url = put[a].url
  BY <1>1, PutStepMoves DEF PutSave, DataOK, PutStates
<1> HIDE DEF p
<1>3. /\ server = "up" /\ server' = "up" /\ Writing(lock, a)
      /\ dbUrl' = put[a].url /\ lastPut' = put[a].url
      /\ UNCHANGED <<provider, cfgUrl, unread, unsaved, handler, lock, puts, generation, acked>>
  BY DEF PutSave, PutStep, bootVars
<1>4. PutsAt({"swap"}) = {}
  BY <1>1, <1>3, PutFacts DEF Writing, PutsAt
<1>5. /\ put' \in [Admins -> Puts] /\ put'[a] = p /\ \A b \in Admins \ {a} : put'[b] = put[b]
      /\ PutsAt({"dbPath"})' = PutsAt({"dbPath"}) /\ PutsAt({"swap"})' = {a}
      /\ PutsAt({"save", "swap"})' = PutsAt({"save", "swap"}) /\ Busy' = Busy
  BY <1>1, <1>2, <1>3, <1>4 DEF DataOK, PutsAt, Busy
<1>6. DataOK'
  BY <1>1, <1>3, <1>5 DEF DataOK
<1>7. GuardsOK'
  BY <1>1, <1>3, <1>5 DEF GuardsOK, Writing
<1>8. PutsKnown'
  <2>1. \A b \in Admins \ {a} : put[b].pc # "swap"
    BY <1>4 DEF PutsAt
  <2>. QED  BY <1>1, <1>2, <1>3, <1>5, <2>1 DEF PutsKnown, IInv
<1>9. IdleUnlessUp' /\ ProviderLoads' /\ Matches' /\ StartsFromRow' /\ PutSurvivesRestarts'
  BY <1>1, <1>3, <1>5 DEF IInv, IdleUnlessUp, ProviderLoads, Matches, StartsFromRow,
     PutSurvivesRestarts
<1>. QED  BY <1>6, <1>7, <1>8, <1>9, TypePartsNext DEF IInv

\* Whoever drops the write guard was the only one between its writes.
LEMMA WriterLeaves ==
  ASSUME IInv, NEW a \in Admins, Writing(lock, a), lock' = Release(lock, a),
         put[a].pc \in {"save", "swap"}, Busy' = Busy,
         PutsAt({"dbPath"})' = PutsAt({"dbPath"}),
         PutsAt({"save", "swap"})' = PutsAt({"save", "swap"}) \ {a},
         PutsAt({"swap"})' = PutsAt({"swap"}) \ {a}
  PROVE  GuardsOK' /\ PutsAt({"swap"})' = {}
<1>1. GuardsOK
  BY TypeParts DEF IInv
<1>2. PutsAt({"swap"})' = {}
  BY PutFacts DEF Writing
<1>3. a \in Processes
  BY PutFacts
<1>4. /\ LockOK(lock') /\ Granted(lock')
      /\ ReadSide(lock') = ReadSide(lock) /\ WriteSide(lock') = WriteSide(lock) \ {a}
  BY <1>1, <1>3, ReleaseWriterFacts DEF GuardsOK
<1>. QED  BY <1>1, <1>2, <1>4 DEF GuardsOK

LEMMA PutSaveFailsIInv ==
  ASSUME IInv, NEW a \in Admins, PutSaveFails(a)
  PROVE  IInv'
<1>1. DataOK /\ GuardsOK /\ put[a].pc = "save"
  BY TypeParts DEF IInv, PutSaveFails, PutEnds
<1>2. NoPut \in Puts /\ put' = [put EXCEPT ![a] = NoPut] /\ NoPut.pc = "idle"
  BY NoPutFacts DEF PutSaveFails, PutEnds
<1>3. /\ server = "up" /\ server' = "up" /\ Writing(lock, a) /\ lock' = Release(lock, a)
      /\ UNCHANGED <<dbUrl, provider, cfgUrl, unread, unsaved, handler, lastPut>>
      /\ UNCHANGED <<puts, generation, acked>>
  BY DEF PutSaveFails, PutEnds, bootVars, putHistory
<1>4. /\ DataOK' /\ IdleUnlessUp' /\ ProviderLoads' /\ PutsKnown' /\ Matches'
      /\ StartsFromRow' /\ PutSurvivesRestarts' /\ Busy' = Busy
  <2>1. puts' \in Nat /\ generation' \in Nat /\ acked' \in Nat
    BY <1>1, <1>3 DEF DataOK
  <2>. QED  BY <1>1, <1>2, <1>3, <2>1, PutFrame DEF PutStates
<1>5. /\ PutsAt({"dbPath"})' = PutsAt({"dbPath"}) /\ PutsAt({"swap"})' = PutsAt({"swap"}) \ {a}
      /\ PutsAt({"save", "swap"})' = PutsAt({"save", "swap"}) \ {a}
  BY <1>1, <1>2 DEF DataOK, PutsAt
<1>6. GuardsOK'
  BY <1>1, <1>3, <1>4, <1>5, WriterLeaves
<1>. QED  BY <1>4, <1>6, TypePartsNext DEF IInv

LEMMA SwappedPut ==
  ASSUME NEW p \in Puts, NEW g \in Nat
  PROVE  [p EXCEPT !.pc = "invalidate", !.gen = g] = [pc |-> "invalidate", url |-> p.url, gen |-> g]
<1>1. /\ [p EXCEPT !.pc = "invalidate"] \in Puts
      /\ [p EXCEPT !.pc = "invalidate"] = [pc |-> "invalidate", url |-> p.url, gen |-> p.gen]
  BY DEF Puts, PutStates
<1>2. ASSUME NEW q \in Puts  PROVE [q EXCEPT !.gen = g] = [pc |-> q.pc, url |-> q.url, gen |-> g]
  BY DEF Puts
<1>3. [p EXCEPT !.pc = "invalidate", !.gen = g] = [[p EXCEPT !.pc = "invalidate"] EXCEPT !.gen = g]
  OBVIOUS
<1>. QED  BY <1>1, <1>2, <1>3

LEMMA PutSwapIInv ==
  ASSUME IInv, NEW a \in Admins, PutSwap(a)
  PROVE  IInv'
<1> DEFINE p == [pc |-> "invalidate", url |-> put[a].url, gen |-> generation + 1]
<1>1. /\ DataOK /\ GuardsOK /\ put[a].pc = "swap" /\ put[a] \in Puts
      /\ put[a].url \in Loadable /\ put[a].url \in Urls /\ dbUrl = put[a].url
  BY TypeParts, PutFacts DEF IInv, PutSwap, PutsKnown
<1>2. put \in [Admins -> Puts] /\ generation \in Nat
  BY <1>1 DEF DataOK
<1>9. p \in Puts /\ put' = [put EXCEPT ![a] = p] /\ p.pc = "invalidate" /\ p.url = put[a].url
  <2>1. put' = [put EXCEPT ![a] = [put[a] EXCEPT !.pc = "invalidate", !.gen = generation + 1]]
    BY <1>2 DEF PutSwap
  <2>2. [put[a] EXCEPT !.pc = "invalidate", !.gen = generation + 1] = p
    <3>1. generation + 1 \in Nat
      BY <1>2
    <3>. QED  BY <1>1, <3>1, SwappedPut, Zenon
  <2>3. p \in Puts /\ p.pc = "invalidate" /\ p.url = put[a].url
    BY <1>1, <1>2 DEF Puts, PutStates
  <2>. QED  BY <2>1, <2>2, <2>3
<1> HIDE DEF p
<1>3. /\ server = "up" /\ server' = "up" /\ Writing(lock, a) /\ lock' = Release(lock, a)
      /\ provider' = put[a].url /\ unsaved' = FALSE /\ generation' = generation + 1
      /\ UNCHANGED <<dbUrl, cfgUrl, unread, handler, lastPut, puts, acked>>
  BY DEF PutSwap
<1>4. /\ put' \in [Admins -> Puts] /\ put'[a] = p /\ \A b \in Admins \ {a} : put'[b] = put[b]
      /\ PutsAt({"dbPath"})' = PutsAt({"dbPath"}) /\ PutsAt({"swap"})' = PutsAt({"swap"}) \ {a}
      /\ PutsAt({"save", "swap"})' = PutsAt({"save", "swap"}) \ {a} /\ Busy' = Busy
  BY <1>1, <1>2, <1>3, <1>9 DEF PutsAt, Busy
<1>5. GuardsOK' /\ PutsAt({"swap"})' = {}
  BY <1>1, <1>3, <1>4, WriterLeaves
<1>6. DataOK'
  <2>1. generation' \in Nat
    BY <1>2, <1>3
  <2>. QED  BY <1>1, <1>3, <1>4, <2>1 DEF DataOK
<1>7. PutsKnown'
  BY <1>1, <1>3, <1>4, <1>9 DEF PutsKnown, IInv
<1>8. IdleUnlessUp' /\ ProviderLoads' /\ Matches' /\ StartsFromRow' /\ PutSurvivesRestarts'
  BY <1>1, <1>3 DEF IInv, IdleUnlessUp, ProviderLoads, Matches, StartsFromRow,
     PutSurvivesRestarts
<1>. QED  BY <1>5, <1>6, <1>7, <1>8, TypePartsNext DEF IInv

\* No step of a PUT takes a handler's guard away; before the steps that need the
\* write guard there is none.
LEMMA PutKeepsReaders ==
  ASSUME IInv, NEW a \in Admins, PutProceeds(a) \/ \E url \in Urls : PutStart(a, url)
  PROVE  /\ server = "up" /\ server' = "up"
         /\ \A h \in Handlers : Reading(lock, h) => Reading(lock', h)
         /\ Writing(lock, a) => lock.readers = {}
<1>1. GuardsOK /\ a \in Processes /\ a \notin Handlers /\ a # Nobody
  BY TypeParts, NobodyIsNoProcess DEF IInv, Processes
<1>2. server = "up" /\ server' = "up"
  BY DEF PutProceeds, PutStart, PutCopyDbPath, PutLoad, PutLoadFails, PutSave, PutSaveFails,
     PutSwap, PutInvalidate, PutStep, PutEnds, bootVars
<1>3. Writing(lock, a) => lock.readers = {}
  BY <1>1 DEF GuardsOK, LockOK, Exclusive, NoWriter, Writing
<1>4. ASSUME NEW mode \in Modes, lock' = Request(lock, a, mode), put[a].pc \in {"idle", "load"}
      PROVE  lock.readers \subseteq lock'.readers
  <2>1. a \notin ReadSide(lock) \cup WriteSide(lock)
    BY <1>1, <1>4, PutFacts DEF GuardsOK
  <2>. QED  BY <1>1, <1>4, <2>1, RequestFacts DEF GuardsOK
<1>5. ASSUME NEW url \in Urls, PutStart(a, url)
      PROVE  lock.readers \subseteq lock'.readers
  BY <1>4, <1>5, NoPutFacts DEF PutStart, Modes
<1>6. CASE PutLoad(a)
  <2>1. lock.readers \subseteq lock'.readers
    BY <1>4, <1>6 DEF PutLoad, PutStep, Modes
  <2>. QED  BY <1>2, <1>3, <2>1 DEF Reading
<1>7. CASE PutCopyDbPath(a)
  <2>1. lock'.readers = lock.readers \ {a}
    BY <1>1, <1>7, ReleaseReaderFacts DEF GuardsOK, PutCopyDbPath
  <2>. QED  BY <1>1, <1>2, <1>3, <2>1 DEF Reading
<1>8. CASE PutSaveFails(a) \/ PutSwap(a)
  BY <1>2, <1>3, <1>8 DEF PutSaveFails, PutSwap, Reading
<1>9. CASE PutLoadFails(a) \/ PutSave(a) \/ PutInvalidate(a)
  BY <1>2, <1>3, <1>9 DEF PutLoadFails, PutSave, PutInvalidate
<1>. QED  BY <1>2, <1>3, <1>5, <1>6, <1>7, <1>8, <1>9 DEF PutProceeds, Reading

-----------------------------------------------------------------------------
\* Handlers change nothing but the lock and who is busy.
LEMMA HandlerFrame ==
  ASSUME IInv, server = "up", handler' \in [Handlers -> {"idle", "busy"}],
         UNCHANGED <<dbUrl, provider, bootVars, put, putHistory>>
  PROVE  /\ DataOK' /\ IdleUnlessUp' /\ ProviderLoads' /\ PutsKnown' /\ Matches'
         /\ StartsFromRow' /\ PutSurvivesRestarts'
         /\ UNCHANGED <<PutsAt({"dbPath"}), PutsAt({"save", "swap"}), PutsAt({"swap"})>>
<1>1. UNCHANGED <<PutsAt({"dbPath"}), PutsAt({"save", "swap"}), PutsAt({"swap"})>>
  BY DEF PutsAt
<1>2. DataOK
  BY TypeParts DEF IInv
<1>3. DataOK'
  BY <1>2 DEF DataOK, bootVars, putHistory
<1>. QED
  BY <1>1, <1>3 DEF IInv, bootVars, putHistory, IdleUnlessUp, ProviderLoads, PutsKnown,
     Matches, StartsFromRow, PutSurvivesRestarts

LEMMA HandlerFacts ==
  ASSUME IInv, NEW h \in Handlers
  PROVE  /\ h \in Processes /\ h # Nobody /\ \A pcs : h \notin PutsAt(pcs)
         /\ (h \in Busy <=> handler[h] = "busy") /\ handler[h] \in {"idle", "busy"}
         /\ \A b \in PutsAt({"swap"}) : lock.writer = b /\ b # Nobody
<1>1. DataOK /\ GuardsOK
  BY TypeParts DEF IInv
<1>. QED
  BY <1>1, NobodyIsNoProcess DEF DataOK, GuardsOK, Processes, Busy, PutsAt, Writing

LEMMA HandlerStartIInv ==
  ASSUME IInv, NEW h \in Handlers, HandlerStart(h)
  PROVE  IInv'
<1>1. DataOK /\ GuardsOK
  BY TypeParts DEF IInv
<1>2. /\ server = "up" /\ handler[h] = "idle" /\ lock' = Request(lock, h, "read")
      /\ handler' = [handler EXCEPT ![h] = "busy"] /\ handler' \in [Handlers -> {"idle", "busy"}]
      /\ UNCHANGED <<dbUrl, provider, bootVars, put, putHistory>>
  BY <1>1 DEF HandlerStart, DataOK
<1>3. /\ DataOK' /\ IdleUnlessUp' /\ ProviderLoads' /\ PutsKnown' /\ Matches'
      /\ StartsFromRow' /\ PutSurvivesRestarts'
      /\ UNCHANGED <<PutsAt({"dbPath"}), PutsAt({"save", "swap"}), PutsAt({"swap"})>>
  BY <1>2, HandlerFrame
<1>4. Busy' = Busy \cup {h}
  BY <1>1, <1>2 DEF DataOK, Busy
<1>5. GuardsOK'
  <2>1. h \in Processes /\ h \notin ReadSide(lock) \cup WriteSide(lock)
    BY <1>1, <1>2, HandlerFacts DEF GuardsOK
  <2>2. /\ LockOK(lock') /\ Granted(lock')
        /\ ReadSide(lock') = ReadSide(lock) \cup {h} /\ WriteSide(lock') = WriteSide(lock)
        /\ lock.writer # Nobody => lock'.writer = lock.writer
    BY <1>1, <1>2, <2>1, RequestFacts DEF GuardsOK, Modes
  <2>. QED  BY <1>1, <1>3, <1>4, <2>2, HandlerFacts DEF GuardsOK, Writing
<1>. QED  BY <1>3, <1>5, TypePartsNext DEF IInv

\* A handler that reads is busy, and no PUT is between its writes.
LEMMA ReadingHandler ==
  ASSUME IInv, NEW h \in Handlers, Reading(lock, h)
  PROVE  h \in Busy /\ server = "up" /\ lock.writer = Nobody /\ PutsAt({"swap"}) = {}
<1>1. GuardsOK
  BY TypeParts DEF IInv
<1>2. lock.writer = Nobody
  BY <1>1 DEF GuardsOK, LockOK, Exclusive, NoWriter, Reading
<1>3. server = "up"
  BY UnlockedFacts DEF IInv, IdleUnlessUp, Reading, ReadSide
<1>. QED  BY <1>1, <1>2, <1>3, HandlerFacts DEF GuardsOK, ReadSide, Reading

LEMMA HandlerEndIInv ==
  ASSUME IInv, NEW h \in Handlers, HandlerEnd(h)
  PROVE  IInv'
<1>1. DataOK /\ GuardsOK
  BY TypeParts DEF IInv
<1>2. /\ Reading(lock, h) /\ lock' = Release(lock, h)
      /\ handler' = [handler EXCEPT ![h] = "idle"] /\ handler' \in [Handlers -> {"idle", "busy"}]
      /\ UNCHANGED <<dbUrl, provider, bootVars, put, putHistory>>
  BY <1>1 DEF HandlerEnd, DataOK
<1>3. server = "up" /\ PutsAt({"swap"}) = {}
  BY <1>2, ReadingHandler
<1>4. /\ DataOK' /\ IdleUnlessUp' /\ ProviderLoads' /\ PutsKnown' /\ Matches'
      /\ StartsFromRow' /\ PutSurvivesRestarts'
      /\ UNCHANGED <<PutsAt({"dbPath"}), PutsAt({"save", "swap"}), PutsAt({"swap"})>>
  BY <1>2, <1>3, HandlerFrame
<1>5. Busy' = Busy \ {h}
  BY <1>1, <1>2 DEF DataOK, Busy
<1>6. GuardsOK'
  <2>1. /\ LockOK(lock') /\ Granted(lock')
        /\ ReadSide(lock') = ReadSide(lock) \ {h} /\ WriteSide(lock') = WriteSide(lock)
    BY <1>1, <1>2, HandlerFacts, ReleaseReaderFacts DEF GuardsOK
  <2>. QED  BY <1>1, <1>3, <1>4, <1>5, <2>1, HandlerFacts DEF GuardsOK
<1>. QED  BY <1>4, <1>6, TypePartsNext DEF IInv

-----------------------------------------------------------------------------
LEMMA NextIInv == IInv /\ [Next]_vars => IInv'
<1> SUFFICES ASSUME IInv, [Next]_vars PROVE IInv'
  OBVIOUS
<1>1. CASE Boots
  BY <1>1, BootIInv
<1>2. CASE Exit
  BY <1>2, ExitIInv
<1>3. ASSUME NEW a \in Admins, PutProceeds(a)
      PROVE  IInv'
  BY <1>3, PutCopyDbPathIInv, PutLoadIInv, PutLoadFailsIInv, PutSaveIInv, PutSaveFailsIInv,
     PutSwapIInv, PutInvalidateIInv DEF PutProceeds
<1>4. ASSUME NEW a \in Admins, NEW url \in Urls, PutStart(a, url)
      PROVE  IInv'
  BY <1>4, PutStartIInv
<1>5. ASSUME NEW h \in Handlers, HandlerStart(h) \/ HandlerEnd(h)
      PROVE  IInv'
  BY <1>5, HandlerStartIInv, HandlerEndIInv
<1>6. CASE UNCHANGED vars
  <2>1. DataOK /\ GuardsOK
    BY TypeParts DEF IInv
  <2>2. DataOK' /\ GuardsOK'
    BY <1>6, <2>1 DEF vars, bootVars, requestVars, putHistory, DataOK, GuardsOK, PutsAt, Busy,
       Writing
  <2>3. /\ IdleUnlessUp' /\ ProviderLoads' /\ PutsKnown' /\ Matches'
        /\ StartsFromRow' /\ PutSurvivesRestarts'
    BY <1>6 DEF IInv, vars, bootVars, requestVars, putHistory, IdleUnlessUp, ProviderLoads,
       PutsKnown, Matches, StartsFromRow, PutSurvivesRestarts, PutsAt
  <2>. QED  BY <2>2, <2>3, TypePartsNext DEF IInv
<1>. QED  BY <1>1, <1>2, <1>3, <1>4, <1>5, <1>6 DEF Next, Boots

LEMMA Inductive == Spec => []IInv
  BY InitIInv, NextIInv, PTL DEF Spec

\* The state keeps its types, and every guard of the RwLock belongs to a request
\* at the step that needs it: none outlives its step, none is missing.
THEOREM TypeCorrect == Spec => []TypeOK
<1>1. IInv => TypeOK
  BY DEF IInv
<1>. QED  BY <1>1, Inductive, PTL

\* However PUTs, handlers, crashes and start-ups interleave: what is served
\* while nobody holds the write guard is what a restart would serve, unless
\* this start-up could not save its URL.
THEOREM ServesWhatIsPersisted == Spec => []ServedIsPersisted
<1>1. IInv => ServedIsPersisted
  <2> SUFFICES ASSUME IInv, server = "up", NoWriter(lock), ~unsaved PROVE provider = dbUrl
    BY DEF ServedIsPersisted
  <2>1. PutsAt({"swap"}) = {}
    BY PutFacts, NobodyIsNoProcess DEF NoWriter, PutsAt, Processes
  <2>. QED  BY <2>1 DEF IInv, Matches
<1>. QED  BY <1>1, Inductive, PTL

\* The URL of the last PUT that persisted one survives any crashes and restarts.
THEOREM PutSurvives == Spec => []PutSurvivesRestarts
<1>1. IInv => PutSurvivesRestarts
  BY DEF IInv
<1>. QED  BY <1>1, Inductive, PTL

-----------------------------------------------------------------------------
\* Registry implements AtomicRegistry.

\* What the refinement mapping is in terms of the invariant's words.
LEMMA Mapping ==
  ASSUME IInv
  PROVE  /\ server # "up" => Serving = NoUrl /\ Using = Abstract!Unused
         /\ server = "up" /\ PutsAt({"swap"}) = {} => Serving = provider
         /\ server = "up" /\ PutsAt({"swap"}) # {} => Serving = dbUrl
         /\ server = "up" => Serving # NoUrl /\ provider # NoUrl
         /\ lock.readers = {} => Using = Abstract!Unused
         /\ lock.writer # Nobody => lock.readers = {}
         /\ PutsAt({"swap"}) # {} => lock.writer # Nobody
<1>1. server # "up" => lock.readers = {}
  BY UnlockedFacts DEF IInv, IdleUnlessUp, ReadSide
<1>2. lock.readers = {} => Using = Abstract!Unused
  BY DEF Using, Abstract!Unused, Reading
<1>3. \A a \in Admins : put[a].pc = "swap" => dbUrl \in Loadable
  BY DEF IInv, PutsKnown
<1>4. server = "up" => provider # NoUrl
  BY DEF IInv, ProviderLoads
<1>5. lock.writer # Nobody => lock.readers = {}
  BY TypeParts DEF IInv, GuardsOK, LockOK, Exclusive, NoWriter
<1>6. \A b \in PutsAt({"swap"}) : lock.writer = b /\ b # Nobody
  BY PutFacts, NobodyIsNoProcess DEF PutsAt, Processes
<1>. QED  BY <1>1, <1>2, <1>3, <1>4, <1>5, <1>6 DEF Serving, PutsAt

\* A step that serves the same as before and lets handlers in, if any.
LEMMA GrantsBegin ==
  ASSUME IInv, server = "up", UNCHANGED <<dbUrl, unread>>, Serving' = Serving,
         \A h \in Handlers : Reading(lock, h) => Reading(lock', h) /\ provider' = provider,
         \A h \in Handlers : Reading(lock', h) => Reading(lock, h) \/ provider' = Serving
  PROVE  Abstract!Next
<1> DEFINE New == {h \in Handlers : Reading(lock', h) /\ ~Reading(lock, h)}
<1>1. Serving # NoUrl
  BY Mapping
<1>2. \A h \in New : Using[h] = NoUrl
  BY DEF Using
<1>3. Using' = [h \in Handlers |-> IF h \in New THEN Serving ELSE Using[h]]
  <2>1. Using' = [h \in Handlers |-> IF Reading(lock', h) THEN provider' ELSE NoUrl]
    BY DEF Using, Reading
  <2>2. ASSUME NEW h \in Handlers
        PROVE  (IF Reading(lock', h) THEN provider' ELSE NoUrl)
                    = (IF h \in New THEN Serving ELSE Using[h])
    BY DEF Using
  <2>. QED  BY <2>1, <2>2
<1>. QED  BY <1>1, <1>2, <1>3 DEF Abstract!Next, Abstract!Begin

\* The same for a step that leaves the row and the provider alone: a PUT
\* between its writes keeps every reader out.
LEMMA LockStepBegins ==
  ASSUME IInv, IInv', server = "up", server' = "up", UNCHANGED <<dbUrl, provider, unread>>,
         PutsAt({"swap"})' = PutsAt({"swap"}),
         \A h \in Handlers : Reading(lock, h) => Reading(lock', h)
  PROVE  Abstract!Next
<1>1. Serving' = Serving
  BY DEF Serving, PutsAt
<1>2. CASE PutsAt({"swap"}) = {}
  BY <1>1, <1>2, Mapping, GrantsBegin
<1>3. CASE PutsAt({"swap"}) # {}
  <2>1. GuardsOK'
    BY TypePartsNext DEF IInv
  <2>2. PICK b \in PutsAt({"swap"})' : lock'.writer = b /\ b # Nobody
    BY <1>3, <2>1, NobodyIsNoProcess DEF GuardsOK, Writing, PutsAt, Processes
  <2>3. lock'.readers = {}
    BY <2>1, <2>2 DEF GuardsOK, LockOK, Exclusive, NoWriter
  <2>. QED  BY <1>1, <2>3, GrantsBegin DEF Reading
<1>. QED  BY <1>2, <1>3

LEMMA PutImplements ==
  ASSUME IInv, IInv', NEW a \in Admins, PutProceeds(a) \/ \E url \in Urls : PutStart(a, url)
  PROVE  Abstract!Next
<1>1. /\ server = "up" /\ server' = "up"
      /\ \A h \in Handlers : Reading(lock, h) => Reading(lock', h)
      /\ Writing(lock, a) => lock.readers = {}
  BY PutKeepsReaders
<1>2. put \in [Admins -> Puts] /\ \A b \in Admins : b \in PutsAt({"swap"}) <=> put[b].pc = "swap"
  BY TypeParts DEF IInv, DataOK, PutsAt
<1>3. CASE \/ \E url \in Urls : PutStart(a, url)
           \/ PutCopyDbPath(a) \/ PutLoad(a) \/ PutLoadFails(a) \/ PutSaveFails(a)
           \/ PutInvalidate(a)
  <2>1. UNCHANGED <<dbUrl, provider, unread>>
    BY <1>3 DEF PutStart, PutCopyDbPath, PutLoad, PutLoadFails, PutSaveFails, PutInvalidate,
       PutStep, PutEnds, bootVars
  <2>2. PutsAt({"swap"})' = PutsAt({"swap"})
    <3>1. CASE \E url \in Urls : PutStart(a, url)
      BY <1>2, <3>1, NoPutFacts DEF PutStart, PutsAt
    <3>2. CASE PutCopyDbPath(a) \/ PutLoad(a)
      BY <1>2, <3>2 DEF PutCopyDbPath, PutLoad, PutStep, PutsAt, Puts
    <3>3. CASE PutLoadFails(a) \/ PutSaveFails(a) \/ PutInvalidate(a)
      BY <1>2, <3>3, NoPutFacts DEF PutLoadFails, PutSaveFails, PutInvalidate, PutEnds, PutsAt
    <3>. QED  BY <1>3, <3>1, <3>2, <3>3
  <2>. QED  BY <1>1, <2>1, <2>2, LockStepBegins
<1>4. CASE PutSave(a)
  <2>1. /\ Writing(lock, a) /\ put[a].pc = "save" /\ dbUrl' = put[a].url
        /\ UNCHANGED <<provider, unread, lock>>
    BY <1>4 DEF PutSave, PutStep, bootVars
  <2>2. lock.readers = {} /\ Serving # NoUrl
    BY <1>1, <2>1, Mapping
  <2>3. Using = Abstract!Unused /\ Using' = Using
    BY <2>1, <2>2, Mapping DEF Using, Reading
  <2>4. put'[a].pc = "swap"
    BY <1>2, <1>4 DEF PutSave, PutStep, Puts
  <2>5. Serving' = put[a].url /\ put[a].url \in Urls
    BY <1>1, <2>1, <2>4 DEF Serving, IInv, PutsKnown
  <2>. QED  BY <2>1, <2>2, <2>3, <2>5 DEF Abstract!Next, Abstract!Replace
<1>5. CASE PutSwap(a)
  <2>1. /\ UNCHANGED <<dbUrl, unread>>
        /\ Writing(lock, a) /\ put[a].pc = "swap" /\ provider' = put[a].url
    BY <1>5 DEF PutSwap
  <2>2. lock.readers = {} /\ dbUrl = put[a].url
    BY <1>1, <2>1 DEF IInv, PutsKnown
  <2>3. Serving = dbUrl
    BY <1>1, <1>2, <2>1, Mapping
  <2>4. Serving' \in {provider', dbUrl'}
    BY <1>1 DEF Serving
  <2>. QED  BY <1>1, <2>1, <2>2, <2>3, <2>4, GrantsBegin DEF Reading
<1>. QED  BY <1>3, <1>4, <1>5 DEF PutProceeds

\* To whoever looks, PUT is one atomic switch of what is stored and served, and
\* a handler works with one registry to its end: every step of Registry is a
\* step of AtomicRegistry or changes nothing it speaks of.
THEOREM SwitchIsAtomic == Spec => SwitchesAtomically
<1>1. Init => Abstract!Init
  BY InitIInv, Mapping DEF Init, Abstract!Init
<1>2. IInv /\ IInv' /\ [Next]_vars => [Abstract!Next]_(Abstract!vars)
  <2> SUFFICES ASSUME IInv, IInv', [Next]_vars
               PROVE  Abstract!Next \/ UNCHANGED <<dbUrl, Serving, Using, unread>>
    BY DEF Abstract!vars
  <2>1. ASSUME \/ \E url \in Urls \cup {NoUrl} : EditConfig(url)
               \/ BootFromDb
        PROVE  UNCHANGED <<dbUrl, Serving, Using, unread>>
    <3>1. server # "up" /\ server' # "up" /\ UNCHANGED <<dbUrl, unread, lock>>
      BY <2>1 DEF EditConfig, BootFromDb, requestVars
    <3>2. lock.readers = {}
      BY <3>1, UnlockedFacts DEF IInv, IdleUnlessUp, Unlocked
    <3>. QED  BY <3>1, <3>2 DEF Serving, Using, Reading
  <2>2. CASE BootFromConfig
    <3>1. /\ server # "up" /\ server' # "up" /\ UNCHANGED lock
          /\ dbUrl' \in {dbUrl, cfgUrl} /\ cfgUrl # NoUrl /\ unread' = (unread \/ dbUrl # NoUrl)
      BY <2>2 DEF BootFromConfig, requestVars
    <3>2. cfgUrl \in Urls
      BY <3>1, TypeParts DEF IInv, DataOK
    <3>3. lock.readers = {}
      BY <3>1, UnlockedFacts DEF IInv, IdleUnlessUp, Unlocked
    <3>4. Serving = NoUrl /\ UNCHANGED <<Serving, Using>>
      BY <3>1, <3>3 DEF Serving, Using, Reading
    <3>. QED  BY <3>1, <3>2, <3>4 DEF Abstract!Next, Abstract!Seed
  <2>3. CASE BootLoad
    <3>1. /\ server = "loading" /\ server' = "up" /\ provider \in Loadable
          /\ UNCHANGED <<dbUrl, provider, unread, lock, put>>
      BY <2>3 DEF BootLoad, requestVars
    <3>2. lock.readers = {} /\ PutsAt({"swap"}) = {}
      BY <3>1, NoPutFacts DEF IInv, IdleUnlessUp, Unlocked, PutsAt
    <3>3. Serving = NoUrl /\ Serving' = provider /\ UNCHANGED Using
      BY <3>1, <3>2 DEF Serving, Using, Reading, PutsAt
    <3>4. provider = dbUrl \/ dbUrl = NoUrl \/ unread
      BY <3>1 DEF IInv, StartsFromRow
    <3>. QED  BY <3>1, <3>3, <3>4 DEF Abstract!Next, Abstract!Start
  <2>4. CASE Exit
    <3>1. server' # "up" /\ lock'.readers = {} /\ UNCHANGED <<dbUrl, unread>>
      BY <2>4 DEF Exit, Unlocked
    <3>2. Serving' = NoUrl /\ Using' = Abstract!Unused
      BY <3>1 DEF Serving, Using, Reading, Abstract!Unused
    <3>3. CASE server = "up"
      BY <3>1, <3>2, <3>3, Mapping DEF Abstract!Next, Abstract!Stop
    <3>4. CASE server # "up"
      BY <3>1, <3>2, <3>4, Mapping
    <3>. QED  BY <3>3, <3>4
  <2>5. ASSUME NEW a \in Admins, PutProceeds(a) \/ \E url \in Urls : PutStart(a, url)
        PROVE  Abstract!Next
    BY <2>5, PutImplements
  <2>6. ASSUME NEW h \in Handlers, HandlerStart(h)
        PROVE  Abstract!Next
    <3>1. /\ server = "up" /\ server' = "up" /\ UNCHANGED <<dbUrl, provider, unread, put>>
          /\ lock' = Request(lock, h, "read") /\ handler[h] = "idle"
      BY <2>6 DEF HandlerStart, bootVars
    <3>2. h \in Processes /\ h \notin ReadSide(lock) \cup WriteSide(lock) /\ GuardsOK
      BY <3>1, HandlerFacts, TypeParts DEF IInv, GuardsOK
    <3>3. lock.readers \subseteq lock'.readers
      BY <3>1, <3>2, RequestFacts DEF GuardsOK, Modes
    <3>. QED  BY <3>1, <3>3, LockStepBegins DEF Reading, PutsAt
  <2>7. ASSUME NEW h \in Handlers, HandlerEnd(h)
        PROVE  Abstract!Next
    <3>1. /\ Reading(lock, h) /\ lock' = Release(lock, h)
          /\ UNCHANGED <<server, dbUrl, provider, unread, put>>
      BY <2>7 DEF HandlerEnd, bootVars
    <3>2. h \in Processes /\ GuardsOK /\ provider # NoUrl
      BY <3>1, HandlerFacts, ReadingHandler, TypeParts, Mapping DEF IInv
    <3>3. lock'.readers = lock.readers \ {h}
      BY <3>1, <3>2, ReleaseReaderFacts DEF GuardsOK
    <3>4. Using[h] # NoUrl /\ Using' = [Using EXCEPT ![h] = NoUrl]
      BY <3>1, <3>2, <3>3 DEF Using, Reading
    <3>5. Serving' = Serving
      BY <3>1 DEF Serving
    <3>. QED  BY <3>1, <3>4, <3>5 DEF Abstract!Next, Abstract!End
  <2>8. CASE UNCHANGED vars
    BY <2>8 DEF vars, bootVars, requestVars, Serving, Using, Reading
  <2>. QED  BY <2>1, <2>2, <2>3, <2>4, <2>5, <2>6, <2>7, <2>8 DEF Next, Boot
<1>. QED  BY <1>1, <1>2, Inductive, PTL DEF Spec, SwitchesAtomically, Abstract!Spec
=============================================================================

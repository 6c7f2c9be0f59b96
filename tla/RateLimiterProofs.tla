------------------------- MODULE RateLimiterProofs -------------------------
(***************************************************************************)
(* Proofs about RateLimiter, for every set of threads and keys, every pair *)
(* of limits, every window length and clean-up period.                     *)
(*                                                                         *)
(* The deque alone does not show the sliding-window bound: what matters is *)
(* how it relates to the whole history.  The inductive invariant says that *)
(* a deque is the end of its history (Suffix), that everything cut off the *)
(* front has expired for every Instant a later check can read (Expired at  *)
(* Stamp), that the history is sorted, and that its entries are Spaced.    *)
(* Sortedness is where the mutex enters: Stamp, the Instant of the check   *)
(* that holds the mutex or else the clock, never goes backwards.           *)
(***************************************************************************)
EXTENDS RateLimiter, NaturalFacts, FiniteSetTheorems, SequenceTheorems, TLAPS

USE TimeAssumption, NoneAssumption, LimitsAssumption

Suffix(w, l) ==
    /\ Len(w) <= Len(l)
    /\ \A i \in 1..Len(w) : w[i] = l[Len(l) - Len(w) + i]

Sorted(l) == \A i, j \in 1..Len(l) : i <= j => l[i] <= l[j]

\* The deque w is what is left of history l for checks at `now` or later.
Tracks(w, l, now) ==
    /\ Suffix(w, l)
    /\ Sorted(l)
    /\ \A i \in 1..Len(l) : l[i] <= now
    /\ \A i \in 1..(Len(l) - Len(w)) : Expired(l[i], now)

\* Any limit + 1 consecutive admissions span more than one window.
Spaced(l, limit) == \A i \in 1..(Len(l) - limit) : Expired(l[i], l[i + limit])

-----------------------------------------------------------------------------
\* The window has a length, so Expired is a comparison of integers.
LEMMA WindowNat == Window \in Nat
  BY DEF Window, TimeAssumption

\* prune_window removes a prefix of expired entries and stops at the first
\* entry that still counts.
LEMMA PruneCuts ==
  ASSUME NEW w \in Seq(Times), NEW now \in Times
  PROVE  \E n \in 0..Len(w) :
            /\ Prune(w, now) = SubSeq(w, n + 1, Len(w))
            /\ \A i \in 1..n : Expired(w[i], now)
            /\ n < Len(w) => ~Expired(w[n + 1], now)
<1> DEFINE Cut(n) == /\ \A i \in 1..n : Expired(w[i], now)
                     /\ n < Len(w) => ~Expired(w[n + 1], now)
           Counting == {i \in 1..Len(w) : ~Expired(w[i], now)}
<1>1. \E n \in 0..Len(w) : Cut(n)
  <2>1. CASE Counting = {}
    <3>1. Cut(Len(w))  BY <2>1
    <3>. QED  BY <3>1
  <2>2. CASE Counting # {}
    <3>. Counting \subseteq Nat
      OBVIOUS
    <3>1. PICK m \in Counting : \A n \in Counting : m <= n
      BY <2>2, LeastNatural
    <3>2. m - 1 \in 0..Len(w) /\ Cut(m - 1)
      BY <3>1
    <3>. QED  BY <3>2
  <2>. QED  BY <2>1, <2>2
<1>. QED  BY <1>1 DEF Prune

\* Pruning leaves a deque of times that starts with an entry that counts.
LEMMA PruneTracks ==
  ASSUME NEW w \in Seq(Times), NEW l \in Seq(Times), NEW now \in Times,
         Tracks(w, l, now)
  PROVE  LET p == Prune(w, now) IN
         /\ p \in Seq(Times)
         /\ Tracks(p, l, now)
         /\ Len(p) > 0 => ~Expired(p[1], now)
         /\ Len(p) > 0 => Len(w) > 0 /\ p[Len(p)] = w[Len(w)]
<1>1. PICK n \in 0..Len(w) :
         /\ Prune(w, now) = SubSeq(w, n + 1, Len(w))
         /\ \A i \in 1..n : Expired(w[i], now)
         /\ n < Len(w) => ~Expired(w[n + 1], now)
  BY PruneCuts
<1> DEFINE p == Prune(w, now)
<1>2. /\ p \in Seq(Times)
      /\ Len(p) = Len(w) - n
      /\ \A i \in 1..Len(p) : p[i] = w[n + i]
  <2>1. \A i \in (n + 1)..Len(w) : w[i] \in Times
    OBVIOUS
  <2>. QED  BY <1>1, <2>1, SubSeqProperties
<1>3. Suffix(p, l)
  BY <1>2 DEF Tracks, Suffix
<1>4. \A i \in 1..(Len(l) - Len(p)) : Expired(l[i], now)
  <2>1. \A i \in (Len(l) - Len(w) + 1)..(Len(l) - Len(p)) :
           l[i] = w[i - (Len(l) - Len(w))]
    <3>1. ASSUME NEW j \in 1..Len(w) PROVE w[j] = l[Len(l) - Len(w) + j]
      BY DEF Tracks, Suffix
    <3>2. ASSUME NEW i \in (Len(l) - Len(w) + 1)..(Len(l) - Len(p))
          PROVE  l[i] = w[i - (Len(l) - Len(w))]
      <4>1. i - (Len(l) - Len(w)) \in 1..Len(w)
        BY <1>2
      <4>. QED  BY <3>1, <4>1
    <3>. QED  BY <3>2
  <2>2. \A i \in (Len(l) - Len(w) + 1)..(Len(l) - Len(p)) : Expired(l[i], now)
    BY <1>1, <1>2, <2>1
  <2>. QED  BY <1>2, <2>2 DEF Tracks, Suffix
<1>. QED  BY <1>1, <1>2, <1>3, <1>4 DEF Tracks

\* Time passing loses nothing that tracking needs.
LEMMA TracksLater ==
  ASSUME NEW w \in Seq(Times), NEW l \in Seq(Times),
         NEW now \in Times, NEW later \in Times, now <= later,
         Tracks(w, l, now)
  PROVE  Tracks(w, l, later)
  BY WindowNat, SMTT(30) DEF Tracks, Expired, Times, Sorted

\* One check on a tracked window: it stays tracked, the admissions stay
\* spaced, and an admission is one SlidingWindow allows.
LEMMA CheckTracks ==
  ASSUME NEW w \in Seq(Times), NEW l \in Seq(Times), NEW now \in Times,
         NEW limit \in Nat, Tracks(w, l, now), Spaced(l, limit),
         NEW p, p = Prune(w, now),
         NEW w1, w1 = AfterCheck(p, limit, now),
         NEW l1, l1 = Logged(l, p, limit, now)
  PROVE  /\ w1 \in Seq(Times) /\ l1 \in Seq(Times)
         /\ Tracks(w1, l1, now)
         /\ Spaced(l1, limit)
         /\ \/ l1 = l
            \/ /\ l1 = Append(l, now)
               /\ limit > 0
               /\ Len(l) > 0 => l[Len(l)] <= now
               /\ Len(l) >= limit => Expired(l[Len(l) + 1 - limit], now)
<1>1. /\ p \in Seq(Times)
      /\ Tracks(p, l, now)
  BY PruneTracks
<1>2. CASE ~Admits(p, limit)
  BY <1>1, <1>2 DEF AfterCheck, Logged
<1>3. CASE Admits(p, limit)
  <2>1. /\ w1 = Append(p, now) /\ l1 = Append(l, now)
        /\ w1 \in Seq(Times) /\ l1 \in Seq(Times)
        /\ Len(w1) = Len(p) + 1 /\ Len(l1) = Len(l) + 1
        /\ \A i \in 1..Len(p) : w1[i] = p[i]
        /\ \A i \in 1..Len(l) : l1[i] = l[i]
        /\ w1[Len(p) + 1] = now /\ l1[Len(l) + 1] = now
    BY <1>1, <1>3 DEF AfterCheck, Logged
  <2>2. Suffix(w1, l1)
    <3>1. ASSUME NEW i \in 1..Len(w1)
          PROVE  w1[i] = l1[Len(l1) - Len(w1) + i]
      <4>1. CASE i = Len(w1)
        BY <2>1, <4>1
      <4>2. CASE i < Len(w1)
        <5>1. i \in 1..Len(p) /\ Len(l) - Len(p) + i \in 1..Len(l)
          BY <1>1, <2>1, <4>2 DEF Tracks, Suffix
        <5>2. p[i] = l[Len(l) - Len(p) + i]
          BY <1>1, <5>1 DEF Tracks, Suffix
        <5>3. Len(l1) - Len(w1) + i = Len(l) - Len(p) + i
          BY <1>1, <2>1
        <5>. QED  BY <2>1, <5>1, <5>2, <5>3
      <4>3. i = Len(w1) \/ i < Len(w1)
        <5>1. Len(w1) \in Nat
          BY <2>1
        <5>. QED  BY <5>1
      <4>. QED  BY <4>1, <4>2, <4>3
    <3>2. Len(w1) <= Len(l1)
      BY <1>1, <2>1 DEF Tracks, Suffix
    <3>. QED  BY <3>1, <3>2 DEF Suffix
  <2>3. Sorted(l1)
    BY <1>1, <2>1 DEF Tracks, Sorted, Times
  <2>4. /\ \A i \in 1..Len(l1) : l1[i] <= now
        /\ \A i \in 1..(Len(l1) - Len(w1)) : Expired(l1[i], now)
    BY <1>1, <2>1, SMTT(30) DEF Tracks, Suffix, Times
  <2>5. limit > 0 /\ Len(p) < limit
    BY <1>1, <1>3 DEF Admits
  <2>6. Len(l) >= limit => Expired(l[Len(l) + 1 - limit], now)
    BY <1>1, <2>5 DEF Tracks, Suffix
  <2>7. Spaced(l1, limit)
    <3>1. ASSUME NEW i \in 1..(Len(l1) - limit)
          PROVE  Expired(l1[i], l1[i + limit])
      <4>1. CASE i = Len(l1) - limit
        BY <2>1, <2>5, <2>6, <4>1
      <4>2. CASE i < Len(l1) - limit
        BY <2>1, <2>5, <4>2 DEF Spaced
      <4>. QED  BY <4>1, <4>2
    <3>. QED  BY <3>1 DEF Spaced
  <2>8. Len(l) > 0 => l[Len(l)] <= now
    BY <1>1 DEF Tracks
  <2>. QED  BY <2>1, <2>2, <2>3, <2>4, <2>5, <2>6, <2>7, <2>8 DEF Tracks
<1>. QED  BY <1>2, <1>3

\* Spaced, sorted admissions never exceed the limit within one window.
LEMMA SpacedIsAtMost ==
  ASSUME NEW l \in Seq(Times), NEW limit \in Nat, Sorted(l), Spaced(l, limit)
  PROVE  AtMost(l, limit)
<1> SUFFICES ASSUME NEW from \in Times
             PROVE  Cardinality({i \in DOMAIN l : from <= l[i] /\ l[i] <= from + Window})
                        <= limit
  BY DEF AtMost
<1> DEFINE In == {i \in DOMAIN l : from <= l[i] /\ l[i] <= from + Window}
<1>1. CASE In = {}
  <2>1. Cardinality(In) = 0
    BY <1>1, FS_EmptySet
  <2>. QED  BY <2>1
<1>2. CASE In # {}
  <2>. In \subseteq Nat
    OBVIOUS
  <2>1. PICK m \in In : \A n \in In : m <= n
    BY <1>2, LeastNatural
  <2>2. ASSUME NEW n \in In PROVE n \in m..(m + limit - 1)
    <3>1. SUFFICES ASSUME n >= m + limit PROVE FALSE
      BY <2>1
    <3>2. Expired(l[m], l[m + limit]) /\ l[m + limit] <= l[n]
      BY <2>1, <3>1 DEF Spaced, Sorted
    <3>. QED  BY <2>1, <3>1, <3>2, WindowNat, SMTT(30) DEF Expired, Times
  <2>3. /\ IsFiniteSet(m..(m + limit - 1))
        /\ Cardinality(m..(m + limit - 1)) = limit
    <3>1. m \in Int /\ m + limit - 1 \in Int
      OBVIOUS
    <3>2. IsFiniteSet(m..(m + limit - 1))
      BY <3>1, FS_Interval
    <3>3. Cardinality(m..(m + limit - 1)) =
              IF m > m + limit - 1 THEN 0 ELSE (m + limit - 1) - m + 1
      BY <3>1, FS_Interval
    <3>. QED  BY <3>2, <3>3
  <2>4. Cardinality(In) <= limit
    BY <2>2, <2>3, FS_Subset
  <2>. QED  BY <2>4
<1>. QED  BY <1>1, <1>2

-----------------------------------------------------------------------------
\* A check is in progress exactly where a mutex is held.
LockInv ==
    /\ \A t \in Threads : \A lock \in Locks : (call[t].op = lock) <=> (owner[lock] = t)
    /\ \A t \in Threads : call[t].now <= clock
    /\ \A t \in Threads : call[t].op = "perKey" => call[t].key \in Keys

\* The earliest Instant a check that has not yet returned can use.
Stamp(lock) == IF owner[lock] = None THEN clock ELSE call[owner[lock]].now

GlobalInv ==
    /\ Tracks(globalWindow, globalLog, Stamp("global"))
    /\ Spaced(globalLog, globalRpm)

KeyInv ==
    /\ \A k \in Keys : /\ Tracks(perKeyWindows[k], keyLog[k], Stamp("perKey"))
                       /\ Spaced(keyLog[k], perKeyRpm)
    /\ lastSweep <= Stamp("perKey")
    /\ SweepForgetsIdleKeys

IInv == TypeOK /\ LockInv /\ GlobalInv /\ KeyInv

Verdicts == [admitted : BOOLEAN, remaining : Nat \cup {None}, reset : Nat \cup {None}]
Calls == [op : Locks \cup {"none"}, key : Keys \cup {None}, now : Times]

\* The headers of a verdict are natural numbers: Remaining does not underflow.
LEMMA InfoType ==
  ASSUME TypeOK, NEW w \in Seq(Times), NEW now \in Times, NEW limit \in Nat
  PROVE  Info(w, limit, now) \in Verdicts
<1> DEFINE after == AfterCheck(w, limit, now)
<1>1. after \in Seq(Times)
  BY DEF AfterCheck
<1>2. Reset(after, now) \in Nat
  <2> DEFINE left == IF after = <<>> THEN Window
                     ELSE IF after[1] + Window > now THEN after[1] + Window - now
                     ELSE 0
  <2>1. left \in Nat
    <3>1. CASE after = <<>>
      BY <3>1, WindowNat
    <3>2. CASE after # <<>>
      <4>1. after[1] \in Times
        BY <1>1, <3>2
      <4>. QED  BY <3>2, <4>1, WindowNat DEF Times
    <3>. QED  BY <3>1, <3>2
  <2>2. phase + clock \in Nat
    BY DEF TypeOK, Times
  <2>3. ASSUME NEW n \in Nat PROVE n \div TicksPerSecond \in Nat
    BY DEF TimeAssumption
  <2>4. (phase + clock) \div TicksPerSecond + left \div TicksPerSecond \in Nat
    <3>1. (phase + clock) \div TicksPerSecond \in Nat
      BY <2>2, <2>3, Zenon
    <3>2. left \div TicksPerSecond \in Nat
      <4>. HIDE DEF left
      <4>. QED  BY <2>1, <2>3, Zenon
    <3>3. \A a, b \in Nat : a + b \in Nat
      OBVIOUS
    <3>. HIDE DEF left
    <3>. QED  BY <3>1, <3>2, <3>3, Zenon
  <2>. QED  BY <2>4 DEF Reset
<1>3. Admits(w, limit) => limit - Len(after) \in Nat
  BY DEF Admits, AfterCheck
<1>. QED  BY <1>2, <1>3 DEF Info, Verdicts, Admits

LEMMA StampType ==
  ASSUME TypeOK, LockInv, NEW lock \in Locks
  PROVE  Stamp(lock) \in Times /\ Stamp(lock) <= clock
  BY DEF TypeOK, LockInv, Stamp, Times

\* The invariant survives any step that leaves windows and histories alone and
\* lets no check's Instant go back.
LEMMA StampsGrow ==
  ASSUME IInv, TypeOK', LockInv',
         \A lock \in Locks : Stamp(lock) <= Stamp(lock)',
         UNCHANGED <<globalRpm, perKeyRpm, globalWindow, perKeyWindows,
                     globalLog, keyLog, lastSweep>>
  PROVE  IInv'
<1>1. \A lock \in Locks : Stamp(lock) \in Times /\ Stamp(lock)' \in Times
  <2>1. \A lock \in Locks : Stamp(lock) \in Times
    BY StampType DEF IInv
  <2>2. \A lock \in Locks : Stamp(lock)' \in Times
    BY DEF TypeOK, LockInv, Stamp, Times
  <2>. QED  BY <2>1, <2>2
<1>2. GlobalInv'
  <2>1. Tracks(globalWindow, globalLog, Stamp("global")')
    BY <1>1, TracksLater DEF IInv, GlobalInv, TypeOK, Locks
  <2>. QED  BY <2>1 DEF IInv, GlobalInv
<1>3. KeyInv'
  <2>1. \A k \in Keys : Tracks(perKeyWindows[k], keyLog[k], Stamp("perKey")')
    BY <1>1, TracksLater DEF IInv, KeyInv, TypeOK, Locks
  <2>2. lastSweep <= Stamp("perKey")'
    BY <1>1 DEF IInv, KeyInv, TypeOK, Locks, Times
  <2>. QED  BY <2>1, <2>2 DEF IInv, KeyInv, SweepForgetsIdleKeys
<1>. QED  BY <1>2, <1>3 DEF IInv

LEMMA InitIInv == Init => IInv
<1> SUFFICES ASSUME Init PROVE IInv
  OBVIOUS
<1>1. TypeOK
  <2>1. 0 \in Times /\ <<>> \in Seq(Times)
    BY DEF Times
  <2>2. last \in Verdicts
    BY DEF Init, Unlimited, Verdicts
  <2>3. call \in [Threads -> Calls]
    BY <2>1 DEF Init, Idle, Calls
  <2>4. globalRpm \in Nat /\ perKeyRpm \in Nat
    BY DEF Init
  <2>. QED  BY <2>1, <2>2, <2>3, <2>4 DEF Init, TypeOK, Verdicts, Calls, Locks
<1>2. LockInv
  BY DEF Init, LockInv, Idle, Locks
<1>3. ASSUME NEW now \in Nat, NEW limit \in Nat
      PROVE  Tracks(<<>>, <<>>, now) /\ Spaced(<<>>, limit)
  BY DEF Tracks, Suffix, Sorted, Spaced
<1>4. \A lock \in Locks : Stamp(lock) = 0
  BY DEF Init, Stamp
<1>5. GlobalInv
  BY <1>1, <1>3, <1>4 DEF GlobalInv, Init, TypeOK, Locks
<1>6. KeyInv
  BY <1>1, <1>3, <1>4 DEF KeyInv, SweepForgetsIdleKeys, Init, TypeOK, Locks
<1>. QED  BY <1>1, <1>2, <1>5, <1>6 DEF IInv

LEMMA TickIInv == IInv /\ Tick => IInv'
<1> SUFFICES ASSUME IInv, Tick PROVE IInv'
  OBVIOUS
<1>1. TypeOK'
  BY DEF IInv, TypeOK, Tick, Times, limiterVars
<1>2. LockInv'
  BY DEF IInv, TypeOK, LockInv, Tick, Times, limiterVars
<1>3. \A lock \in Locks : Stamp(lock) <= Stamp(lock)'
  BY DEF IInv, TypeOK, Tick, Times, Stamp, limiterVars
<1>. QED  BY <1>1, <1>2, <1>3, StampsGrow DEF Tick, limiterVars

LEMMA BypassIInv == ASSUME NEW t \in Threads PROVE IInv /\ Bypass(t) => IInv'
<1> SUFFICES ASSUME IInv, Bypass(t) PROVE IInv'
  OBVIOUS
<1>1. TypeOK'
  <2>1. last' \in Verdicts
    BY DEF Bypass, Unlimited, Verdicts
  <2>. QED  BY <2>1 DEF IInv, TypeOK, Bypass, Verdicts
<1>2. LockInv'
  BY DEF IInv, LockInv, Bypass
<1>3. \A lock \in Locks : Stamp(lock) <= Stamp(lock)'
  BY DEF IInv, TypeOK, Bypass, Times, Stamp
<1>. QED  BY <1>1, <1>2, <1>3, StampsGrow DEF Bypass

LEMMA EnterIInv ==
  ASSUME NEW t \in Threads, NEW lock \in Locks, NEW key \in Keys \cup {None},
         lock = "perKey" => key \in Keys
  PROVE  IInv /\ Enter(t, lock, key) => IInv'
<1> SUFFICES ASSUME IInv, Enter(t, lock, key) PROVE IInv'
  OBVIOUS
<1>1. TypeOK'
  <2>1. call' \in [Threads -> Calls]
    BY DEF IInv, TypeOK, Enter, Calls
  <2>2. owner' \in [Locks -> Threads \cup {None}]
    BY DEF IInv, TypeOK, Enter
  <2>. QED  BY <2>1, <2>2 DEF IInv, TypeOK, Enter, Calls
<1>2. LockInv'
  <2>1. \A u \in Threads : call'[u] = IF u = t
            THEN [op |-> lock, key |-> key, now |-> clock] ELSE call[u]
    BY DEF IInv, TypeOK, Enter
  <2>2. \A m \in Locks : owner'[m] = IF m = lock THEN t ELSE owner[m]
    BY DEF IInv, TypeOK, Enter
  <2>3. call[t].op = "none" /\ owner[lock] = None /\ clock' = clock /\ clock <= clock
    BY DEF IInv, TypeOK, Enter, Idle, Times
  <2>. QED  BY <2>1, <2>2, <2>3 DEF IInv, LockInv, Locks
<1>3. \A m \in Locks : Stamp(m) <= Stamp(m)'
  BY DEF IInv, TypeOK, LockInv, Enter, Idle, Times, Stamp, Locks
<1>. QED  BY <1>1, <1>2, <1>3, StampsGrow DEF Enter

\* Giving the mutex back, common to both checks.
LEMMA LeaveKeeps ==
  ASSUME NEW t \in Threads, NEW lock \in Locks, TypeOK, LockInv,
         Leave(t, lock), UNCHANGED clock
  PROVE  /\ owner' \in [Locks -> Threads \cup {None}]
         /\ call' \in [Threads -> Calls]
         /\ LockInv'
         /\ owner[lock] = t /\ Stamp(lock) = call[t].now /\ call[t].now \in Times
         /\ Stamp(lock)' = clock /\ call[t].now <= clock
         /\ \A other \in Locks \ {lock} : Stamp(other)' = Stamp(other)
<1>1. owner' \in [Locks -> Threads \cup {None}] /\ call' \in [Threads -> Calls]
  BY DEF TypeOK, Leave, Calls, Idle, Times
<1>2. owner[lock] = t /\ Stamp(lock) = call[t].now /\ call[t].now \in Times
  BY DEF TypeOK, LockInv, Leave, Stamp
<1>3. \A u \in Threads : call'[u] = IF u = t THEN Idle ELSE call[u]
  BY DEF TypeOK, Leave
<1>4. \A m \in Locks : owner'[m] = IF m = lock THEN None ELSE owner[m]
  BY DEF TypeOK, Leave
<1>5. LockInv'
  <2>1. 0 <= clock
    BY DEF TypeOK, Times
  <2>. QED  BY <1>2, <1>3, <1>4, <2>1 DEF LockInv, Idle, Locks, Leave
<1>6. Stamp(lock)' = clock /\ call[t].now <= clock
  BY <1>4 DEF Stamp, LockInv
<1>7. ASSUME NEW other \in Locks \ {lock} PROVE Stamp(other)' = Stamp(other)
  <2>1. owner[other] # t
    BY <1>2 DEF LockInv
  <2>2. owner'[other] = owner[other] /\ owner[other] \in Threads \cup {None}
    BY <1>4 DEF TypeOK
  <2>. QED  BY <1>3, <2>1, <2>2 DEF Stamp
<1>. QED  BY <1>1, <1>2, <1>5, <1>6, <1>7

LEMMA CheckGlobalIInv ==
  ASSUME NEW t \in Threads
  PROVE  IInv /\ CheckGlobal(t) => IInv'
<1> SUFFICES ASSUME IInv, CheckGlobal(t) PROVE IInv'
  OBVIOUS
<1> DEFINE now == call[t].now
           window == Prune(globalWindow, now)
<1>1. /\ owner' \in [Locks -> Threads \cup {None}]
      /\ call' \in [Threads -> Calls]
      /\ LockInv'
      /\ Stamp("global") = now /\ now \in Times
      /\ Stamp("global")' = clock /\ now <= clock
      /\ Stamp("perKey")' = Stamp("perKey")
  BY LeaveKeeps DEF IInv, CheckGlobal, Locks
<1>2. /\ globalWindow \in Seq(Times) /\ globalLog \in Seq(Times)
      /\ globalRpm \in Nat /\ clock \in Times
      /\ Tracks(globalWindow, globalLog, now) /\ Spaced(globalLog, globalRpm)
  BY <1>1 DEF IInv, TypeOK, GlobalInv
<1>3. /\ globalWindow' = AfterCheck(window, globalRpm, now)
      /\ globalLog' = Logged(globalLog, window, globalRpm, now)
      /\ last' = Info(window, globalRpm, now)
  BY DEF CheckGlobal
<1>4. /\ globalWindow' \in Seq(Times) /\ globalLog' \in Seq(Times)
      /\ Tracks(globalWindow', globalLog', now)
      /\ Spaced(globalLog', globalRpm)
  BY <1>1, <1>2, <1>3, CheckTracks
<1>5. last' \in Verdicts
  <2>1. window \in Seq(Times)
    BY <1>1, <1>2, PruneTracks
  <2>. QED  BY <1>1, <1>2, <1>3, <2>1, InfoType DEF IInv
<1>6. TypeOK'
  BY <1>1, <1>4, <1>5 DEF IInv, TypeOK, CheckGlobal, Verdicts, Calls
<1>7. GlobalInv'
  <2>1. Tracks(globalWindow', globalLog', clock)
    BY <1>1, <1>2, <1>4, TracksLater
  <2>. QED  BY <1>1, <1>4, <2>1 DEF GlobalInv, CheckGlobal
<1>8. KeyInv'
  BY <1>1 DEF IInv, KeyInv, SweepForgetsIdleKeys, CheckGlobal
<1>. QED  BY <1>1, <1>6, <1>7, <1>8 DEF IInv

\* If the oldest entry of a tracked window counts, so does the newest.
LEMMA NewestCounts ==
  ASSUME NEW p \in Seq(Times), NEW l \in Seq(Times), NEW now \in Times,
         Tracks(p, l, now), Len(p) > 0, ~Expired(p[1], now)
  PROVE  ~Expired(p[Len(p)], now)
<1>1. /\ p[1] = l[Len(l) - Len(p) + 1] /\ p[Len(p)] = l[Len(l)]
      /\ Len(l) - Len(p) + 1 \in 1..Len(l) /\ Len(l) \in 1..Len(l)
  BY DEF Tracks, Suffix
<1>2. p[1] <= p[Len(p)] /\ p[1] \in Times /\ p[Len(p)] \in Times
  BY <1>1 DEF Tracks, Sorted
<1>. QED  BY <1>2, WindowNat DEF Expired, Times

\* What one call of check_per_key does to the window and history of any key.
LEMMA CheckPerKeyTracks ==
  ASSUME NEW t \in Threads, IInv, CheckPerKey(t), NEW k \in Keys
  PROVE  LET now == call[t].now IN
         /\ perKeyWindows'[k] \in Seq(Times) /\ keyLog'[k] \in Seq(Times)
         /\ Tracks(perKeyWindows'[k], keyLog'[k], now)
         /\ Spaced(keyLog'[k], perKeyRpm)
         /\ perKeyWindows'[k] # <<>> =>
                ~Expired(perKeyWindows'[k][Len(perKeyWindows'[k])], lastSweep')
         /\ \/ keyLog'[k] = keyLog[k]
            \/ /\ k = call[t].key
               /\ keyLog'[k] = Append(keyLog[k], now)
               /\ perKeyRpm > 0
               /\ Len(keyLog[k]) > 0 => keyLog[k][Len(keyLog[k])] <= now
               /\ Len(keyLog[k]) >= perKeyRpm =>
                      Expired(keyLog[k][Len(keyLog[k]) + 1 - perKeyRpm], now)
<1> DEFINE now == call[t].now
           key == call[t].key
           windows == IF SweepDue THEN Swept(perKeyWindows, now) ELSE perKeyWindows
           w == windows[k]
           l == keyLog[k]
           p == Prune(w, now)
<1>1. /\ key \in Keys /\ now \in Times /\ Stamp("perKey") = now
      /\ lastSweep \in Times /\ lastSweep <= now /\ perKeyRpm \in Nat
  <2>1. Stamp("perKey") = now /\ now \in Times
    BY LeaveKeeps DEF IInv, CheckPerKey, Locks
  <2>. QED  BY <2>1 DEF IInv, TypeOK, LockInv, KeyInv, CheckPerKey, Leave
<1>2. /\ perKeyWindows[k] \in Seq(Times) /\ l \in Seq(Times)
      /\ Tracks(perKeyWindows[k], l, now) /\ Spaced(l, perKeyRpm)
      /\ perKeyWindows[k] # <<>> =>
             ~Expired(perKeyWindows[k][Len(perKeyWindows[k])], lastSweep)
  BY <1>1 DEF IInv, TypeOK, KeyInv, SweepForgetsIdleKeys
<1>3. lastSweep' \in Times /\ lastSweep' <= now
  BY <1>1 DEF CheckPerKey, Times
<1>4. /\ w \in Seq(Times) /\ Tracks(w, l, now)
      /\ Len(w) > 0 => ~Expired(w[Len(w)], lastSweep')
  <2>1. CASE SweepDue
    <3>1. w = Prune(perKeyWindows[k], now) /\ lastSweep' = now
      BY <2>1 DEF Swept, CheckPerKey
    <3>2. /\ w \in Seq(Times) /\ Tracks(w, l, now)
          /\ Len(w) > 0 => ~Expired(w[1], now)
      <4>. HIDE DEF w, l, now
      <4>. QED  BY <1>1, <1>2, <3>1, PruneTracks
    <3>3. Len(w) > 0 => ~Expired(w[Len(w)], now)
      <4>. HIDE DEF w, l, now
      <4>. QED  BY <1>1, <1>2, <3>2, NewestCounts
    <3>. QED  BY <3>1, <3>2, <3>3
  <2>2. CASE ~SweepDue
    <3>1. w = perKeyWindows[k] /\ lastSweep' = lastSweep
      BY <2>2 DEF CheckPerKey
    <3>2. Len(w) > 0 => w # <<>>
      OBVIOUS
    <3>. QED  BY <1>2, <3>1, <3>2
  <2>. QED  BY <2>1, <2>2
<1>5. /\ perKeyWindows'[k] = IF k = key THEN AfterCheck(p, perKeyRpm, now) ELSE w
      /\ keyLog'[k] = IF k = key THEN Logged(l, p, perKeyRpm, now) ELSE l
  BY DEF CheckPerKey, Swept, IInv, TypeOK
<1>. HIDE DEF w, l, p, now, key
<1>6. CASE k = key
  <2>1. perKeyWindows'[k] = AfterCheck(p, perKeyRpm, now) /\ p = Prune(w, now)
    BY <1>5, <1>6 DEF p
  <2>2. keyLog'[k] = Logged(l, p, perKeyRpm, now)
    BY <1>5, <1>6
  <2>3. /\ perKeyWindows'[k] \in Seq(Times) /\ keyLog'[k] \in Seq(Times)
        /\ Tracks(perKeyWindows'[k], keyLog'[k], now)
        /\ Spaced(keyLog'[k], perKeyRpm)
        /\ \/ keyLog'[k] = l
           \/ /\ keyLog'[k] = Append(l, now)
              /\ perKeyRpm > 0
              /\ Len(l) > 0 => l[Len(l)] <= now
              /\ Len(l) >= perKeyRpm => Expired(l[Len(l) + 1 - perKeyRpm], now)
    BY <1>1, <1>2, <1>4, <2>1, <2>2, CheckTracks, SMTT(30)
  <2>4. perKeyWindows'[k] # <<>> =>
            ~Expired(perKeyWindows'[k][Len(perKeyWindows'[k])], lastSweep')
    <3>1. p \in Seq(Times) /\ (Len(p) > 0 => Len(w) > 0 /\ p[Len(p)] = w[Len(w)])
      BY <1>1, <1>2, <1>4, <2>1, PruneTracks
    <3>2. CASE Admits(p, perKeyRpm)
      <4>1. perKeyWindows'[k][Len(perKeyWindows'[k])] = now
        BY <2>1, <3>1, <3>2, <1>1 DEF AfterCheck
      <4>. QED  BY <1>1, <1>3, <4>1, WindowNat DEF Expired, Times
    <3>3. CASE ~Admits(p, perKeyRpm)
      <4>1. perKeyWindows'[k] = p
        BY <2>1, <3>3 DEF AfterCheck
      <4>2. p # <<>> => Len(p) > 0
        BY <3>1
      <4>. QED  BY <1>4, <3>1, <4>1, <4>2
    <3>. QED  BY <3>2, <3>3
  <2>. QED  BY <1>6, <2>3, <2>4 DEF l, now, key
<1>7. CASE k # key
  <2>1. perKeyWindows'[k] = w /\ keyLog'[k] = l
    BY <1>5, <1>7
  <2>2. w # <<>> => Len(w) > 0
    BY <1>4
  <2>. QED  BY <1>2, <1>4, <2>1, <2>2 DEF l, now
<1>. QED  BY <1>6, <1>7

LEMMA CheckPerKeyIInv ==
  ASSUME NEW t \in Threads
  PROVE  IInv /\ CheckPerKey(t) => IInv'
<1> SUFFICES ASSUME IInv, CheckPerKey(t) PROVE IInv'
  OBVIOUS
<1> DEFINE now == call[t].now
<1>1. /\ owner' \in [Locks -> Threads \cup {None}]
      /\ call' \in [Threads -> Calls]
      /\ LockInv'
      /\ Stamp("perKey") = now /\ now \in Times
      /\ Stamp("perKey")' = clock /\ now <= clock
      /\ Stamp("global")' = Stamp("global")
  BY LeaveKeeps DEF IInv, CheckPerKey, Locks
<1>2. \A k \in Keys :
        /\ perKeyWindows'[k] \in Seq(Times) /\ keyLog'[k] \in Seq(Times)
        /\ Tracks(perKeyWindows'[k], keyLog'[k], now)
        /\ Spaced(keyLog'[k], perKeyRpm)
        /\ perKeyWindows'[k] # <<>> =>
               ~Expired(perKeyWindows'[k][Len(perKeyWindows'[k])], lastSweep')
  BY CheckPerKeyTracks
<1>3. clock \in Times /\ lastSweep' \in Times /\ lastSweep' <= now
  BY <1>1 DEF CheckPerKey, IInv, TypeOK, KeyInv, Times
<1>4. TypeOK'
  <2>1. perKeyWindows' \in [Keys -> Seq(Times)] /\ keyLog' \in [Keys -> Seq(Times)]
    <3>1. /\ perKeyWindows' = [k \in Keys |-> perKeyWindows'[k]]
          /\ keyLog' = [k \in Keys |-> keyLog'[k]]
      <4> DEFINE windows == IF SweepDue THEN Swept(perKeyWindows, now) ELSE perKeyWindows
      <4>1. DOMAIN perKeyWindows = Keys /\ DOMAIN keyLog = Keys
        BY DEF IInv, TypeOK
      <4>2. DOMAIN Swept(perKeyWindows, now) = Keys
        BY DEF Swept
      <4>3. DOMAIN windows = Keys
        BY <4>1, <4>2
      <4>4. /\ perKeyWindows' = [windows EXCEPT ![call[t].key] =
                   AfterCheck(Prune(windows[call[t].key], now), perKeyRpm, now)]
            /\ keyLog' = [keyLog EXCEPT ![call[t].key] =
                   Logged(@, Prune(windows[call[t].key], now), perKeyRpm, now)]
        BY DEF CheckPerKey
      <4>. HIDE DEF windows, now
      <4>. QED  BY <4>1, <4>3, <4>4
    <3>. QED  BY <1>2, <3>1
  <2>2. checkCount' \in 0..(CleanupEvery - 1)
    <3>1. checkCount + 1 \in Nat
      BY DEF IInv, TypeOK
    <3>2. (checkCount + 1) % CleanupEvery \in 0..(CleanupEvery - 1)
      BY <3>1
    <3>. QED  BY <3>2 DEF CheckPerKey
  <2>3. last' \in Verdicts
    <3> DEFINE windows == IF SweepDue THEN Swept(perKeyWindows, now) ELSE perKeyWindows
    <3>1. call[t].key \in Keys
      BY DEF IInv, LockInv, CheckPerKey, Leave
    <3>2. /\ perKeyWindows[call[t].key] \in Seq(Times) /\ keyLog[call[t].key] \in Seq(Times)
          /\ Tracks(perKeyWindows[call[t].key], keyLog[call[t].key], now)
      BY <1>1, <3>1 DEF IInv, TypeOK, KeyInv
    <3>3. /\ windows[call[t].key] \in Seq(Times)
          /\ Tracks(windows[call[t].key], keyLog[call[t].key], now)
      <4>1. CASE SweepDue
        BY <1>1, <3>1, <3>2, <4>1, PruneTracks DEF Swept
      <4>2. CASE ~SweepDue
        BY <3>2, <4>2
      <4>. QED  BY <4>1, <4>2
    <3>4. Prune(windows[call[t].key], now) \in Seq(Times)
      BY <1>1, <3>2, <3>3, PruneTracks
    <3>5. last' = Info(Prune(windows[call[t].key], now), perKeyRpm, now)
      BY DEF CheckPerKey
    <3>. QED  BY <1>1, <3>4, <3>5, InfoType DEF IInv, TypeOK
  <2>. QED  BY <1>1, <1>3, <2>1, <2>2, <2>3
            DEF IInv, TypeOK, CheckPerKey, Verdicts, Calls
<1>5. GlobalInv'
  BY <1>1 DEF IInv, GlobalInv, CheckPerKey
<1>6. KeyInv'
  <2>1. \A k \in Keys : Tracks(perKeyWindows'[k], keyLog'[k], clock)
    BY <1>1, <1>2, <1>3, TracksLater
  <2>2. lastSweep' <= clock
    BY <1>1, <1>3 DEF Times
  <2>3. perKeyRpm' = perKeyRpm
    BY DEF CheckPerKey
  <2>. QED  BY <1>1, <1>2, <2>1, <2>2, <2>3 DEF KeyInv, SweepForgetsIdleKeys
<1>. QED  BY <1>1, <1>4, <1>5, <1>6 DEF IInv

LEMMA NextIInv == IInv /\ [Next]_vars => IInv'
<1> SUFFICES ASSUME IInv, [Next]_vars PROVE IInv'
  OBVIOUS
<1>1. CASE Tick
  BY <1>1, TickIInv
<1>2. ASSUME NEW t \in Threads, EnterGlobal(t) PROVE IInv'
  BY <1>2, EnterIInv DEF EnterGlobal, Locks
<1>3. ASSUME NEW t \in Threads, NEW k \in Keys, EnterPerKey(t, k) PROVE IInv'
  BY <1>3, EnterIInv DEF EnterPerKey, Locks
<1>4. ASSUME NEW t \in Threads, Bypass(t) PROVE IInv'
  BY <1>4, BypassIInv
<1>5. ASSUME NEW t \in Threads, CheckGlobal(t) PROVE IInv'
  BY <1>5, CheckGlobalIInv
<1>6. ASSUME NEW t \in Threads, CheckPerKey(t) PROVE IInv'
  BY <1>6, CheckPerKeyIInv
<1>7. CASE UNCHANGED vars
  BY <1>7 DEF vars, limiterVars, IInv, TypeOK, LockInv, GlobalInv, KeyInv, Stamp,
              SweepForgetsIdleKeys
<1>. QED  BY <1>1, <1>2, <1>3, <1>4, <1>5, <1>6, <1>7 DEF Next

\* The limiter's state and histories always have their types, in particular no
\* Remaining header underflows.
THEOREM TypeCorrect == Spec => []TypeOK
<1>1. IInv => TypeOK
  BY DEF IInv
<1>. QED  BY <1>1, InitIInv, NextIInv, PTL DEF Spec

\* For all limits, threads, keys and window lengths, no scope ever admits more
\* than its limit within one window.
THEOREM LimitHolds == Spec => []AdmissionsWithinLimit
<1>1. IInv => AdmissionsWithinLimit
  <2> SUFFICES ASSUME IInv PROVE AdmissionsWithinLimit
    OBVIOUS
  <2>1. AtMost(globalLog, globalRpm)
    BY SpacedIsAtMost DEF IInv, TypeOK, GlobalInv, Tracks
  <2>2. ASSUME NEW k \in Keys PROVE AtMost(keyLog[k], perKeyRpm)
    BY SpacedIsAtMost DEF IInv, TypeOK, KeyInv, Tracks
  <2>. QED  BY <2>1, <2>2 DEF AdmissionsWithinLimit
<1>. QED  BY <1>1, InitIInv, NextIInv, PTL DEF Spec

\* However often the sweep runs, a window still in memory after it had an
\* admission that counted at the sweep.
THEOREM SweepForgets == Spec => []SweepForgetsIdleKeys
<1>1. IInv => SweepForgetsIdleKeys
  BY DEF IInv, KeyInv
<1>. QED  BY <1>1, InitIInv, NextIInv, PTL DEF Spec

\* check_global implements SlidingWindow.
THEOREM GlobalImplements == Spec => GlobalWindowSlides
<1>1. Init => GlobalPromise!Init
  BY DEF Init, GlobalPromise!Init
<1>2. IInv /\ [Next]_vars => [GlobalPromise!Next]_(GlobalPromise!vars)
  <2> SUFFICES ASSUME IInv, [Next]_vars
               PROVE  GlobalPromise!Next \/ UNCHANGED <<globalRpm, globalLog>>
    BY DEF GlobalPromise!vars
  <2>1. ASSUME NEW t \in Threads, CheckGlobal(t)
        PROVE  GlobalPromise!Next \/ UNCHANGED <<globalRpm, globalLog>>
    <3> DEFINE now == call[t].now
               p == Prune(globalWindow, now)
    <3>1. Stamp("global") = now /\ now \in Times /\ globalRpm' = globalRpm
      BY <2>1, LeaveKeeps DEF IInv, CheckGlobal, Locks
    <3>2. /\ globalWindow \in Seq(Times) /\ globalLog \in Seq(Times)
          /\ globalRpm \in Nat
          /\ Tracks(globalWindow, globalLog, now) /\ Spaced(globalLog, globalRpm)
      BY <3>1 DEF IInv, TypeOK, GlobalInv
    <3>3. globalLog' = Logged(globalLog, p, globalRpm, now)
      BY <2>1 DEF CheckGlobal
    <3>4. \/ globalLog' = globalLog
          \/ /\ globalLog' = Append(globalLog, now)
             /\ globalRpm > 0
             /\ Len(globalLog) > 0 => globalLog[Len(globalLog)] <= now
             /\ Len(globalLog) >= globalRpm =>
                    Expired(globalLog[Len(globalLog) + 1 - globalRpm], now)
      BY <3>1, <3>2, <3>3, CheckTracks
    <3>. QED  BY <3>1, <3>4 DEF GlobalPromise!Next, GlobalPromise!Admit,
                                GlobalPromise!Admissible, Expired
  <2>2. ASSUME NEW t \in Threads,
               \/ EnterGlobal(t)
               \/ \E k \in Keys : EnterPerKey(t, k)
               \/ Bypass(t)
               \/ CheckPerKey(t)
        PROVE  UNCHANGED <<globalRpm, globalLog>>
    BY <2>2 DEF EnterGlobal, EnterPerKey, Enter, Bypass, CheckPerKey
  <2>3. CASE Tick \/ UNCHANGED vars
    BY <2>3 DEF Tick, vars, limiterVars
  <2>. QED  BY <2>1, <2>2, <2>3 DEF Next
<1>. QED  BY <1>1, <1>2, InitIInv, NextIInv, PTL DEF Spec, GlobalWindowSlides, GlobalPromise!Spec

\* check_per_key implements one SlidingWindow per key, clean-up included.
THEOREM KeysImplement == Spec => KeyWindowsSlide
<1> DEFINE KeyStep == \A k \in Keys : KeyPromise(k)!Next \/ UNCHANGED KeyPromise(k)!vars
           KeyInit == \A k \in Keys : KeyPromise(k)!Init
<1>1. Init => KeyInit
  BY DEF Init, KeyPromise!Init
<1>2. IInv /\ [Next]_vars => [KeyStep]_vars
  <2> SUFFICES ASSUME IInv, Next, NEW k \in Keys
               PROVE  KeyPromise(k)!Next \/ UNCHANGED <<perKeyRpm, keyLog[k]>>
    BY DEF KeyPromise!vars
  <2>1. ASSUME NEW t \in Threads, CheckPerKey(t)
        PROVE  KeyPromise(k)!Next \/ UNCHANGED <<perKeyRpm, keyLog[k]>>
    <3>1. call[t].now \in Times /\ perKeyRpm' = perKeyRpm
      BY <2>1, LeaveKeeps DEF IInv, CheckPerKey, Locks
    <3>. QED  BY <2>1, <3>1, CheckPerKeyTracks
              DEF KeyPromise!Next, KeyPromise!Admit, KeyPromise!Admissible, Expired
  <2>2. ASSUME NEW t \in Threads,
               \/ EnterGlobal(t)
               \/ \E j \in Keys : EnterPerKey(t, j)
               \/ Bypass(t)
               \/ CheckGlobal(t)
        PROVE  UNCHANGED <<perKeyRpm, keyLog[k]>>
    BY <2>2 DEF EnterGlobal, EnterPerKey, Enter, Bypass, CheckGlobal
  <2>3. CASE Tick
    BY <2>3 DEF Tick, limiterVars
  <2>. QED  BY <2>1, <2>2, <2>3 DEF Next
<1>. QED  BY <1>1, <1>2, InitIInv, NextIInv, PTL DEF Spec, KeyWindowsSlide

-----------------------------------------------------------------------------
\* A pruned window holds exactly the admissions that still count.
LEMMA LiveCount ==
  ASSUME NEW p \in Seq(Times), NEW l \in Seq(Times), NEW now \in Times,
         Tracks(p, l, now), Len(p) > 0 => ~Expired(p[1], now)
  PROVE  Cardinality(Live(l, now)) = Len(p)
<1> DEFINE first == Len(l) - Len(p) + 1
<1>1. /\ Len(l) \in Nat /\ Len(p) \in Nat
      /\ first \in Nat /\ first >= 1 /\ Len(l) - first + 1 = Len(p)
      /\ Len(p) > 0 => p[1] = l[first] /\ first \in 1..Len(l)
      /\ \A i \in 1..Len(l) : i < first => Expired(l[i], now)
  BY DEF Tracks, Suffix
<1>2. \A i, j \in 1..Len(l) : i <= j => l[i] <= l[j]
  BY DEF Tracks, Sorted
<1>. HIDE DEF first
<1>3. ASSUME NEW i \in 1..Len(l), i >= first PROVE ~Expired(l[i], now)
  <2>1. Len(p) > 0
    BY <1>1, <1>3
  <2>2. l[first] <= l[i] /\ l[i] \in Times /\ l[first] \in Times
    BY <1>1, <1>2, <1>3, <2>1
  <2>3. ~Expired(l[first], now)
    BY <1>1, <2>1
  <2>. QED  BY <2>2, <2>3, WindowNat, SMTT(30) DEF Expired, Times
<1>4. Live(l, now) = first..Len(l)
  <2>1. Live(l, now) \subseteq 1..Len(l)
    BY DEF Live
  <2>2. \A i : i \in first..Len(l) <=> i \in 1..Len(l) /\ i >= first
    BY <1>1
  <2>3. \A i \in 1..Len(l) : i \in Live(l, now) <=> i >= first
    BY <1>1, <1>3 DEF Live
  <2>. QED  BY <2>1, <2>2, <2>3
<1>5. first \in Int /\ Len(l) \in Int
  BY <1>1
<1>6. Cardinality(first..Len(l)) = IF first > Len(l) THEN 0 ELSE Len(l) - first + 1
  BY <1>5, FS_Interval
<1>. QED  BY <1>1, <1>4, <1>6

\* The answer of one check on a tracked window, against the whole history.
LEMMA CheckTellsTheTruth ==
  ASSUME NEW w \in Seq(Times), NEW l \in Seq(Times), NEW now \in Times,
         NEW limit \in Nat, Tracks(w, l, now), Spaced(l, limit),
         NEW p, p = Prune(w, now),
         NEW l1, l1 = Logged(l, p, limit, now),
         last' = Info(p, limit, now)
  PROVE  TellsTheTruth(l, l1, limit, now)
<1> DEFINE w1 == AfterCheck(p, limit, now)
<1>1. /\ p \in Seq(Times) /\ Tracks(p, l, now)
      /\ Len(p) > 0 => ~Expired(p[1], now)
  BY PruneTracks
<1>2. w1 \in Seq(Times) /\ l1 \in Seq(Times) /\ Tracks(w1, l1, now)
  BY CheckTracks
<1>3. Cardinality(Live(l, now)) = Len(p)
  BY <1>1, LiveCount
<1>4. Len(w1) > 0 => ~Expired(w1[1], now)
  <2>1. CASE Admits(p, limit)
    <3>1. w1[1] = IF Len(p) > 0 THEN p[1] ELSE now
      BY <1>1, <2>1 DEF AfterCheck
    <3>2. ~Expired(now, now)
      BY WindowNat DEF Expired, Times
    <3>. QED  BY <1>1, <3>1, <3>2
  <2>2. CASE ~Admits(p, limit)
    BY <1>1, <2>2 DEF AfterCheck
  <2>. QED  BY <2>1, <2>2
<1>5. Cardinality(Live(l1, now)) = Len(w1)
  <2>. HIDE DEF w1
  <2>. QED  BY <1>2, <1>4, LiveCount
<1>6. Len(p) <= limit
  <2>1. SUFFICES ASSUME Len(p) > limit PROVE FALSE
    BY <1>1
  <2> DEFINE first == Len(l) - Len(p) + 1
  <2>2. /\ first \in 1..(Len(l) - limit) /\ p[1] = l[first]
        /\ first + limit \in 1..Len(l)
    BY <1>1, <2>1 DEF Tracks, Suffix
  <2>3. Expired(l[first], l[first + limit]) /\ l[first + limit] <= now
    BY <1>1, <2>2 DEF Spaced, Tracks
  <2>4. l[first] \in Times /\ l[first + limit] \in Times
    BY <2>2
  <2>5. Expired(l[first], now)
    <3>. HIDE DEF first
    <3>. QED  BY <2>3, <2>4, WindowNat, SMTT(30) DEF Expired, Times
  <2>. QED  BY <1>1, <2>1, <2>2, <2>5
<1>7. CASE Admits(p, limit)
  <2>1. /\ last'.admitted = TRUE /\ last'.remaining = limit - Len(w1)
        /\ l1 = Append(l, now) /\ Len(p) < limit
    BY <1>7 DEF Info, Logged, Admits
  <2>2. l1 # l
    BY <2>1
  <2>. QED  BY <1>3, <1>5, <2>1, <2>2 DEF TellsTheTruth
<1>8. CASE ~Admits(p, limit)
  <2>1. last'.admitted = FALSE /\ last'.remaining = 0 /\ l1 = l /\ w1 = p
    BY <1>8 DEF Info, Logged, AfterCheck
  <2>2. Len(p) = limit
    <3>1. Len(p) \in Nat /\ ~(Len(p) < limit)
      BY <1>1, <1>8 DEF Admits
    <3>. QED  BY <1>6, <3>1
  <2>. HIDE DEF w1
  <2>3. Cardinality(Live(l, now)) = limit /\ limit - limit = 0 /\ ~(limit < limit)
    BY <1>3, <2>2
  <2>4. (Cardinality(Live(l, now)) < limit) = FALSE /\ (l1 # l) = FALSE
    BY <2>1, <2>3
  <2>5. last'.remaining = limit - Cardinality(Live(l1, now))
    BY <2>1, <2>3
  <2>. QED  BY <2>1, <2>4, <2>5, Zenon DEF TellsTheTruth
<1>. QED  BY <1>7, <1>8

\* Every answer a check returns agrees with the whole history of admissions.
THEOREM VerdictsHold == Spec => VerdictMatchesHistory
<1> DEFINE Truth == \A t \in Threads :
      /\ CheckGlobal(t) => TellsTheTruth(globalLog, globalLog', globalRpm, call[t].now)
      /\ CheckPerKey(t) => LET k == call[t].key IN
             TellsTheTruth(keyLog[k], keyLog'[k], perKeyRpm, call[t].now)
<1>1. ASSUME IInv, NEW t \in Threads, CheckGlobal(t)
      PROVE  TellsTheTruth(globalLog, globalLog', globalRpm, call[t].now)
  <2>1. Stamp("global") = call[t].now /\ call[t].now \in Times
    BY <1>1, LeaveKeeps DEF IInv, CheckGlobal, Locks
  <2>2. /\ globalWindow \in Seq(Times) /\ globalLog \in Seq(Times) /\ globalRpm \in Nat
        /\ Tracks(globalWindow, globalLog, call[t].now) /\ Spaced(globalLog, globalRpm)
    BY <1>1, <2>1 DEF IInv, TypeOK, GlobalInv
  <2>. QED  BY <1>1, <2>1, <2>2, CheckTellsTheTruth DEF CheckGlobal
<1>2. ASSUME IInv, NEW t \in Threads, CheckPerKey(t)
      PROVE  TellsTheTruth(keyLog[call[t].key], keyLog'[call[t].key], perKeyRpm, call[t].now)
  <2> DEFINE now == call[t].now
             k == call[t].key
             windows == IF SweepDue THEN Swept(perKeyWindows, now) ELSE perKeyWindows
  <2>1. Stamp("perKey") = now /\ now \in Times
    BY <1>2, LeaveKeeps DEF IInv, CheckPerKey, Locks
  <2>2. /\ k \in Keys /\ perKeyRpm \in Nat
        /\ perKeyWindows[k] \in Seq(Times) /\ keyLog[k] \in Seq(Times)
        /\ Tracks(perKeyWindows[k], keyLog[k], now) /\ Spaced(keyLog[k], perKeyRpm)
    BY <1>2, <2>1 DEF IInv, TypeOK, LockInv, KeyInv, CheckPerKey, Leave
  <2>3. windows[k] \in Seq(Times) /\ Tracks(windows[k], keyLog[k], now)
    <3>1. CASE SweepDue
      BY <2>1, <2>2, <3>1, PruneTracks DEF Swept
    <3>2. CASE ~SweepDue
      BY <2>2, <3>2
    <3>. QED  BY <3>1, <3>2
  <2>4. /\ keyLog'[k] = Logged(keyLog[k], Prune(windows[k], now), perKeyRpm, now)
        /\ last' = Info(Prune(windows[k], now), perKeyRpm, now)
    BY <1>2, <2>2 DEF CheckPerKey, IInv, TypeOK
  <2>. HIDE DEF windows, k, now
  <2>5. TellsTheTruth(keyLog[k], keyLog'[k], perKeyRpm, now)
    BY <2>1, <2>2, <2>3, <2>4, CheckTellsTheTruth
  <2>. QED  BY <2>5 DEF k, now
<1>3. IInv /\ [Next]_vars => [Truth]_vars
  BY <1>1, <1>2
<1>. QED  BY <1>3, InitIInv, NextIInv, PTL DEF Spec, VerdictMatchesHistory
-----------------------------------------------------------------------------
\* A check is under way only where there is a limit.
LimitsOn ==
    \A t \in Threads : /\ call[t].op = "global" => globalRpm > 0
                       /\ call[t].op = "perKey" => perKeyRpm > 0

\* Rounding down to whole seconds.
LEMMA QuotientBounds ==
  ASSUME NEW a \in Nat, NEW t \in Nat \ {0}
  PROVE  a \div t \in Nat /\ (a \div t) * t <= a /\ a < (a \div t) * t + t
  OBVIOUS

\* Two instants, each rounded down, are less than two seconds short of their sum.
LEMMA RoundedTwice ==
  ASSUME NEW a \in Nat, NEW b \in Nat, NEW t \in Nat \ {0}
  PROVE  LET sum == (a \div t + b \div t) * t
         IN  (a + b) - 2 * t < sum /\ sum <= a + b
<1>1. PICK p \in Nat : p = a \div t /\ p * t <= a /\ a < p * t + t
  BY QuotientBounds
<1>2. PICK q \in Nat : q = b \div t /\ q * t <= b /\ b < q * t + t
  BY QuotientBounds
<1>3. (p + q) * t = p * t + q * t /\ p * t \in Nat /\ q * t \in Nat
  OBVIOUS
<1>4. (a + b) - 2 * t < (p + q) * t /\ (p + q) * t <= a + b
  BY <1>1, <1>2, <1>3
<1>. QED  BY <1>1, <1>2, <1>4, Zenon

\* The front of a pruned window is the oldest admission that still counts.
LEMMA FrontIsOldest ==
  ASSUME NEW w \in Seq(Times), NEW l \in Seq(Times), NEW now \in Times,
         Tracks(w, l, now), Len(w) > 0, ~Expired(w[1], now)
  PROVE  OldestLive(l, now) = w[1]
<1> DEFINE first == Len(l) - Len(w) + 1
           Oldest(i) == \A j \in Live(l, now) : i <= j
<1>1. first \in 1..Len(l) /\ l[first] = w[1]
  BY DEF Tracks, Suffix
<1>2. Live(l, now) \subseteq Nat
  BY DEF Live
<1>3. first \in Live(l, now)
  BY <1>1 DEF Live
<1>4. ASSUME NEW i \in Live(l, now) PROVE first <= i
  <2>1. i \in 1..Len(l) /\ ~Expired(l[i], now)
    BY DEF Live
  <2>. QED  BY <1>1, <2>1 DEF Tracks
<1>5. \E i \in Live(l, now) : Oldest(i)
  BY <1>3, <1>4
<1>. HIDE DEF first
<1>6. ASSUME NEW i \in Live(l, now), Oldest(i) PROVE i = first
  BY <1>2, <1>3, <1>4, <1>6
<1>7. (CHOOSE i \in Live(l, now) : Oldest(i)) = first
  BY <1>5, <1>6
<1>. QED  BY <1>1, <1>7 DEF OldestLive

\* The reset of one check on a tracked window, against the whole history.
LEMMA CheckTracksOldest ==
  ASSUME TypeOK,
         NEW w \in Seq(Times), NEW l \in Seq(Times), NEW now \in Times,
         NEW limit \in Nat, limit > 0, Tracks(w, l, now), Spaced(l, limit),
         NEW p, p = Prune(w, now),
         NEW l1, l1 = Logged(l, p, limit, now),
         last' = Info(p, limit, now)
  PROVE  TracksOldest(l1, now)
<1> DEFINE w1 == AfterCheck(p, limit, now)
           left == w1[1] + Window - now
<1>1. /\ p \in Seq(Times) /\ Tracks(p, l, now)
      /\ Len(p) > 0 => ~Expired(p[1], now)
  BY PruneTracks
<1>2. w1 \in Seq(Times) /\ l1 \in Seq(Times) /\ Tracks(w1, l1, now)
  BY CheckTracks
<1>3. Len(w1) > 0 /\ ~Expired(w1[1], now)
  <2>1. CASE Admits(p, limit)
    <3>1. w1[1] = (IF Len(p) > 0 THEN p[1] ELSE now) /\ Len(w1) > 0
      BY <1>1, <2>1 DEF AfterCheck
    <3>2. ~Expired(now, now)
      BY WindowNat DEF Expired, Times
    <3>. QED  BY <1>1, <3>1, <3>2
  <2>2. CASE ~Admits(p, limit)
    BY <1>1, <2>2 DEF AfterCheck, Admits
  <2>. QED  BY <2>1, <2>2
<1>. HIDE DEF w1
<1>4. OldestLive(l1, now) = w1[1]
  BY <1>2, <1>3, FrontIsOldest
<1>5. w1[1] \in Times
  BY <1>2, <1>3
<1>6. left \in Nat
  BY <1>3, <1>5, WindowNat DEF Expired, Times
<1>7. last'.reset = (phase + clock) \div TicksPerSecond + left \div TicksPerSecond
  <2>1. last'.reset = Reset(w1, now) /\ w1 # <<>>
    BY <1>3 DEF Info, w1
  <2>2. left = IF w1[1] + Window > now THEN w1[1] + Window - now ELSE 0
    BY <1>3, <1>5, WindowNat DEF Expired, Times
  <2>. QED  BY <2>1, <2>2 DEF Reset
<1>8. phase + clock \in Nat /\ TicksPerSecond \in Nat \ {0}
  BY DEF TypeOK, Times
<1>. HIDE DEF left
<1>9. /\ (phase + clock + left) - 2 * TicksPerSecond < last'.reset * TicksPerSecond
      /\ last'.reset * TicksPerSecond <= phase + clock + left
  BY <1>6, <1>7, <1>8, RoundedTwice, Zenon
<1>10. OldestLive(l1, now) + Window - now = left
  BY <1>4 DEF left
<1>. QED  BY <1>9, <1>10, Zenon DEF TracksOldest

\* Every reset time a check returns (compute_reset, with its two roundings) is that
\* of the oldest admission that still counts: never late, less than two seconds early.
THEOREM ResetIsTheOldests == Spec => ResetTracksOldest
<1> DEFINE Oldest == \A t \in Threads :
      /\ CheckGlobal(t) => TracksOldest(globalLog', call[t].now)
      /\ CheckPerKey(t) => TracksOldest(keyLog'[call[t].key], call[t].now)
<1>1. Init => LimitsOn
  BY DEF Init, LimitsOn, Idle
<1>2. IInv /\ LimitsOn /\ [Next]_vars => LimitsOn'
  <2> SUFFICES ASSUME IInv, LimitsOn, [Next]_vars, NEW t \in Threads
               PROVE  /\ call'[t].op = "global" => globalRpm' > 0
                      /\ call'[t].op = "perKey" => perKeyRpm' > 0
    BY DEF LimitsOn
  <2>1. call \in [Threads -> Calls] /\ globalRpm' = globalRpm /\ perKeyRpm' = perKeyRpm
    BY DEF IInv, TypeOK, Calls, Next, vars, Tick, EnterGlobal, EnterPerKey, Enter, Bypass,
           CheckGlobal, CheckPerKey, limiterVars
  <2>2. \/ call'[t] = call[t] \/ call'[t] = Idle
        \/ call'[t].op = "global" /\ globalRpm > 0
        \/ call'[t].op = "perKey" /\ perKeyRpm > 0
    <3>1. CASE Tick \/ UNCHANGED vars \/ \E s \in Threads : Bypass(s)
      BY <3>1 DEF Tick, vars, limiterVars, Bypass
    <3>2. ASSUME NEW s \in Threads, EnterGlobal(s) \/ \E k \in Keys : EnterPerKey(s, k)
          PROVE  \/ call'[t] = call[t]
                 \/ call'[t].op = "global" /\ globalRpm > 0
                 \/ call'[t].op = "perKey" /\ perKeyRpm > 0
      BY <2>1, <3>2 DEF EnterGlobal, EnterPerKey, Enter
    <3>3. ASSUME NEW s \in Threads, CheckGlobal(s) \/ CheckPerKey(s)
          PROVE  call'[t] = call[t] \/ call'[t] = Idle
      BY <2>1, <3>3 DEF CheckGlobal, CheckPerKey, Leave
    <3>. QED  BY <3>1, <3>2, <3>3 DEF Next
  <2>3. Idle.op \notin {"global", "perKey"}
    BY DEF Idle
  <2>. QED  BY <2>1, <2>2, <2>3 DEF LimitsOn
<1>3. ASSUME IInv, LimitsOn, NEW t \in Threads, CheckGlobal(t)
      PROVE  TracksOldest(globalLog', call[t].now)
  <2>1. Stamp("global") = call[t].now /\ call[t].now \in Times
    BY <1>3, LeaveKeeps DEF IInv, CheckGlobal, Locks
  <2>2. /\ globalWindow \in Seq(Times) /\ globalLog \in Seq(Times) /\ globalRpm \in Nat
        /\ Tracks(globalWindow, globalLog, call[t].now) /\ Spaced(globalLog, globalRpm)
        /\ globalRpm > 0
    BY <1>3, <2>1 DEF IInv, TypeOK, GlobalInv, LimitsOn, CheckGlobal, Leave
  <2>. QED  BY <1>3, <2>1, <2>2, CheckTracksOldest DEF CheckGlobal, IInv
<1>4. ASSUME IInv, LimitsOn, NEW t \in Threads, CheckPerKey(t)
      PROVE  TracksOldest(keyLog'[call[t].key], call[t].now)
  <2> DEFINE now == call[t].now
             k == call[t].key
             windows == IF SweepDue THEN Swept(perKeyWindows, now) ELSE perKeyWindows
  <2>1. Stamp("perKey") = now /\ now \in Times
    BY <1>4, LeaveKeeps DEF IInv, CheckPerKey, Locks
  <2>2. /\ k \in Keys /\ perKeyRpm \in Nat /\ perKeyRpm > 0
        /\ perKeyWindows[k] \in Seq(Times) /\ keyLog[k] \in Seq(Times)
        /\ Tracks(perKeyWindows[k], keyLog[k], now) /\ Spaced(keyLog[k], perKeyRpm)
    BY <1>4, <2>1 DEF IInv, TypeOK, LockInv, KeyInv, CheckPerKey, Leave, LimitsOn
  <2>3. windows[k] \in Seq(Times) /\ Tracks(windows[k], keyLog[k], now)
    <3>1. CASE SweepDue
      BY <2>1, <2>2, <3>1, PruneTracks DEF Swept
    <3>2. CASE ~SweepDue
      BY <2>2, <3>2
    <3>. QED  BY <3>1, <3>2
  <2>4. /\ keyLog'[k] = Logged(keyLog[k], Prune(windows[k], now), perKeyRpm, now)
        /\ last' = Info(Prune(windows[k], now), perKeyRpm, now)
    BY <1>4, <2>2 DEF CheckPerKey, IInv, TypeOK
  <2>5. TypeOK
    BY <1>4 DEF IInv
  <2>. HIDE DEF windows, k, now
  <2>6. TracksOldest(keyLog'[k], now)
    BY <2>1, <2>2, <2>3, <2>4, <2>5, CheckTracksOldest
  <2>. QED  BY <2>6 DEF k, now
<1>5. IInv /\ LimitsOn /\ [Next]_vars => [Oldest]_vars
  BY <1>3, <1>4
<1>. QED  BY <1>1, <1>2, <1>5, InitIInv, NextIInv, PTL DEF Spec, ResetTracksOldest
=============================================================================

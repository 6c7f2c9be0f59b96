---------------------------- MODULE RateLimiter ----------------------------
(***************************************************************************)
(* The request limiter, src/src/fairings/rate_limiter.rs: one window for   *)
(* the whole service and one per API key, each a deque of the Instants at  *)
(* which requests were let through.  Rocket's worker threads call          *)
(* check_global and check_per_key concurrently; each call holds its mutex  *)
(* from reading the clock to returning.                                    *)
(*                                                                         *)
(* Time is counted in ticks, TicksPerSecond of them to a second, because   *)
(* the deques hold Instants while the Reset header counts whole seconds.   *)
(* A key without an entry in the code's HashMap and a key with an empty    *)
(* deque behave alike (or_default), so the map is a total function and     *)
(* <<>> stands for both.  Nothing inside the critical sections panics, so  *)
(* the poisoned-lock arms (lines 73-76, 112-115) are not reachable and are *)
(* not modelled.                                                           *)
(***************************************************************************)
EXTENDS Integers, Sequences, FiniteSets

CONSTANTS
    Threads,            \* worker threads that run request guards
    Keys,               \* row ids of API keys
    None,               \* no thread, no key
    Limits,             \* the configured pairs <<global_rpm, per_key_rpm>> considered
    WindowSeconds,      \* WINDOW_DURATION, in seconds
    TicksPerSecond,     \* resolution of Instant
    CleanupEvery,       \* PER_KEY_CLEANUP_EVERY
    MaxTime             \* bound of the clock, in ticks

ASSUME LimitsAssumption == Limits \subseteq Nat \X Nat
ASSUME TimeAssumption ==
    /\ WindowSeconds \in Nat \ {0}
    /\ TicksPerSecond \in Nat \ {0}
    /\ CleanupEvery \in Nat \ {0}
    /\ MaxTime \in Nat
ASSUME NoneAssumption == None \notin Threads /\ None \notin Keys

VARIABLES
    clock,              \* the monotonic clock
    phase,              \* how far into a UNIX second the clock's zero lies
    globalRpm, perKeyRpm,
    globalWindow,       \* global_window
    perKeyWindows,      \* per_key_windows
    checkCount,         \* per_key_check_count modulo CleanupEvery
    owner,              \* who holds each mutex
    call,               \* the check each thread is in
    last,               \* what the last check to return returned
    globalLog, keyLog,  \* history: the times of every admission
    lastSweep           \* history: the `now` of the last clean-up

limiterVars == <<globalWindow, perKeyWindows, checkCount, owner, call, last,
                 globalLog, keyLog, lastSweep>>
vars == <<clock, phase, globalRpm, perKeyRpm, limiterVars>>

Window == WindowSeconds * TicksPerSecond
Locks == {"global", "perKey"}
Idle == [op |-> "none", key |-> None, now |-> 0]

-----------------------------------------------------------------------------
\* Mutant: an entry exactly one window old no longer counts.
ExpiredAtWindow(stamp, now) == stamp + Window <= now

\* prune_window's test: an entry exactly one window old is kept.
Expired(stamp, now) == stamp + Window < now

\* prune_window pops from the front up to the first entry that is not expired.
Prune(window, now) ==
    LET gone == CHOOSE n \in 0..Len(window) :
                    /\ \A i \in 1..n : Expired(window[i], now)
                    /\ n < Len(window) => ~Expired(window[n + 1], now)
    IN  SubSeq(window, gone + 1, Len(window))

\* Mutant: the reset computed from the newest entry.
ResetFromNewest(window, now) ==
    (phase + clock) \div TicksPerSecond
        + (window[Len(window)] + Window - now) \div TicksPerSecond

\* compute_reset: the wall clock and the remaining time are both rounded down
\* to whole seconds before they are added.
Reset(window, now) ==
    LET left == IF window = <<>> THEN Window
                ELSE IF window[1] + Window > now THEN window[1] + Window - now
                ELSE 0
    IN  (phase + clock) \div TicksPerSecond + left \div TicksPerSecond

\* Mutants: one request too many; refusals recorded like admissions.
AdmitsOneMore(window, limit) == Len(window) <= limit
AfterCheckAlwaysRecords(window, limit, now) == Append(window, now)

\* The common half of check_global and check_per_key, from the pruned window.
Admits(window, limit) == Len(window) < limit
AfterCheck(window, limit, now) ==
    IF Admits(window, limit) THEN Append(window, now) ELSE window
Info(window, limit, now) ==
    LET after == AfterCheck(window, limit, now)
    IN  [admitted  |-> Admits(window, limit),
         remaining |-> IF Admits(window, limit) THEN limit - Len(after) ELSE 0,
         reset     |-> Reset(after, now)]
Unlimited == [admitted |-> TRUE, remaining |-> None, reset |-> None]
Logged(l, window, limit, now) ==
    IF Admits(window, limit) THEN Append(l, now) ELSE l

-----------------------------------------------------------------------------
\* Mutant: the clock read, and the window used, without the mutex.
EnterUnlocked(t, lock, key) ==
    /\ call[t] = Idle
    /\ owner' = [owner EXCEPT ![lock] = t]
    /\ call' = [call EXCEPT ![t] = [op |-> lock, key |-> key, now |-> clock]]
    /\ UNCHANGED <<clock, phase, globalRpm, perKeyRpm, globalWindow,
                   perKeyWindows, checkCount, last, globalLog, keyLog, lastSweep>>

\* Taking the mutex and then reading Instant::now().
Enter(t, lock, key) ==
    /\ call[t] = Idle
    /\ owner[lock] = None
    /\ owner' = [owner EXCEPT ![lock] = t]
    /\ call' = [call EXCEPT ![t] = [op |-> lock, key |-> key, now |-> clock]]
    /\ UNCHANGED <<clock, phase, globalRpm, perKeyRpm, globalWindow,
                   perKeyWindows, checkCount, last, globalLog, keyLog, lastSweep>>

EnterGlobal(t) == globalRpm > 0 /\ Enter(t, "global", None)
EnterPerKey(t, k) == perKeyRpm > 0 /\ Enter(t, "perKey", k)

\* A limit of zero answers before the lock is taken.
Bypass(t) ==
    /\ call[t] = Idle
    /\ globalRpm = 0 \/ perKeyRpm = 0
    /\ last' = Unlimited
    /\ UNCHANGED <<clock, phase, globalRpm, perKeyRpm, globalWindow, perKeyWindows,
                   checkCount, owner, call, globalLog, keyLog, lastSweep>>

Leave(t, lock) ==
    /\ call[t].op = lock
    /\ owner' = [owner EXCEPT ![lock] = None]
    /\ call' = [call EXCEPT ![t] = Idle]

CheckGlobal(t) ==
    LET now    == call[t].now
        window == Prune(globalWindow, now)
    IN  /\ Leave(t, "global")
        /\ globalWindow' = AfterCheck(window, globalRpm, now)
        /\ globalLog' = Logged(globalLog, window, globalRpm, now)
        /\ last' = Info(window, globalRpm, now)
        /\ UNCHANGED <<clock, phase, globalRpm, perKeyRpm, perKeyWindows,
                       checkCount, keyLog, lastSweep>>

\* The counter wraps at 2^64, a multiple of 1024, so only its residue matters.
SweepDue == (checkCount + 1) % CleanupEvery = 0

\* Mutants: a sweep that prunes nothing, and one that forgets live windows.
SweptNothing(windows, now) == windows
SweptAll(windows, now) == [k \in Keys |-> <<>>]

\* The retain() of the clean-up: every window pruned, the empty ones dropped.
Swept(windows, now) == [k \in Keys |-> Prune(windows[k], now)]

CheckPerKey(t) ==
    LET now     == call[t].now
        key     == call[t].key
        windows == IF SweepDue THEN Swept(perKeyWindows, now) ELSE perKeyWindows
        window  == Prune(windows[key], now)
    IN  /\ Leave(t, "perKey")
        /\ checkCount' = (checkCount + 1) % CleanupEvery
        /\ perKeyWindows' = [windows EXCEPT ![key] = AfterCheck(window, perKeyRpm, now)]
        /\ keyLog' = [keyLog EXCEPT ![key] = Logged(@, window, perKeyRpm, now)]
        /\ last' = Info(window, perKeyRpm, now)
        /\ lastSweep' = IF SweepDue THEN now ELSE lastSweep
        /\ UNCHANGED <<clock, phase, globalRpm, perKeyRpm, globalWindow, globalLog>>

Tick ==
    /\ clock < MaxTime
    /\ clock' = clock + 1
    /\ UNCHANGED <<phase, globalRpm, perKeyRpm, limiterVars>>

-----------------------------------------------------------------------------
Init ==
    /\ clock = 0
    /\ phase \in 0..(TicksPerSecond - 1)
    /\ \E limits \in Limits : globalRpm = limits[1] /\ perKeyRpm = limits[2]
    /\ globalWindow = <<>> /\ globalLog = <<>>
    /\ perKeyWindows = [k \in Keys |-> <<>>]
    /\ keyLog = [k \in Keys |-> <<>>]
    /\ checkCount = 0 /\ lastSweep = 0
    /\ owner = [l \in Locks |-> None]
    /\ call = [t \in Threads |-> Idle]
    /\ last = Unlimited

Next ==
    \/ Tick
    \/ \E t \in Threads :
        \/ EnterGlobal(t)
        \/ \E k \in Keys : EnterPerKey(t, k)
        \/ Bypass(t)
        \/ CheckGlobal(t)
        \/ CheckPerKey(t)

Spec == Init /\ [][Next]_vars

-----------------------------------------------------------------------------
Times == 0..MaxTime

\* Types of the state, the limits and the histories (no code claim beyond it).
TypeOK ==
    /\ clock \in Times /\ phase \in 0..(TicksPerSecond - 1)
    /\ globalRpm \in Nat /\ perKeyRpm \in Nat
    /\ globalWindow \in Seq(Times) /\ globalLog \in Seq(Times)
    /\ perKeyWindows \in [Keys -> Seq(Times)] /\ keyLog \in [Keys -> Seq(Times)]
    /\ checkCount \in 0..(CleanupEvery - 1) /\ lastSweep \in Times
    /\ owner \in [Locks -> Threads \cup {None}]
    /\ call \in [Threads -> [op : Locks \cup {"none"}, key : Keys \cup {None}, now : Times]]
    /\ last \in [admitted : BOOLEAN, remaining : Nat \cup {None}, reset : Nat \cup {None}]

\* The global and the per-key windows each keep the promise of SlidingWindow,
\* whatever the threads, the pruning and the clean-up do in between.
GlobalPromise == INSTANCE SlidingWindow WITH limit <- globalRpm, log <- globalLog
KeyPromise(k) == INSTANCE SlidingWindow WITH limit <- perKeyRpm, log <- keyLog[k]

\* check_global lets a request through only as SlidingWindow allows it.
GlobalWindowSlides == GlobalPromise!Spec
\* check_per_key lets a request of a key through only as that key's own
\* SlidingWindow allows it: the other keys' traffic and the sweep do not count.
\* (\A k \in Keys : KeyPromise(k)!Spec, in the form TLC accepts.)
KeyWindowsSlide ==
    /\ \A k \in Keys : KeyPromise(k)!Init
    /\ [][\A k \in Keys : KeyPromise(k)!Next \/ UNCHANGED KeyPromise(k)!vars]_vars

\* The admissions that still count at `now`.
Live(l, now) == {i \in DOMAIN l : ~Expired(l[i], now)}

\* In no stretch of one window does any scope admit more than its limit: the
\* sliding-window claim counted directly over the whole history.
AtMost(l, limit) ==
    \A from \in Times :
        Cardinality({i \in DOMAIN l : from <= l[i] /\ l[i] <= from + Window}) <= limit
AdmissionsWithinLimit ==
    /\ AtMost(globalLog, globalRpm)
    /\ \A k \in Keys : AtMost(keyLog[k], perKeyRpm)

\* What a returning check tells its caller agrees with the whole history: it
\* refuses exactly when the limit is used up by admissions that still count,
\* and Remaining is the limit minus those (a refusal is never recorded).
TellsTheTruth(before, after, limit, now) ==
    /\ last'.remaining = limit - Cardinality(Live(after, now))
    /\ last'.admitted = (Cardinality(Live(before, now)) < limit)
    /\ last'.admitted = (after # before)
VerdictMatchesHistory ==
    [][\A t \in Threads :
        /\ CheckGlobal(t) => TellsTheTruth(globalLog, globalLog', globalRpm, call[t].now)
        /\ CheckPerKey(t) => LET k == call[t].key IN
               TellsTheTruth(keyLog[k], keyLog'[k], perKeyRpm, call[t].now)]_vars

\* X-RateLimit-Reset is tied to the oldest admission that still counts: up to
\* the time spent inside the check it never lies after the moment that
\* admission expires, and it lies less than two seconds before it.
OldestLive(l, now) == l[CHOOSE i \in Live(l, now) : \A j \in Live(l, now) : i <= j]
TracksOldest(l, now) ==
    LET expiry == phase + clock + (OldestLive(l, now) + Window - now)
        reset  == last'.reset * TicksPerSecond
    IN  expiry - 2 * TicksPerSecond < reset /\ reset <= expiry
ResetTracksOldest ==
    [][\A t \in Threads :
        /\ CheckGlobal(t) => TracksOldest(globalLog', call[t].now)
        /\ CheckPerKey(t) => TracksOldest(keyLog'[call[t].key], call[t].now)]_vars

\* A key with a window in memory had an admission that still counted when the
\* last clean-up ran: idle keys do not pile up beyond CleanupEvery checks.
SweepForgetsIdleKeys ==
    \A k \in Keys : perKeyWindows[k] # <<>> =>
        ~Expired(perKeyWindows[k][Len(perKeyWindows[k])], lastSweep)
=============================================================================

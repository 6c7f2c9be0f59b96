--------------------------- MODULE SlidingWindow ---------------------------
(***************************************************************************)
(* What one request window of the rate limiter promises, without the       *)
(* deque, the lock, the clean-up or the threads of                         *)
(* src/src/fairings/rate_limiter.rs: a log of admission times in which a   *)
(* new admission is allowed only when the limit-th most recent one lies    *)
(* more than Window behind it.  Refusals are stuttering steps.             *)
(***************************************************************************)
EXTENDS Integers, Sequences

CONSTANTS
    Window,     \* length of the window (WINDOW_DURATION), in ticks
    Times       \* the times an admission can carry

VARIABLES
    limit,      \* requests allowed per window; 0 turns the limiter off
    log         \* the times of all admissions, oldest first

vars == <<limit, log>>

Admissible(stamp) ==
    /\ limit > 0
    /\ Len(log) > 0 => log[Len(log)] <= stamp
    /\ Len(log) >= limit => log[Len(log) + 1 - limit] + Window < stamp

Admit(stamp) ==
    /\ Admissible(stamp)
    /\ log' = Append(log, stamp)
    /\ UNCHANGED limit

Init == limit \in Nat /\ log = <<>>
Next == \E stamp \in Times : Admit(stamp)
Spec == Init /\ [][Next]_vars
=============================================================================

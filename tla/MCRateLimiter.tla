--------------------------- MODULE MCRateLimiter ---------------------------
(* RateLimiter on a small instance: two threads, two keys, a window of one  *)
(* second of two ticks, so that the clock passes several windows.           *)
EXTENDS RateLimiter, TLC

CONSTANTS t1, t2, k1, k2

MCThreads == {t1, t2}
MCKeys == {k1, k2}
\* Each limit at work alone, both at work, and each turned off by zero.
MCLimits == {<<2, 0>>, <<0, 2>>, <<0, 1>>, <<1, 1>>}
\* The last verdict never influences a later step: only action properties,
\* which TLC evaluates on every step, read it.
WithoutVerdict == <<clock, phase, globalRpm, perKeyRpm, globalWindow, perKeyWindows,
                    checkCount, owner, call, globalLog, keyLog, lastSweep>>
Symmetry == Permutations(MCThreads) \cup Permutations(MCKeys)
=============================================================================

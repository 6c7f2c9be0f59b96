----------------------------- MODULE FairRwLock -----------------------------
(***************************************************************************)
(* tokio::sync::RwLock as src/ uses it (SharedRaindexProvider): a first-   *)
(* come first-served lock.  A request that cannot be granted waits in a    *)
(* queue, and a reader that arrives behind a waiting writer waits too.     *)
(* Dropping a guard grants the longest prefix of the queue that fits.      *)
(***************************************************************************)
EXTENDS Naturals, Sequences

CONSTANT Nobody

Unlocked == [readers |-> {}, writer |-> Nobody, queue |-> <<>>]

Reading(lock, p) == p \in lock.readers
Writing(lock, p) == lock.writer = p

NoWriter(lock) == lock.writer = Nobody
NoHolder(lock) == NoWriter(lock) /\ lock.readers = {}

\* Who waits for a guard of that mode.
Asking(lock, mode) ==
    {lock.queue[i].who : i \in {j \in DOMAIN lock.queue : lock.queue[j].mode = mode}}

\* How many requests at the head of the queue are granted together: a writer
\* alone, or every reader before the next writer.
ReadersAhead(queue) ==
    CHOOSE n \in 0..Len(queue) :
        /\ \A i \in 1..n : queue[i].mode = "read"
        /\ n < Len(queue) => queue[n + 1].mode = "write"

Settle(lock) ==
    LET q == lock.queue
        n == ReadersAhead(q)
        Rest(k) == SubSeq(q, k + 1, Len(q))
    IN  IF q # <<>> /\ q[1].mode = "write" /\ NoHolder(lock)
        THEN [lock EXCEPT !.writer = q[1].who, !.queue = Rest(1)]
        ELSE IF NoWriter(lock)
        THEN [lock EXCEPT !.readers = @ \cup {q[i].who : i \in 1..n}, !.queue = Rest(n)]
        ELSE lock

\* read().await and write().await join the queue and may be granted at once.
Request(lock, p, mode) ==
    Settle([lock EXCEPT !.queue = Append(@, [who |-> p, mode |-> mode])])

\* Dropping a guard.
Release(lock, p) ==
    Settle([lock EXCEPT !.readers = @ \ {p},
                        !.writer  = IF @ = p THEN Nobody ELSE @])

\* The exclusion a readers-writer lock gives.
Exclusive(lock) == ~NoWriter(lock) => lock.readers = {}
=============================================================================

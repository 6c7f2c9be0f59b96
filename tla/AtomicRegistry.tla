--------------------------- MODULE AtomicRegistry ---------------------------
(***************************************************************************)
(* What Registry promises: one registry that is stored and served, and     *)
(* replaced in a single step, never under a request that uses it.          *)
(***************************************************************************)
CONSTANTS Urls, NoUrl, Handlers

VARIABLES
    stored,     \* what the next start-up will serve
    serving,    \* what requests get; NoUrl while the service is not up
    using,      \* what each request works with; NoUrl if it has none
    unread      \* some start-up could not see what is stored

vars == <<stored, serving, using, unread>>

Unused == [h \in Handlers |-> NoUrl]

Init == stored = NoUrl /\ serving = NoUrl /\ using = Unused /\ unread = FALSE

\* A start-up stores a URL of its own: it found none, or could not read it.
Seed(url) ==
    /\ serving = NoUrl
    /\ stored' \in {stored, url}
    /\ unread' = (unread \/ stored # NoUrl)
    /\ UNCHANGED <<serving, using>>

\* What is stored is served; another URL only if there is nothing to go by.
Start(url) ==
    /\ serving = NoUrl
    /\ stored \in {url, NoUrl} \/ unread
    /\ serving' = url
    /\ UNCHANGED <<stored, using, unread>>

\* Stored and served change together, while no request is using either.
Replace(url) ==
    /\ serving # NoUrl
    /\ using = Unused
    /\ stored' = url /\ serving' = url
    /\ UNCHANGED <<using, unread>>

\* Requests that waited together begin together.
Begin(waiting) ==
    /\ serving # NoUrl
    /\ \A h \in waiting : using[h] = NoUrl
    /\ using' = [h \in Handlers |-> IF h \in waiting THEN serving ELSE using[h]]
    /\ UNCHANGED <<stored, serving, unread>>

End(h) ==
    /\ using[h] # NoUrl
    /\ using' = [using EXCEPT ![h] = NoUrl]
    /\ UNCHANGED <<stored, serving, unread>>

Stop ==
    /\ serving # NoUrl
    /\ serving' = NoUrl /\ using' = Unused
    /\ UNCHANGED <<stored, unread>>

Next ==
    \/ \E url \in Urls : Seed(url) \/ Start(url) \/ Replace(url)
    \/ \E waiting \in SUBSET Handlers : Begin(waiting)
    \/ \E h \in Handlers : End(h)
    \/ Stop

Spec == Init /\ [][Next]_vars
=============================================================================

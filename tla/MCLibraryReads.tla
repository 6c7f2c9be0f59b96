--------------------------- MODULE MCLibraryReads ---------------------------
\* Four orders on two chains; one of them has nothing to sell.  Two share a hash,
\* two have a vault for both sides, one has no output.  Three give b for a, one a
\* for b.
EXTENDS LibraryReads, TLC

CONSTANTS o1, o2, o3, o4, h1, h2, h3, h4, a, b

MCOrders == {o1, o2, o3, o4}
MCChain == o1 :> 1 @@ o2 :> 1 @@ o3 :> 2 @@ o4 :> 1
MCFunded == {o1, o2, o3}
MCPages == 0..3
MCSizes == {1, 2, 5}

MCHashes == {h1, h2, h3, h4}
MCHashOf == o1 :> h1 @@ o2 :> h1 @@ o3 :> h2 @@ o4 :> h3
MCVaultKinds ==
    o1 :> <<"output", "input">> @@ o2 :> <<"output", "input">>
    @@ o3 :> <<"both", "output">> @@ o4 :> <<"input">>

MCTakes == o1 :> a @@ o2 :> a @@ o3 :> a @@ o4 :> b
MCGives == o1 :> b @@ o2 :> b @@ o3 :> b @@ o4 :> a
MCCapacity == o1 :> 1 @@ o2 :> 1 @@ o3 :> 2 @@ o4 :> 1
MCPrice == o1 :> 2 @@ o2 :> 2 @@ o3 :> 3 @@ o4 :> 1
MCAmounts == {1, 4}

\* A taker's client reads nothing of the listing: its pages are checked beside the
\* empty one.
TakerAlone == taker.pc # "idle" => orders = <<>>

Symmetry == Permutations({o1, o2})
=============================================================================

SPECIFICATION Spec
CONSTANTS
    h1 = h1
    h2 = h2
    r1 = r1
    r2 = r2
    slot = slot
    Empty = Empty
    Pending = Pending
    Failed = Failed
    Masked = Masked
    Hashes <- MCHashes
    Slot <- MCSlotOwn
    AtHome <- MCOneOrderbook
    Garbled <- MCGarbled
    Requests <- MCRequests
    Direct = TRUE
    MaxHashes = 2
    Histories <- MCHistories
    MaxEvents = 4
INVARIANTS
    TypeOK
    QueryIsExact
    CacheIsTrue
    ResponsesAreTrue
SYMMETRY Symmetry

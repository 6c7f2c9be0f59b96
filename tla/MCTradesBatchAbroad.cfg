SPECIFICATION Spec
CONSTANTS
    h1 = h1
    h2 = h2
    r1 = r1
    r2 = r2
    slot = slot
    Empty = Empty
    Pending = Pending
    Failed = Failed
    Masked = Masked
    Hashes <- MCHashes
    Slot <- MCSlotOwn
    AtHome <- MCTwoOrderbooks
    Garbled <- MCNone
    Requests <- MCRequests
    Direct = TRUE
    MaxHashes = 2
    Histories <- MCNoHistory
    MaxEvents = 3
INVARIANTS
    BatchingIsTransparent
SYMMETRY RequestSymmetry

SPECIFICATION CachedFairSpec
CONSTANTS
    good = good
    a1 = a1
    a2 = a2
    o1 = o1
    t1 = t1
    i1 = i1
    Nobody = Nobody
    NoUrl = NoUrl
    Empty = Empty
    Error = Error
    Urls <- MCUrls
    Loadable <- MCUrls
    Admins <- MCAdmins
    Handlers <- MCHandlers
    Outside <- MCOutside
    Inside <- MCInside
    Takers <- MCTakers
    DbReadFails = FALSE
    MaxPuts = 2
INVARIANTS
    CachedTypeOK
    OutsideFresh
    OutsideCacheCurrent
PROPERTIES
    ReadsAnswered
CONSTRAINT
    StartUpSaves

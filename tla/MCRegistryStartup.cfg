SPECIFICATION Spec
CONSTANTS
    good1 = good1
    good2 = good2
    bad = bad
    a1 = a1
    a2 = a2
    h1 = h1
    h2 = h2
    Nobody = Nobody
    NoUrl = NoUrl
    Urls <- MCUrls
    Loadable <- MCLoadable
    Admins <- MCAdmins
    Handlers <- MCHandlers
    DbReadFails = TRUE
    MaxPuts = 2
PROPERTIES
    StartupKeepsPersistedUrl

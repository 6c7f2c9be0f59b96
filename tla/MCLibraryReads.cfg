SPECIFICATION ReadsSpec
CONSTANTS
    o1 = o1
    o2 = o2
    o3 = o3
    o4 = o4
    h1 = h1
    h2 = h2
    h3 = h3
    h4 = h4
    a = a
    b = b
    NoRatio = NoRatio
    Pending = Pending
    Unparsable = Unparsable
    Orders <- MCOrders
    Chain <- MCChain
    Funded <- MCFunded
    ScanPageSize = 1
    MaxPage = 4
    MaxPageSize = 3
    Pages <- MCPages
    Sizes <- MCSizes
    MaxTrades = 2
    Hashes <- MCHashes
    HashOf <- MCHashOf
    VaultKinds <- MCVaultKinds
    Takes <- MCTakes
    Gives <- MCGives
    Capacity <- MCCapacity
    Price <- MCPrice
    Amounts <- MCAmounts
    DefaultPageSize = 2
    ChainId = 1
    MaxTransactions = 4
INVARIANTS
    ReadsTypeOK
    ScanIsComplete
    AnswerIsComplete
    PagesMakeTheAnswer
    RatiosAreOwn
    DetailIsOwn
    SummaryIsComplete
    OrderErrorsAreHonest
    QuoteIsCovered
    SwapErrorsAreHonest
    PagingMissesNothing
SYMMETRY Symmetry
CONSTRAINT TakerAlone

SPECIFICATION Spec
CONSTANTS
    ob1 = ob1
    ob2 = ob2
    r1 = r1
    r2 = r2
    NoFetcher = NoFetcher
    Empty = Empty
    Orderbooks <- MCOrderbooks
    Requests <- MCRequests
INVARIANTS
    TypeOK
    AnswersCover
    DenialsAreHonest
SYMMETRY Symmetry

SPECIFICATION Spec
CONSTANTS
    user = user
    boss = boss
    NoName = NoName
    Names <- MCNames
    AdminNames <- MCAdminNames
    GlobalLimit = 1
    KeyLimit = 1
    HandlerErrors = {"NotYetIndexed"}
    ParseFailures = {422}
    MaxRequests = 2
INVARIANTS
    TypeOK
    OnlyEntitledRequestsRun
    WindowsAreOwn
    HeadersAreOwn
    UsageIsComplete

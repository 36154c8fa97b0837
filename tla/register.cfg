SPECIFICATION FairSpec
CONSTANTS
    Requests = {r1, r2}
    Orgs = {o1, o2}
    WorkOrders = {w1, w2}
    Payloads = {plain, unsigned}
    Valid = {plain, unsigned}
    Renderable = {plain}
    Ids = {a1, a2}
    Prefixes = {p1}
    None = None
    DBFails = TRUE
    StorageFails = TRUE
    Disconnects = TRUE
    Crashes = TRUE
PROPERTIES
    ImplementsRegister
    EveryRequestAnswered
CHECK_DEADLOCK FALSE

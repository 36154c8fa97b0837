SPECIFICATION FairSpec
CONSTANTS
    Requests = {r1, r2, r3}
    Orgs = {o1}
    WorkOrders = {w1}
    Payloads = {plain, unsigned}
    Valid = {plain, unsigned}
    Renderable = {plain}
    Ids = {a1, a2}
    Prefixes = {p1}
    None = None
    DBFails = FALSE
    StorageFails = TRUE
    Disconnects = FALSE
    Crashes = FALSE
INVARIANTS
    PendingHasWorker
PROPERTIES
    PendingSettles
CHECK_DEADLOCK FALSE

SPECIFICATION Spec
CONSTANTS
    Requests = {r1}
    Orgs = {o1}
    WorkOrders = {w1}
    Payloads = {plain}
    Valid = {plain}
    Renderable = {plain}
    Ids = {a1}
    Prefixes = {p1}
    None = None
    DBFails = FALSE
    StorageFails = FALSE
    Disconnects = TRUE
    Crashes = FALSE
INVARIANTS
    UploadErrorMarksFailed
CHECK_DEADLOCK FALSE

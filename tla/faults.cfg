SPECIFICATION Spec
CONSTANTS
    Requests = {r1, r2, r3}
    Orgs = {o1, o2}
    WorkOrders = {w1}
    Payloads = {plain, unsigned, incomplete}
    Valid = {plain, unsigned}
    Renderable = {plain}
    Ids = {a1, a2}
    Prefixes = {p1, p2}
    None = None
    DBFails = TRUE
    StorageFails = TRUE
    Disconnects = TRUE
    Crashes = TRUE
SYMMETRY Symmetry
INVARIANTS
    TypeOK
    OneAcceptancePerWorkOrder
    SoleWorker
    GeneratedIsStored
    SubmissionsAgree
    ReadersGetTheirOwn
PROPERTIES
    ReadyStaysReady
    SettledForever
CHECK_DEADLOCK FALSE

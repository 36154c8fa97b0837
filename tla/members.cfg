SPECIFICATION System
CONSTANTS
    Requests = {r1, r2}
    Orgs = {o1, o2}
    Users = {a1}
    Numbers = {}
    Admins = {a1}
    None = None
    WorkOrders = {w1}
    Payloads = {plain}
    Valid = {plain}
    Renderable = {plain}
    Ids = {i1, i2}
    Prefixes = {p1}
    DBFails = FALSE
    StorageFails = FALSE
    Disconnects = FALSE
    Crashes = FALSE
SYMMETRY Symmetry
INVARIANTS
    AcceptancesHaveOrgs
PROPERTIES
    AnswersStayInside
    AcceptancesComeFromMembers
    MembersFindTheirAcceptances

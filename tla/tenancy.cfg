SPECIFICATION Spec
CONSTANTS
    Requests = {r1, r2}
    Orgs = {o1, o2}
    Users = {u1, a1}
    Numbers = {n1}
    Admins = {a1}
    None = None
SYMMETRY Symmetry
INVARIANTS
    TypeOK
PROPERTIES
    ReadsStayInside
    WritesStayInside
    StoredOrdersAreFound
    MembersAreAdmitted
    DeletedUsersStay
    JoinedWhileActive

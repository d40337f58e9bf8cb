SPECIFICATION Spec
CONSTANTS
    u1 = u1
    u2 = u2
    u3 = u3
    r1 = r1
    r2 = r2
    None = None
    Users = {u1, u2, u3}
    Requests = {r1, r2}
    MAX_INSTITUTION_MEMBERS = 2
INVARIANTS
    LoginIsOwner
PROPERTIES
    OwnerKept
    IssuerKept
    RemovedStaysOut
SYMMETRY Symmetry
CHECK_DEADLOCK FALSE

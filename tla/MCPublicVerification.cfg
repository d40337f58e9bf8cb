SPECIFICATION Spec
CONSTANTS
    Requests = {r1}
    REVOCATION_TTL = 1
    EdgeAge = 1
    EdgeStale = 1
    RequestTime = 1
    WriteTime = 0
    ExpiresAt = 2
    MaxTime = 6
    MaxWrites = 2
    None = None
INVARIANTS
    StatusInWindow
    AuthorizationInWindow
CHECK_DEADLOCK FALSE

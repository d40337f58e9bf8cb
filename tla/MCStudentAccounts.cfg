SPECIFICATION Spec
CONSTANTS
    s1 = s1
    s2 = s2
    a1 = a1
    a2 = a2
    e1 = e1
    e2 = e2
    w1 = w1
    n1 = n1
    n2 = n2
    q1 = q1
    q2 = q2
    RowIds = {s1, s2}
    AccountIds = {a1, a2}
    Emails = {e1, e2}
    Wallets = {w1}
    Nonces = {n1, n2}
    Requests = {q1, q2}
    MaxCalls = 8
    None = None
INVARIANTS
    LinkEvidence
    OneAccountPerNonce
PROPERTIES
    NoneTakenKnowingly
SYMMETRY Symmetry
CHECK_DEADLOCK FALSE

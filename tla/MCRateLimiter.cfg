SPECIFICATION Spec
CONSTANTS
    i1 = i1
    i2 = i2
    Instances = {i1, i2}
    maxRequests = 2
    windowSeconds = 2
    MaxTime = 6
    None = None
INVARIANTS
    AdmissionBounded
    NoLockout
SYMMETRY Symmetry
CHECK_DEADLOCK FALSE

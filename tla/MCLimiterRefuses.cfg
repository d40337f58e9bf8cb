SPECIFICATION Spec
CONSTANTS
    i1 = i1
    i2 = i2
    Instances = {i1, i2}
    maxRequests = 1
    windowSeconds = 2
    MaxTime = 5
    None = None
INVARIANT
    ConfiguredServes
SYMMETRY Symmetry
CHECK_DEADLOCK FALSE

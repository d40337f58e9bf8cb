SPECIFICATION FairSpec
CONSTANTS
    Jobs = {j1, j2, j3}
    Workers = {w1, w2}
    MAX_ATTEMPTS = 3
    MaxLosses = 2
    None = None
INVARIANTS
    OneHolder
    BudgetKept
    PendingHasBudget
PROPERTIES
    ImplementsDelivery
    EveryJobSettles
CHECK_DEADLOCK FALSE

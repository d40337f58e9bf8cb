SPECIFICATION FairSpec
CONSTANTS
    Runs = {r1, r2}
    Poison = {1}
    PAGE_SIZE = 2
    MAX_RETRIES = 1
    LEASE = 2
    MAX_DURATION = 1
    THRESHOLD = 9
    BUMP_AMOUNT = 10
    MaxTotal = 3
    MaxFaults = 2
    None = None
INVARIANTS
    OneKeeper
    NoneArchived
PROPERTIES
    EverySwept
CHECK_DEADLOCK FALSE

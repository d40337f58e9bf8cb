SPECIFICATION FairSpec
CONSTANTS
    Sessions = {s1}
    MaxRows = 2
    MAX_LEDGER_RANGE = 1
    EVENT_BATCH_SIZE = 1
    MaxLedger = 3
    MaxErrors = 1
    None = None
INVARIANTS
    CursorCoversRows
    RowsTruthful
    RevocationTraced
PROPERTIES
    ImplementsChain
    ContentKept
    RevocationKept
    EventuallyIndexed
    RevocationEventuallyShown
CHECK_DEADLOCK FALSE

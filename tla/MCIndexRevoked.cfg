SPECIFICATION Spec
CONSTANTS
    Sessions = {s1}
    MaxRows = 2
    MAX_LEDGER_RANGE = 1
    EVENT_BATCH_SIZE = 1
    MaxLedger = 3
    MaxErrors = 1
    None = None
INVARIANT
    ShownAsRevoked
CHECK_DEADLOCK FALSE

SPECIFICATION FairVerificationSpec
CONSTANTS
    Institutions = {i1, i2}
    Wallets = {a1, a2}
    Requests = {r1}
    MAX_LEDGER_RANGE = 1
    EVENT_BATCH_SIZE = 1
    MaxLedger = 3
    MaxErrors = 1
    Null = Null
INVARIANTS
    StandingFollowsContract
    RevocationStands
PROPERTIES
    VerificationImplementsChain
    AuthorizationArrives
CHECK_DEADLOCK FALSE

\* Two accounts, two pieces of code to propose, a timelock of one ledger, batches of
\* up to two rows for one hash.
SPECIFICATION AuditSpec
CONSTANTS
    a1 = a1
    a2 = a2
    h1 = h1
    s1 = s1
    p1 = p1
    p2 = p2
    w1 = w1
    w2 = w2
    None = None
    Addresses = {a1, a2}
    Students = {s1}
    Hashes = {h1}
    WasmHashes = {w1, w2}
    Profiles = {p1, p2}
    OversizeProfiles = {p2}
    Expiries = {None}
    MAX_BATCH_SIZE = 2
    UPGRADE_TIMELOCK_LEDGERS = 1
    MaxLedger = 2
PROPERTIES Authority UpgradeNotice ImplementsChain
SYMMETRY Symmetry

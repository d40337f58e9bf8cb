\* Two accounts, two hashes, batches of up to three rows, one expiry date that
\* passes.
SPECIFICATION LoopSpec
CONSTANTS
    a1 = a1
    a2 = a2
    h1 = h1
    h2 = h2
    s1 = s1
    None = None
    Addresses = {a1, a2}
    Students = {s1}
    Hashes = {h1, h2}
    WasmHashes = {}
    Profiles = {}
    OversizeProfiles = {}
    Expiries = {None, 1}
    MAX_BATCH_SIZE = 3
    UPGRADE_TIMELOCK_LEDGERS = 1
    MaxLedger = 1
INVARIANTS SequentialTokenIds HashIndexConsistent
PROPERTIES StatusNeverImproves ContainmentLasts ImplementsRegistry BatchMatchesLoop
SYMMETRY Symmetry

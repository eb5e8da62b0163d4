SPECIFICATION Spec
CONSTANTS
    Wallets = {w1}
    Shared = Shared
    Foreign = Foreign
    LegacySolana = {}
    Android = TRUE
    Concurrent = TRUE
    LateFlush = FALSE
    MaxFaults = 0
INVARIANTS DeletedIsGone

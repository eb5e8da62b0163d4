SPECIFICATION Spec
CONSTANTS
    Wallets = {w1}
    Shared = Shared
    Foreign = Foreign
    LegacySolana = {}
    Android = TRUE
    Concurrent = FALSE
    LateFlush = TRUE
    MaxFaults = 2
INVARIANTS SecretRecoverable

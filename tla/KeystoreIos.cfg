SPECIFICATION Spec
CONSTANTS
    Wallets = {w1, w2}
    Shared = Shared
    Foreign = Foreign
    LegacySolana = {w2}
    Android = FALSE
    Concurrent = TRUE
    LateFlush = FALSE
    MaxFaults = 2
INVARIANTS SecretRecoverable DeletedLeavesNoFile UnboundIsStaged SafetyInv FilesInv

SPECIFICATION FairSpec
CONSTANTS
    Wallets = {w1, w2}
    Shared = Shared
    Foreign = Foreign
    LegacySolana = {}
    Android = TRUE
    Concurrent = TRUE
    LateFlush = FALSE
    MaxFaults = 1
INVARIANTS TypeOK SecretRecoverable DeletedLeavesNoFile UnboundIsStaged
PROPERTIES OnlyKeyholderReplaces EventuallyShared

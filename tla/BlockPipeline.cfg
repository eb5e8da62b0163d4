SPECIFICATION FairSpec
CONSTANTS
    MaxBlock = 5
    TxBlocks = {2, 3, 5}
    Lag = 1
    AwaitBlocks = 1
    ParallelBlocks = 2
    QueueBehind = 0
    CatchupReload = 2
    SkipOnError = {"fetch"}
    QueueLimit = 1
    MaxFaults = 2
    MaxToggles = 1
INVARIANTS TypeOK NoGap Deep NotifiedOnce
PROPERTIES Forward CatchesUp

SPECIFICATION FairSpec
CONSTANTS
    Users = {u}
    Options = {scarce, plenty}
    Requests = {r1, r2}
    Workers = {w1, w2}
    scarce = scarce
    plenty = plenty
    Cost <- OnePoint
    Limited = {scarce}
    Stock <- OnePiece
    Balance <- TwoPoints
    Awards = {1}
    Limit = 1
    MaxRetries = 1
    SkipOnError = FALSE
    MaxEvents = 1
    MaxFaults = 1
INVARIANTS TypeOK PaidOnce CompletedIsPaid LimitKept
PROPERTIES ImplementsLedger Settles
CHECK_DEADLOCK FALSE

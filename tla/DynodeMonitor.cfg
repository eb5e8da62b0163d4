SPECIFICATION FairSpec
CONSTANTS
    Failures = 2
    Rate = 60
    Window = 2
    MaxBuckets = 60
    N = 3
    Conditions = {"ok", "slow"}
    LatencyLimited = TRUE
    Clients = {c1}
    MaxAttempts = 2
    RetryEnabled = TRUE
    MaxLoad = 2
INVARIANTS TypeOK SignalFollows BestSeen NoLostWakeup
PROPERTIES OnlyOwnOutcomes Recovers

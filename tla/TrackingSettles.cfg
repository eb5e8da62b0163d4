SPECIFICATION FairSpec
CONSTANTS
    Wallets = {w1, w2}
    Ids = {b}
    Polls = {p1, p2}
    None = None
    Answers = {"inTransit", "confirmed"}
    Replacement <- Unreplaced
    MaxSends = 0
    MaxSyncs = 1
    MaxStops = 0
    MaxExpired = 2
    MaxFaults = 1
    a = a
    b = b
PROPERTIES PendingSettles

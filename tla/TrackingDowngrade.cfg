SPECIFICATION Spec
CONSTANTS
    Wallets = {w1}
    Ids = {a, b}
    Polls = {p1, p2}
    None = None
    Answers = {"inTransit", "confirmed"}
    Replacement <- Replaced
    MaxSends = 0
    MaxSyncs = 0
    MaxStops = 0
    MaxExpired = 0
    MaxFaults = 0
    a = a
    b = b
PROPERTIES NoDowngrade

SPECIFICATION Spec
CONSTANTS
    Wallets = {w1}
    Ids = {a, b}
    Polls = {p1, p2}
    None = None
    Answers = {"inTransit", "confirmed"}
    Replacement <- Replaced
    MaxSends = 1
    MaxSyncs = 0
    MaxStops = 1
    MaxExpired = 0
    MaxFaults = 1
    a = a
    b = b
INVARIANTS TypeOK EntriesOwned
SYMMETRY PollSymmetry

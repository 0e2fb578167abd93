SPECIFICATION SendFairSpec
CONSTANTS
    Threads = {t1, t2}
    Posters = {n1}
    NFences = 3
    Stride = 1
    Hash <- SameHash
    Nobody = Nobody
    H2GSpace = 2
    G2HSpace = 4
    MaxLen = 2
    EventLen = 1
    Responses = {"SUCCESS"}
    GiveUps = {}
    MaxTx = 2
    MaxPosts = 1
    MaxToggles = 0
INVARIANT ReserveKept
INVARIANT ResponseMatches
PROPERTY RequestReturns
CHECK_DEADLOCK FALSE

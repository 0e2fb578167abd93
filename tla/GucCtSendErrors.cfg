SPECIFICATION SendSpec
CONSTANTS
    Threads = {t1}
    Posters = {n1}
    NFences = 2
    Stride = 1
    Hash <- SameHash
    Nobody = Nobody
    H2GSpace = 2
    G2HSpace = 3
    MaxLen = 2
    EventLen = 1
    Responses = {"FAILURE", "RETRY"}
    GiveUps = {"ETIME", "ERESTARTSYS", "EPIPE"}
    MaxTx = 2
    MaxPosts = 2
    MaxToggles = 2
INVARIANT RoomTrue
CHECK_DEADLOCK FALSE

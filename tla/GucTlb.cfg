SPECIFICATION FairSpec
CONSTANTS
    Threads = {t1, t2}
    None = None
    Modulus = 16
    Start = 14
    Callers = {"ufence", "release"}
    MaxRounds = 1
    MaxResets = 2
    MaxParks = 1
    ResetFails = TRUE
 
PROPERTY SeqnoForward
PROPERTY SyncReturns
CHECK_DEADLOCK FALSE

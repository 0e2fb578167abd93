SPECIFICATION BootSpec
CONSTANTS
    pf = pf
    v1 = v1
    b1 = b1
    b2 = b2
    b3 = b3
    w = w
    failed = failed
    none = none
    PF = pf
    VFs = {v1}
    Calls <- MCCalls
    Caller <- MCCaller
    Target <- MCTarget
    Room <- MCRoom
    Requests <- MCRequests
    Replies <- MCReplies
    FenceMax = 4
    FirstFence = 3
    MaxPutOff = 1
    Failed = failed
    None = none
    BootCalls <- MCBootCalls
    RegCount = 3
    MaxChunk = 2
    Wanted <- MCWanted
    Latest <- MCLatest
    BaseMajor = 1
INVARIANT PendingAlive
INVARIANT ServedOnce
PROPERTY Implements
PROPERTY BootEnds
INVARIANT UpSound
CHECK_DEADLOCK FALSE

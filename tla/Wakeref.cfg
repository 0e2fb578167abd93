SPECIFICATION WfFairSpec
CONSTANTS
    Users = {u1, u2}
    Worker = Worker
    Retire = Retire
    Work = Work
    Nobody = Nobody
    MaxGets = 4
    MaxDefers = 2
    GetFails = TRUE
PROPERTY EventuallyParked
INVARIANT CountExact
INVARIANT HeldAwake
INVARIANT PmBalanced
CHECK_DEADLOCK FALSE

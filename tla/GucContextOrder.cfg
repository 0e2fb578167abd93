CONSTANTS
    None = None
    Contexts = {a, b}
    Requests = {r1, r2}
    NIds = 1
    Threshold = 1
    MaxActs = 1
    Acts = {"ban"}
    Overtake = FALSE
SPECIFICATION Spec
CHECK_DEADLOCK FALSE
INVARIANT InOrder

CONSTANTS
    None = None
    Contexts = {a, b}
    Requests = {r1, r2, r3}
    NIds = 1
    Threshold = 1
    MaxActs = 2
    Acts = {"ban", "close", "block", "hang", "busy", "reset"}
    Overtake = FALSE
SPECIFICATION Spec
CHECK_DEADLOCK FALSE
 
INVARIANT RefsExact
INVARIANT IdOwned
 
 
 
PROPERTY Settles
 

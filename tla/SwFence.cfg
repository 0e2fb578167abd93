SPECIFICATION Spec
CONSTANTS
    a = a
    b = b
    c = c
    d = d
    None = None
    Fences = {a, b, c}
    Dmas = {d}
    SwDeps <- MCSwDeps
    DmaDeps <- MCDmaDeps
    Timed <- MCTimed
    Holders = {a}
    Sleepers = {c}
    NoMem = TRUE
INVARIANT CountExact
INVARIANT Untouched
INVARIANT CallbackAlive
INVARIANT ErrorFirst
PROPERTY Implements
 
CHECK_DEADLOCK FALSE

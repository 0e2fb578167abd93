SPECIFICATION Spec
CONSTANTS
    Irq = irq
    Pollers = {t1}
    Workers = {w1}
    Resetter = rst
    None = None
    Size = 3
    MaxMsgs = 3
    MaxResets = 1
    Kinds = {"defer", "short"}
INVARIANT HandOff
INVARIANT ResetLeavesNone
INVARIANT ProcessedOnce
CHECK_DEADLOCK FALSE

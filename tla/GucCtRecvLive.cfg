SPECIFICATION FairSpec
CONSTANTS
    Irq = irq
    Pollers = {t1}
    Workers = {w1}
    Resetter = rst
    None = None
    Size = 3
    MaxMsgs = 3
    MaxResets = 0
    Kinds = {"inline", "defer"}
PROPERTY ReadInOrder
PROPERTY EventuallyHandled
CHECK_DEADLOCK FALSE

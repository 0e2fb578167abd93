SPECIFICATION RangeSpec
CONSTANTS
    Sizes <- Powers
    SZ_4K = 1
    SZ_2M = 4
    SZ_16M = 32
    vm_total = 64
 
INVARIANT Smallest
CHECK_DEADLOCK FALSE

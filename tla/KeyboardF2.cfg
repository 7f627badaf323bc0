SPECIFICATION Spec
CONSTANTS
    BufSize = 4
    a = a
    b = b
    F2 = F2
    Keys = {a, F2}
    kbdus <- Lower
    kbdus_caps <- Upper
    PastEnd = 0
    MaxStarts = 1
INVARIANTS
    NothingOnlyWhenEmpty
CHECK_DEADLOCK FALSE

SPECIFICATION Spec
CONSTANTS
    BufSize = 4
    a = a
    b = b
    F2 = F2
    Keys = {a, b}
    kbdus <- Lower
    kbdus_caps <- Upper
    PastEnd = 0
    MaxStarts = 2
INVARIANTS
    ErrorMeansNoKeys
CHECK_DEADLOCK FALSE

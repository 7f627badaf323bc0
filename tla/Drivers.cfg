SPECIFICATION MCSpec
CONSTANTS
    BufSize = 4
    a = a
    b = b
    F2 = F2
    Keys = {a, b}
    kbdus <- Lower
    kbdus_caps <- Upper
    PastEnd = 0
    MaxStarts = 3
    Width = 4
    Height = 5
    TabStop = 2
    klog_mask = 5
    Messages <- Printed
    Warning <- WarningText
    Reason <- ReasonText
    PanicTitle <- PanicWord
    HaltTitle <- HaltWord
    HaltText <- HaltingText
    MaxCalls = 3
INVARIANTS
    NoUnderflow
    NothingOnlyWhenEmpty
    PrintcRenders
    PanicReadable
PROPERTY
    ImplementsKeyQueue
CHECK_DEADLOCK FALSE

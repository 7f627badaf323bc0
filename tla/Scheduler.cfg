SPECIFICATION Spec
CONSTANTS
    Lines = {0, 1, 8, 12}
    Spurious = {7, 15}
    Exceptions = {13, 14}
    MaxThreads = 3
    NULL = NULL
INVARIANTS
    Acknowledged
    QueueComplete
PROPERTIES
    LinesServed
    EveryThreadScheduled
CHECK_DEADLOCK FALSE

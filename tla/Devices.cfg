SPECIFICATION DevSpec
CONSTANTS
    Null = Null
    r = r
    n1 = n1
    n2 = n2
    n3 = n3
    n4 = n4
    e1 = e1
    e2 = e2
    Stack = Stack
    Root = r
    Nodes = {r, n1, n2, n3, n4}
    Elems = {e1, e2}
    Items = {r, n1, n2, n3, n4, e1, e2}
    Lists = {r, n1, n2, n3, n4, Stack}
    dev_root = dev_root
    kernel_ns = kernel_ns
    pit = pit
    twin = twin
    Devs = {dev_root, kernel_ns, pit, twin}
    name <- Names
    Statics <- InKernel
    Driven = {pit, twin}
    Unstoppable = {pit}
SYMMETRY Interchangeable
INVARIANTS
    WellLinked
    NodesCounted
    DevicesFound
PROPERTY
    ImplementsSequences
CHECK_DEADLOCK FALSE

SPECIFICATION MCSpec
CONSTANTS
    l1 = l1
    l2 = l2
    k1 = k1
    k2 = k2
    b0 = b0
    b1 = b1
    Line = {l1, l2}
    Lane = {k1, k2}
    Byte = {b0, b1}
    Depth = 2
    BusAddr <- MCBusAddr
    PortOps <- MCPortOps
    None = None
    Missed = Missed
    CycleClks = {130, 131}
    QueueDepth = 8
INVARIANTS ServedInTime NoWriteDropped
PROPERTIES ImplementsCoherentMemory

CONSTANTS
    SlotNum = 4
    SrcNum = 3
    Window = 2
    HoldBack = 1
    QueueDepth = 4
    Rounds = 2
    HeaderWaits = 1
    HeaderRetries = 1
    IrqMax = 2
    FrameMax = 4
    ChangeMax = 1
    Faults = {"irq_twice", "memory", "scale", "param", "unmap"}
SPECIFICATION Spec
INVARIANTS
    PixelsIntact
    BitsIntact
    InFlightAccounted
PROPERTY KeepsLedger

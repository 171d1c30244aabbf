CONSTANTS
    Frames = 7
    LastPic = 8
    Gop = 3
    Depth = 2
    Delay = 5
    CuBufs = 2
    RoiBufs = 2
    Faults = {"anchor", "pass2", "quit", "abort"}
SPECIFICATION Spec
INVARIANTS
    InEncodeOrder
    FlushIsComplete
    JobsAccounted
    PoolsSuffice
    CuInfoIntact
    WrittenOnce
PROPERTIES
    EndIsFinal
    CallsReturn
CHECK_DEADLOCK FALSE

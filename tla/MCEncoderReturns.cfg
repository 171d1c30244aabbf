CONSTANTS
    SlotNum = 3
    SrcNum = 3
    Window = 1
    HoldBack = 1
    QueueDepth = 2
    Rounds = 2
    HeaderWaits = 1
    HeaderRetries = 1
    IrqMax = 1
    FrameMax = 3
    ChangeMax = 1
    Faults = {"slow", "bs_full", "time", "close", "start", "encode", "vlc_full",
              "queue_full", "reset"}
SPECIFICATION FairSpec
INVARIANTS
    OutputMatches
PROPERTY CallsReturn

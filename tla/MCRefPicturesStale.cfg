SPECIFICATION Spec
CONSTANTS
    Gop <- MCGop
    Setups <- StaleSetups
    PicMax = 8
INVARIANT SameReferences

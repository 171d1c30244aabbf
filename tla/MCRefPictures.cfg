SPECIFICATION Spec
CONSTANTS
    Gop <- MCGop
    Setups <- MCSetups
    PicMax = 12
INVARIANTS
    SameReferences
    BuffersIntact
    BuffersSuffice
    NextIsToCome
    IdrCutsTheOrder

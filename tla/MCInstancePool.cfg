CONSTANTS
    c1 = c1  c2 = c2  c3 = c3
    Context = {c1, c2, c3}
    Nobody = Nobody
    SlotNum = 2
    OpenMax = 2
    Faults = {"open", "close", "build", "reset"}
SPECIFICATION Spec
INVARIANTS
    OneOwner
    InstanceIsWhole
    SlotsAccounted
CHECK_DEADLOCK FALSE

CONSTANTS
    b1 = b1  b2 = b2  b3 = b3
    a0 = a0  a1 = a1  a2 = a2  a3 = a3
    v0 = v0  v1 = v1  v2 = v2  v3 = v3
    Buffer = {b1, b2, b3}
    Addr = {a0, a1, a2, a3}
    Virt = {v0, v1, v2, v3}
    CommonAddr = a0  CommonVirt = v0
    NoAddr = NoAddr  NoVirt = NoVirt  Nobody = Nobody
    SlotNum = 3
SPECIFICATION Spec
SYMMETRY Symmetry
INVARIANTS
    FreeFindsOwn
    AccessFindsOwn
    NothingLeaked
CHECK_DEADLOCK FALSE

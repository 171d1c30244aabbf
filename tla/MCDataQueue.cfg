CONSTANTS
    Size = 3
    Item = {a, b}
    NoItem = none
SPECIFICATION Spec
INVARIANTS
    LentPointerStable
PROPERTY QueueIsFifo

SPECIFICATION Spec
CONSTANTS
    Size = 6
    MaxOffset = 4
    MaxLength = 6
    MaxPending = 2
INVARIANTS
    NoPanic
    EndsRight
    BytesInv
PROPERTY NoStall

SPECIFICATION Spec
CHECK_DEADLOCK FALSE
CONSTANTS
    Frames <- MCFrames
    Interfaces <- MCInterfaces
    mtu_default = 44
INVARIANTS
    ChecksumsValid
    OnlyFixesMade

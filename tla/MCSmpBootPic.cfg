SPECIFICATION Spec
CONSTANTS
    CPUs = {c0, c1}
    BSP = c0
    Nobody = Nobody
    Machines <- MCNoLapic
    MaxTicks = 1
INVARIANT
    PicAcknowledged
CHECK_DEADLOCK FALSE

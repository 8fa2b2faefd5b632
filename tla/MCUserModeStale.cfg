\* A frame read after its pte was cleared: expected to fail.
SPECIFICATION Spec
CONSTANTS
    CPUs = {c1, c2}
    PfnBits = 3
    MAX_ALLOC_ORDER = 1
    Usable <- AllPages
    NoFrame = NoFrame
    Contents <- HeldEntries
PROPERTY ClearedInaccessible
CHECK_DEADLOCK FALSE

\* Two processors that need four pages each, of eight.
SPECIFICATION FairSpec
CONSTANTS
    CPUs = {c1, c2}
    PfnBits = 3
    MAX_ALLOC_ORDER = 1
    Usable <- AllPages
    NoFrame = NoFrame
    Contents <- HeldEntries
INVARIANTS
    UserIsolation
    MappedWhileUsed
    BlocksAccounted
    NothingLeftMapped
PROPERTY StartEnds
CHECK_DEADLOCK FALSE

\* Two processors; six pages of which two are reserved, and no power of two:
\* buddies that are reserved and buddies beyond the last page.
SPECIFICATION Spec
CONSTANTS
    CPUs = {c1, c2}
    BSP = c1
    NoCPU = NoCPU
    PfnBits = 3
    MAX_ALLOC_ORDER = 2
    kpage_last <- Last5
    Unusable <- PagesZeroTwo
INVARIANTS
    NoLeak
    Coalesced
    KpageLocksUncontended
    NoWaitChain
PROPERTIES
    PrivateUntouched
    PromiseSpec

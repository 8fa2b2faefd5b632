\* Two processors, four pages: every interleaving of the two, each processor
\* executing for ever.
SPECIFICATION FairSpec
CONSTANTS
    CPUs = {c1, c2}
    BSP = c1
    NoCPU = NoCPU
    PfnBits = 2
    MAX_ALLOC_ORDER = 2
    kpage_last <- Last3
    Unusable <- NoPage
INVARIANTS
    TypeOK
    NoDoubleAllocation
    FlagsTruthful
PROPERTIES
    LocksReleased
    QuietCallReturns
    FailOnlyWhenExhausted
    CallsAdvance

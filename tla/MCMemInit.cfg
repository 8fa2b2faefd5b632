\* Every small E820 map; the kernel's tables and kpages grow with the memory.
SPECIFICATION Spec
CONSTANTS
    Maps <- SmallMaps
    MappedEnd = 3
    PtesPerTable = 8
    KpagesPerPage = 8
    MaxPages = 12
    LinearPages = 8
    FixedReserved <- BiosPages
    FixedKernel <- BootPages
INVARIANTS
    OnlyFreeMemory
    AllFreeMemory
    InsideKpages
CHECK_DEADLOCK FALSE

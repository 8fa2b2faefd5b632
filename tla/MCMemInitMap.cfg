\* The boot loader does not count every entry: expected to fail.
SPECIFICATION Spec
CONSTANTS
    Maps <- SmallMaps
    MappedEnd = 3
    PtesPerTable = 8
    KpagesPerPage = 8
    MaxPages = 12
    LinearPages = 8
    FixedReserved <- BiosPages
    FixedKernel <- BootPages
INVARIANT MapStored
CHECK_DEADLOCK FALSE

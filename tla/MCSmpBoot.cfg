SPECIFICATION FairSpec
CONSTANTS
    CPUs = {c0, c1, c2}
    BSP = c0
    Nobody = Nobody
    Machines <- MCMachines
    MaxTicks = 1
INVARIANTS
    PrologueNeverFaults
    PrintfNeverFaults
    FaultsRepaired
    LowUnmapped
    ApsCounted
PROPERTIES
    MasterStable
    StartCompletes
CHECK_DEADLOCK FALSE

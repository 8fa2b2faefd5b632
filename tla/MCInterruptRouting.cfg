\* Every small MADT; a calibration that sees up to two ticks.
SPECIFICATION FairSpec
CONSTANTS
    Madts <- SmallMadts
    Devices <- SmallDevices
    TicksPerMs = 2
    MaxCalibration = 2
    MaxTicks = 2
    MaxRaises = 2
INVARIANTS
    RoutedAsOverridden
    HaltOnlyLastPin
    SecondsCounted
PROPERTY KeysServed
CHECK_DEADLOCK FALSE

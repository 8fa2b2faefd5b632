\* Messages around the end of the page, with the next page mapped or not.
SPECIFICATION FairSpec
CONSTANTS
    CPUs = {0, 1}
    Nobody = Nobody
    SIZE = 4
    Messages <- SmallMessages
    Rows = 3
    Columns = 3
    ClockColumn = 2
    ClockDigits = 1
    EchoColumn = 1
    EchoSize = 2
    MaxMessages = 3
INVARIANTS
    LogOnScreen
    PageRespected
PROPERTY PrintfReturns
CHECK_DEADLOCK FALSE

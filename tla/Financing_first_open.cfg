SPECIFICATION Spec
CONSTANTS
    DayLength = 8
    TicksPerSecond = 2
    Instruments <- SomeInstruments
    Starts = {112}
    Steps = {1}
    Horizon = 176
CHECK_DEADLOCK FALSE
INVARIANT NextOpenIsFirst

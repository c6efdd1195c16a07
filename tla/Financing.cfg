SPECIFICATION Spec
CONSTANTS
    DayLength = 8
    TicksPerSecond = 2
    Instruments <- SomeInstruments
    Starts = {112, 115}
    Steps = {1, 5, 16}
    Horizon = 176
CHECK_DEADLOCK FALSE
INVARIANTS
    IsOpenAsDeclared
    OneSessionAtATime
    NextOpenIsOpen
    NextCloseEndsTrading
    EachRolloverOnce
    EachSettlementOnce
    AWeekIsSevenNights

SPECIFICATION FairBackfillSpec
CONSTANTS
    Writers = {w1, w2}
    w1 = w1
    w2 = w2
    Instants = {1, 2}
    Batches <- SomeBatches
    MaxCalls = 3
    Backfiller = w1
    Source <- MinuteBars
    Granularity = "5s"
    CandlePrice = "mid"
    PageSize = 1
    ClosedRow <- Closed
    FirstNow = 2
    MaxNow = 3
CHECK_DEADLOCK FALSE
INVARIANTS
    ReturnedIsStored
    BackfillLeavesNoGap
PROPERTIES
    HistoryIsFinal
    ImplementsTables
    EveryStoreEnds

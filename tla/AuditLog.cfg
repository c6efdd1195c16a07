SPECIFICATION FairSpec
CONSTANTS
    Writers = {w1, w2, w3}
    Bypass = {w3}
    Unsound = {2}
    MaxPool = 2
    MaxCalls = 3
INVARIANTS
    TypeOK
    ChainUnbroken
    StoredMeansRecorded
    RaisedMeansNotRecorded
    RecordedOnce
    LockPreventsCollision
PROPERTIES
    AppendOnly
    ImplementsLedger
    EveryAppendReturns
CHECK_DEADLOCK FALSE

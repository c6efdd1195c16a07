SPECIFICATION FairSpec
CONSTANTS
    Evaluations = {e1, e2}
    e1 = e1
    e2 = e2
    Statements = {s1}
    s1 = s1
    MaxPool = 1
    MaxChanges = 1
    Consumer = consumer
    MaxMessages = 2
    MaxDecisions = 2
    None = None
    Paths = {"health", "ready"}
    Inbound = {x}
    x = x
CHECK_DEADLOCK FALSE
INVARIANTS
    ReadyIsEarned
    NoTraceIsShared
PROPERTY EveryRequestIsAnswered

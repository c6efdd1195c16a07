SPECIFICATION FairSpec
CONSTANT MaxRuns = 3
CHECK_DEADLOCK FALSE
INVARIANTS
    EveryCloseAttempted
    DrainBeforeClose
    NeverServesUnrecorded
    RunsAreBracketed
    CleanRunHasBoth
PROPERTY SignalEndsTheRun

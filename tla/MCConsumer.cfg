SPECIFICATION FairSpec
CONSTANTS
    ReqNum = 4
    SeqMax = 5
    InitialRate = 4
    FixedRate <- MCNone
    GreedyRate = 5
    TimedStop = TRUE
    TargetRate = {1, 6}
    Leftover = {0}
INVARIANTS TypeOK Accounted SendArmed StopsServed NeverFails
PROPERTIES Completes

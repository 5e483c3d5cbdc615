SPECIFICATION Spec
CONSTANTS
    ReqNum = 2
    SeqMax = 3
    InitialRate = 4
    FixedRate <- MCNone
    GreedyRate <- MCNone
    TimedStop = FALSE
    TargetRate = {1, 6}
    Leftover = {0, 1}
INVARIANTS StopsServed

SPECIFICATION ShareSpec
CONSTANTS
    Null = Null
    Flow = {f1,f2}
    MaxSize = 3
    Size = {2,3}
    Marks = {FALSE}
    Quantum = 4
    VqSize = 2
    Cdt = 0
    RateLimited = TRUE
    EachStep = 4
    BucketSize = 4
    GreedyThreshold = 1
    MaxCleanups = 1
SYMMETRY Flows
INVARIANTS
    FairShare

SPECIFICATION Spec
CONSTANTS
    Null = Null
    Flow = {f1,f2,f3}
    MaxSize = 2
    Size = {2}
    Marks = {TRUE, FALSE}
    Quantum = 2
    VqSize = 1
    Cdt = 0
    RateLimited = TRUE
    EachStep = 3
    BucketSize = 3
    GreedyThreshold = 1
    MaxCleanups = 1
INVARIANTS
    TypeOK
    FlowsListKeys
    CountExact
    RecursionEnds
    CreditBounded
    NothingPassedOver
    MarkNeverLost
SYMMETRY FlowSymmetry

SPECIFICATION AskSpec
CONSTANTS
    Null = Null
    Flow = {f1,f2}
    MaxSize = 2
    Size = {2}
    Marks = {TRUE, FALSE}
    Quantum = 2
    VqSize = 2
    Cdt = 3
    RateLimited = TRUE
    EachStep = 2
    BucketSize = 3
    GreedyThreshold = 1
    MaxCleanups = 1
PROPERTIES
    ImplementsFairClass

SPECIFICATION FairSpec
CONSTANTS
    SPOrder <- MCSPOrder
    WFQOrder <- MCWFQOrder
    Weight <- MCWeight
    Null = Null
    Flow = {f1}
    MaxSize = 3
    Size = {2, 3}
    VqSize = 2
    Cdt = 200
    EachStep <- MCEachStep
    BucketSize = 4
    HalfRange = 7
    MaxArrivals = 5
INVARIANTS
    TypeOK
    OneTimer
    RestsOnlyWhenEmpty
    RangeSuffices
    LagBounded
PROPERTIES
    PriorityRespected
    ImplementsPort
    WFQDrains

SPECIFICATION FairSpec
CONSTANTS
    SPOrder <- MCSPOrder
    WFQOrder <- MCWFQOrder
    Weight <- MCWeight
    Null = Null
    Flow = {f1}
    MaxSize = 3
    Size = {3}
    VqSize = 2
    Cdt = 200
    EachStep <- MCEachStep
    BucketSize = 4
    HalfRange = 100
    MaxArrivals = 3
PROPERTIES
    RetriesWhenIdle

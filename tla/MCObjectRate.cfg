SPECIFICATION Spec
CONSTANTS
    SP = {0}
    WFQOrder <- MCWFQOrder
    Weight <- MCWeight
    Limit <- MCLimit
    Tos <- MCTos
    Link = 90
    Flow = {f1, f2}
    Offer <- MCOffer
    f1 = f1
    f2 = f2
    InterestSize = 5
    Asked = {15, 200}
    VqSize = 2
    Cdt = 3
    PenalisedSize = 1
    GreedyThreshold = 1
    Discount <- MCDiscount
    Margin = 10
    Junk <- MCJunk
    Second = 100
    Interval = 10
    HalfRange = 1000
    MaxArrivals = 3
    MaxReceived = 1
INVARIANTS TypeOK RatesWithinClass AnswersKnown
PROPERTIES ClassesFit

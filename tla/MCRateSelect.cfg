SPECIFICATION FairSpec
CONSTANTS
    Down = {1, 3}
    NextHops <- MCTwoHops
    Local = {}
    Rate = {0, 1}
    DefaultRate = 2
    Wrap = 3
    Dsz = {2, 3}
    Quantum = 4
    BalanceCap = 5
INVARIANTS TypeOK SelectionEnds RefusedOnlyHopeless CreditBounded TotalsExact
PROPERTIES SilenceForgotten

SPECIFICATION LeadSpec
CONSTANTS
    Down = {1}
    NextHops <- MCTwoHops
    Local = {}
    Rate = {0, 3}
    DefaultRate = 2
    Wrap = 16
    Dsz = {1, 3}
    Quantum = 5
    BalanceCap = 9
INVARIANTS ProportionalSplit

SPECIFICATION Spec
CONSTANTS
    Downstream = {1, 2, 4}
    NextHops <- MCNextHops
    LocalConsumer = {4}
    Lifetime = {1, 2}
    MinRetxInterval = 1
    MaxNonce = 3
    MaxArrivals = 4
INVARIANTS NackIsOfLast
CHECK_DEADLOCK FALSE

SPECIFICATION Spec
CONSTANTS
    Checkouts = {k1}
    Skus = {s1, s2}
    Requests = {c1, c2}
    Sweeps = {w1}
    Supplies <- OneUnit
    SweepLimit = 1
    MaxUpdates = 1
    MaxFailures = 0
INVARIANT
    StockDiesWithCheckout
CHECK_DEADLOCK FALSE

SPECIFICATION Spec
CONSTANTS
    Skus = {s1}
    Keys = {k1}
    Requests = {c1, c2}
    Sweeps = {}
    NoKey = NoKey
    AdjustKeys = {a1}
    Quantities <- OnlyOne
    MaxQuantity = 1
    Openings <- OnlyTwo
    Deltas <- MinusOnly
    SweepLimit = 1
    MaxOnHand = 3
    MaxFailures = 0
INVARIANT LedgerAccountsForStock
